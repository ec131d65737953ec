------------------------------ MODULE MCProvider ------------------------------
(***************************************************************************)
(* Model checking of the programs and services the daemon talks to: the     *)
(* HTTP adapters, one attempt with its progress sink, the routing over a    *)
(* chain of three endpoints shared by two runs, the subscription client,    *)
(* the Codex setup, the sessions with an MCP server and extensions.  The    *)
(* parts share no state: `part' is chosen initially and only that part      *)
(* moves.                                                                   *)
(***************************************************************************)
EXTENDS ProviderStream, ProviderAttempt, ProviderRouting,
        SubscriptionClient, CodexLogin, McpSession, Extensions

CONSTANTS p1, p2, p3, r1, r2, x1

VARIABLE part

\* The primary cannot serve run r2; r1 follows the automatic route.
MCChain == <<p1, p2, p3>>
MCAdapter == p1 :> "anthropic" @@ p2 :> "subscription" @@ p3 :> "responses"
MCServes(e, r) == ~(e = p1 /\ r = r2)

\* Lines of an MCP server: answers of the three steps, fit and unfit, with two
\* pages of tools, and everything else wait_for_response tells apart.
T(n, s, ok) == [name |-> n, schema |-> s, supported |-> ok]
Line(k, id, body, tools, next) == [kind |-> k, id |-> id, body |-> body, tools |-> tools, next |-> next]
MCLines ==
  {Line("result", 1, b, <<>>, "none") : b \in {"fits", "invalid"}}
  \cup {Line("result", 2, "fits", <<T("t", 1, TRUE)>>, n) : n \in {"none", "c"}}
  \cup {Line("result", 2, "fits", <<T("t", 2, TRUE)>>, "none"),
         Line("result", 2, "fits", <<T("t", 1, FALSE)>>, "none"),
         Line("result", 3, "fits", <<T("u", 1, TRUE)>>, "none"),
         Line("result", 3, "fits", <<>>, "d"),
         Line("result", 3, "fits", <<T("t", 2, TRUE)>>, "none")}
  \cup {Line("result", 4, b, <<>>, "none") : b \in {"fits", "oversized", "invalid"}}
  \cup {Line(k, 4, "fits", <<>>, "none") : k \in {"error", "request", "note", "list_changed", "garbage", "long", "malformed"}}
MCAllow == {{"t"}}
MCReviewed == {<<T("t", 1, TRUE)>>}

\* Two manifests of one extension, two authorities and two inputs.
Schema == [properties |-> [f \in {"text"} |-> [type |-> "string", maximum |-> 1]], required |-> {}, additional |-> FALSE, maximumBytes |-> 1]
Cap(e) == [effect |-> e, input |-> Schema]
MC1 == [extension |-> x1, name |-> "n", version |-> 1, hostApi |-> {1}, health |-> "health",
  capabilities |-> [k \in {"health", "read", "write"} |-> Cap(IF k = "write" THEN "mutating" ELSE "read_only")],
  filesystem |-> [n \in {"data"} |-> "read_only"], network |-> {}, secrets |-> {}, spawn |-> FALSE,
  migrations |-> {}, shutdown |-> {"health"}]
MC2 == [MC1 EXCEPT !.version = 2, !.capabilities = [k \in {"health"} |-> Cap("read_only")]]
MCManifests == {MC1, MC2}
Auth(c) == [capabilities |-> c, mounts |-> [n \in {"data"} |-> [access |-> "read_only", overlapsHome |-> FALSE]], network |-> {}, secrets |-> {}, spawn |-> FALSE]
MCRequests == {Auth({"health", "read", "write"}), Auth({"health"})}
MCInputs == {[f \in {"text"} |-> [type |-> "string", size |-> 1]], [f \in {"text"} |-> [type |-> "string", size |-> 2]]}

\* Bound: the last lifecycle revision with at most one recorded invocation.
ExtBound == Len(invocations') > 1 => installation'[x1].revision < MaxExtRevision

CallSymmetry == Permutations(ExtCalls)

MCInit ==
  /\ part \in {"stream", "attempt", "routing", "client", "codex", "mcp", "extensions"}
  /\ StreamInit /\ (part # "stream" => protocol = "responses" /\ streaming)
  /\ AttemptInit /\ RoutingInit
  /\ pins[r1] = "none" /\ pins[r2] \in {"none", p2}
  /\ (part # "routing" => pins[r2] = "none")
  /\ ClientInit /\ CodexInit /\ McpInit /\ ExtInit
  /\ (part # "mcp" => ~mcpConfig.known)
  /\ (part # "codex" => setup.requested = "none")

AllBut(p) ==
  /\ UNCHANGED part
  /\ p # "stream" => UNCHANGED streamVars
  /\ p # "attempt" => UNCHANGED attemptVars
  /\ p # "routing" => UNCHANGED routingVars
  /\ p # "client" => UNCHANGED clientVars
  /\ p # "codex" => UNCHANGED codexVars
  /\ p # "mcp" => UNCHANGED mcpVars
  /\ p # "extensions" => UNCHANGED extVars

MCNext ==
  \/ part = "stream" /\ StreamNext /\ AllBut("stream")
  \/ part = "attempt" /\ AttemptNext /\ AllBut("attempt")
  \/ part = "routing" /\ RoutingNext /\ AllBut("routing")
  \/ part = "client" /\ ClientNext /\ AllBut("client")
  \/ part = "codex" /\ CodexNext /\ AllBut("codex")
  \/ part = "mcp" /\ McpNext /\ AllBut("mcp")
  \/ part = "extensions" /\ ExtNext /\ ExtBound /\ AllBut("extensions")
=============================================================================
