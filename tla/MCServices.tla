------------------------------ MODULE MCServices ------------------------------
(* Small instances of the modules on what the program talks to, in one run: they   *)
(* share nothing, so each is explored with the others at rest.                     *)
EXTENDS LspClient, McpBridge, ProviderStream, Registry, ToolOffer

services == <<lspVars, mcpVars, streamVars, setupVars, registryVars, offerVars>>

OneAfterAnother == <<"codegraph", "context7">>

\* A relay, for which the models of the others may be entered as well.
ThreeProviders == <<"deepseek", "anthropic", "custom">>
Offered == {<<"deepseek", "flash">>, <<"anthropic", "haiku">>}
CheapestFirst == <<"haiku", "flash">>
Installed == <<"deepseek", "flash">>

\* What a user may write into a file: another default, the same new model under the
\* relay, under anthropic or both, one of anthropic's under the relay too, a key under another label, keys of the system.
Settings == {
  <<<<"defaultProvider">>, "anthropic">>, <<<<"models", "default">>, "haiku">>,
  <<<<"models", "default">>, "own">>, <<<<"providers", "custom", "models", "own">>, "listed">>,
  <<<<"providers", "anthropic", "models", "own">>, "listed">>,
  <<<<"providers", "custom", "models", "haiku">>, "listed">>,
  <<<<"providers", "anthropic", "credentialRef">>, "team">>, <<<<"runtime", "allowEnvKeys">>, "yes">> }
Protocols == [p \in Providers |-> IF p = "custom" THEN "openai-compatible" ELSE p]
Thinkers == [m \in Models |-> IF m = "haiku" THEN "no" ELSE "manual"]

\* Tools of each category, in the order they are registered in.
Kinds == [t \in {"edit", "read", "diff", "web", "symbol", "fim"} |->
  [category |-> CASE t \in {"edit", "read"} -> "base" [] t = "diff" -> "git" [] t = "web" -> "search"
                  [] t = "symbol" -> "codegraph" [] t = "fim" -> "fim",
   readonly |-> t \notin {"edit", "fim"}]]
Places == [t \in DOMAIN Kinds |->
  CASE t = "read" -> 1 [] t = "edit" -> 2 [] t = "web" -> 3 [] t = "diff" -> 4 [] t = "symbol" -> 5
    [] t = "fim" -> 6]

\* A language server that could not be started.
NoLanguageServer ==
  /\ proc = NoProc /\ live = {} /\ starts = 1 /\ reqId = 1
  /\ pending = {} /\ clocks = {} /\ waiting = {} /\ asked = {} /\ wire = {}
  /\ opened = {} /\ openFiles = {} /\ ready = FALSE /\ attempts = 0
  /\ reconnects = 0 /\ buffer = "empty" /\ closing = "done"

\* Every MCP server failed to start.
NoMcpServer ==
  /\ at = Len(Servers) + 1 /\ step = "spawn" /\ up = {} /\ connected = {}
  /\ failed = Names
  /\ slot = [s \in Names |-> Nobody] /\ todo = [s \in Names |-> {}]
  /\ answered = [s \in Names |-> {}] /\ tools = [s \in Names |-> Nobody]
  /\ state = [c \in Calls |-> "idle"]
  /\ target = [c \in Calls |-> CHOOSE s \in Names : TRUE]

\* A request the provider refused.
NoRequest ==
  /\ dialect = "chat" /\ relay = "deltas" /\ turn = 1 /\ attempt = 0
  /\ phase = "stopped" /\ batch = <<>> /\ texts = [a \in 0..MaxRetries |-> 0]
  /\ unsafe = FALSE /\ handed = <<>>

NoKey == SetupInit /\ keys = {}

NoRuntime == RegistryInit

\* A run before its first request.
NoRound ==
  /\ offerRun = [stable |-> TRUE, readonly |-> FALSE, notReady |-> FALSE]
  /\ offerRound = 0 /\ planning = FALSE /\ blockActive = FALSE /\ offered = {}
  /\ changed = "nothing"

Init ==
  \/ LspInit /\ NoMcpServer /\ NoRequest /\ NoKey /\ NoRuntime /\ NoRound
  \/ NoLanguageServer /\ McpInit /\ NoRequest /\ NoKey /\ NoRuntime /\ NoRound
  \/ NoLanguageServer /\ NoMcpServer /\ StreamInit /\ NoKey /\ NoRuntime /\ NoRound
  \/ NoLanguageServer /\ NoMcpServer /\ NoRequest /\ SetupInit /\ NoRuntime /\ NoRound
  \/ NoLanguageServer /\ NoMcpServer /\ NoRequest /\ NoKey /\ RegistryInit /\ NoRound
  \/ NoLanguageServer /\ NoMcpServer /\ NoRequest /\ NoKey /\ NoRuntime /\ OfferInit

OthersRest == NoLanguageServer /\ NoMcpServer /\ NoRequest

Next ==
  \/ LspNext /\ UNCHANGED <<mcpVars, streamVars, setupVars, registryVars, offerVars>>
  \/ McpNext /\ UNCHANGED <<lspVars, streamVars, setupVars, registryVars, offerVars>>
  \/ StreamNext /\ UNCHANGED <<lspVars, mcpVars, setupVars, registryVars, offerVars>>
  \/ /\ OthersRest /\ NoRuntime /\ NoRound
     /\ SetupNext /\ UNCHANGED <<lspVars, mcpVars, streamVars, registryVars, offerVars>>
  \/ /\ OthersRest /\ NoKey /\ NoRound
     /\ RegistryNext /\ UNCHANGED <<lspVars, mcpVars, streamVars, setupVars, offerVars>>
  \/ /\ OthersRest /\ NoKey /\ NoRuntime
     /\ OfferNext /\ UNCHANGED <<lspVars, mcpVars, streamVars, setupVars, registryVars>>

Spec == Init /\ [][Next]_services /\ LspFairness /\ McpFairness /\ StreamFairness

\* What is sent fits who gets it and offers the tools its round may have, and no file
\* takes a known model away.
RequestsFit == RequestFits /\ OfferHolds /\ NothingListedIsLost

\* Whatever a language server or a provider does, its caller gets on: no call of the
\* language server and no round of the agent waits for ever.
CallsSettle == LspCallsSettle /\ RoundsSettle
=============================================================================
