------------------------------- MODULE Registry -------------------------------
(***************************************************************************)
(* From the files a user edits to the request a provider gets: loadConfig    *)
(* of src/src/config/config-loader.ts, the providers and models createRuntime *)
(* (src/src/runtime/bootstrap.ts) registers from it, the registry of          *)
(* src/src/provider/registry.ts and what MultiProvider (multi.ts) makes of a  *)
(* call: model, tool schemas, thinking.                                       *)
(*                                                                           *)
(* A configuration is a tree; a layer of it is the function from the paths of *)
(* its leaves to their values, and a deep merge is an override of functions.  *)
(***************************************************************************)
EXTENDS ModelSetup

CONSTANTS
  Protocol,      \* Protocol[p]: type of the provider
  Thinks,        \* Thinks[m]: "no", "manual" or "adaptive" by its capabilities
  Edits,         \* <<path, value>> pairs a user may write into a file
  Given,         \* providers whose key an option of createRuntime can give
  Budgets,       \* budgets a caller may ask for; 0: leaves it to the model
  TokenLimits,   \* maxTokens of a call
  MinTokens,     \* the limit up to which anthropic gets no thinking (1024)
  DefaultBudget, ForcedBudget,  \* 16384 and 32768 in router.ts
  MaxEdits       \* bound on the edits

ASSUME RegistryAssumption ==
  /\ MinTokens \in Nat /\ MaxEdits \in Nat
  /\ \A e \in Edits : e = <<e[1], e[2]>> /\ (e[1] = <<"models", "default">> => e[2] \in Models)
  /\ Budgets \cup TokenLimits \cup {DefaultBudget, ForcedBudget} \subseteq Nat

VARIABLES
  layer,     \* the global and the project file; None where it does not parse
  edits,     \* edits so far
  refs,      \* credentials of auth.json, as <<provider, label>>
  runtime,   \* what createRuntime made: config, configured, known; or None
  request    \* the last call of streamChat

registryVars == <<layer, edits, refs, runtime, request>>

ModelPath(p, m) == <<"providers", p, "models", m>>
RefPath(p) == <<"providers", p, "credentialRef">>
DefaultProvider == <<"defaultProvider">>
DefaultModel == <<"models", "default">>
EnvKeys == <<"runtime", "allowEnvKeys">>

\* defaultConfig with builtInProviders.
DefaultLayer ==
  [path \in {DefaultProvider, DefaultModel} \cup {ModelPath(pair[1], pair[2]) : pair \in BuiltIn} |->
     IF path = DefaultProvider THEN Default[1]
     ELSE IF path = DefaultModel THEN Default[2] ELSE "listed"]

\* What one layer sets, and what another does where it sets nothing.
Override(over, base) ==
  [path \in DOMAIN over \cup DOMAIN base |-> IF path \in DOMAIN over THEN over[path] ELSE base[path]]

\* Mutant: a provider a file names is taken from that file alone.
ReplacesProviders(base, over) ==
  Override(over, [path \in {q \in DOMAIN base :
             Len(q) = 1 \/ \A o \in DOMAIN over : Len(o) = 1 \/ o[2] # q[2]} |-> base[path]])

\* deepMerge, and mergeProviders, which merges provider by provider.
DeepMerge(base, over) == Override(over, base)

MergedWith(base, over) == IF over = None THEN base ELSE DeepMerge(base, over)

\* loadConfig: the project's file counts if ORCANA_ENABLE_PROJECT_CONFIG is 1; the
\* environment, which createRuntime leaves out (applyEnv), is not a layer.
LoadConfig(loadProject) ==
  LET withGlobal == MergedWith(DefaultLayer, layer["global"])
  IN IF loadProject THEN MergedWith(withGlobal, layer["project"]) ELSE withGlobal

ModelsOf(config) == {pair \in Providers \X Models : ModelPath(pair[1], pair[2]) \in DOMAIN config}

\* registerModel, for every model of every provider.
Registered(config) == [m \in Models |-> LastToOffer(ModelsOf(config), m)]

\* readProviderKey.
HasKey(config, p, given, env) ==
  LET label == IF RefPath(p) \in DOMAIN config THEN config[RefPath(p)] ELSE "default"
  IN \/ p \in given
     \/ <<p, label>> \in refs
     \/ EnvKeys \in DOMAIN config /\ p \in env

RegistryInit ==
  /\ layer = [f \in {"global", "project"} |-> <<>>]
  /\ edits = 0 /\ refs = {} /\ runtime = None /\ request = None

\* The user writes one setting, or a slip that leaves the file unreadable. The files
\* are read at the start alone, so what matters is written between two runs.
EditLayer(f) ==
  /\ runtime = None /\ edits < MaxEdits
  /\ \/ \E e \in Edits :
          layer' = [layer EXCEPT ![f] = IF @ = None THEN @ ELSE Override([path \in {e[1]} |-> e[2]], @)]
     \/ layer' = [layer EXCEPT ![f] = None]
  /\ layer' # layer
  /\ edits' = edits + 1
  /\ UNCHANGED <<refs, runtime, request>>

\* setCredential and deleteCredential.
SetCredential(ref) ==
  /\ runtime = None /\ edits < MaxEdits /\ edits' = edits + 1
  /\ refs' = refs \cup {ref} /\ UNCHANGED <<layer, runtime, request>>
DeleteCredential(ref) ==
  /\ runtime = None /\ ref \in refs
  /\ refs' = refs \ {ref} /\ UNCHANGED <<layer, edits, runtime, request>>

\* createRuntime: a provider without a key is registered to say so; the start is
\* refused when the default provider is one (unless the interface can ask for the
\* key), and when nobody offers the default model.
CreateRuntime(loadProject, given, env, allowMissing) ==
  LET config == LoadConfig(loadProject)
      configured == {p \in Providers : HasKey(config, p, given, env)} \cup NoKeyNeeded
      known == Registered(config)
      refused == \/ config[DefaultProvider] \notin configured /\ ~allowMissing
                 \/ known[config[DefaultModel]] = None
  IN /\ runtime = None
     /\ runtime' = IF refused THEN None
                   ELSE [config |-> config, configured |-> configured, known |-> known,
                         session |-> config[DefaultModel]]
     /\ UNCHANGED <<layer, edits, refs, request>>

\* The program ends.
Leave ==
  /\ runtime # None
  /\ runtime' = None /\ request' = None
  /\ UNCHANGED <<layer, edits, refs>>

\* resolve: the model and the provider that has it.
Known(m) == runtime.known[m] # None

\* The registered models tagged "fast".
KnownFast == {i \in DOMAIN CheapFast : Known(CheapFast[i])}

\* streamChat's choice: the model asked for; else, for a call strict mode would
\* rather not make, the cheapest fast one; else the session's.
SelectModel(m, spared) ==
  IF Known(m) THEN m
  ELSE IF spared /\ KnownFast # {} THEN Cheapest(KnownFast) ELSE runtime.session

Smaller(a, b) == IF a <= b THEN a ELSE b

NoThinking == [type |-> "none", budget |-> 0]

\* adaptThinking of the router; errors: three in a row, or five files changed. No
\* model has a budget of its own: registerModel replaces its table entry, which has
\* one, by what the configuration says of it, which has none.
AdaptThinking(m, asked, errors) ==
  IF ~Known(m) \/ Thinks[m] = "no" THEN NoThinking
  ELSE IF Thinks[m] = "adaptive" THEN [type |-> "adaptive", budget |-> 0]
  ELSE [type |-> "enabled",
        budget |-> IF errors THEN ForcedBudget ELSE IF asked = 0 THEN DefaultBudget ELSE asked]

\* thinkingFor: once more for the model that gets the call.
ThinkingFor(m, wanted, maxTokens) ==
  IF wanted.type = "none" \/ Thinks[m] = "no" THEN NoThinking
  ELSE IF Thinks[m] = "adaptive" THEN [type |-> "adaptive", budget |-> 0]
  ELSE IF runtime.known[m] # "anthropic" THEN [wanted EXCEPT !.type = "enabled"]
  ELSE IF maxTokens <= MinTokens THEN NoThinking
  ELSE [type |-> "enabled",
        budget |-> IF wanted.budget = 0 THEN maxTokens - 1
                   ELSE Smaller(wanted.budget, maxTokens - 1)]

\* providerToolAdapter: tools are written for anthropic's protocol.
ToolSchema(p) ==
  IF Protocol[p] \in {"openai", "openai-compatible", "openrouter"} THEN "function" ELSE "input_schema"

\* A round of the agent, or a helper, calls streamChat.
Call(m, asked, errors, maxTokens, spared) ==
  /\ runtime # None /\ request = None
  /\ LET target == SelectModel(m, spared)
         wanted == AdaptThinking(m, asked, errors)
     IN request' = [model |-> target, provider |-> runtime.known[target],
                    limit |-> maxTokens,
                    thinking |-> ThinkingFor(target, wanted, maxTokens),
                    tools |-> ToolSchema(runtime.known[target])]
  /\ UNCHANGED <<layer, edits, refs, runtime>>

\* Its stream ends.
Answered == request # None /\ request' = None /\ UNCHANGED <<layer, edits, refs, runtime>>

RegistryNext ==
  \/ \E f \in DOMAIN layer : EditLayer(f)
  \/ \E p \in Providers, label \in {"default", "team"} :
       SetCredential(<<p, label>>) \/ DeleteCredential(<<p, label>>)
  \/ \E loadProject, allowMissing \in BOOLEAN, given \in SUBSET Given, env \in SUBSET Given :
       CreateRuntime(loadProject, given, env, allowMissing)
  \/ Leave \/ Answered
  \/ \E m \in Models, asked \in Budgets, maxTokens \in TokenLimits, errors, spared \in BOOLEAN :
       Call(m, asked, errors, maxTokens, spared)

-----------------------------------------------------------------------------
\* Whatever layers the configuration has, whatever was asked for and whoever gets it
\* instead: a request goes to a provider that offers its model, and what it carries
\* that provider accepts: no thinking for a model without, no fixed budget for one
\* that thinks adaptively, and under anthropic's protocol less thinking than tokens.
RequestFits == request # None =>
  /\ ModelPath(request.provider, request.model) \in DOMAIN runtime.config
  /\ Thinks[request.model] = "no" => request.thinking.type = "none"
  /\ Thinks[request.model] = "adaptive" => request.thinking.budget = 0
  /\ request.provider = "anthropic" /\ request.thinking.type = "enabled"
       => request.thinking.budget < request.limit

\* No file takes away a model the program knows: what a file names is added to the
\* built-in models or changes them, and only what a file says changes a setting.
NothingListedIsLost == runtime # None =>
  /\ BuiltIn \subseteq ModelsOf(runtime.config)
  /\ \A path \in DOMAIN runtime.config :
       \/ path \in DOMAIN DefaultLayer /\ runtime.config[path] = DefaultLayer[path]
       \/ <<path, runtime.config[path]>> \in Edits

\* A start that was not refused for want of a key has one for the model it talks to.
\* It does not hold: the check asks for a key of defaultProvider, where models.default
\* may name a model of another provider (bootstrap.ts:380), whose stand-in then
\* answers every round with a request for a key.
KeyForSession == runtime # None => runtime.known[runtime.session] \in runtime.configured
=============================================================================
