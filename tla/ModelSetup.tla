------------------------------ MODULE ModelSetup ------------------------------
(***************************************************************************)
(* Which provider and model a session talks to: createRuntime and            *)
(* configureModel of src/src/runtime/bootstrap.ts with the registry, the     *)
(* router and MultiProvider of src/src/provider/, the configuration file of  *)
(* src/src/config/config-loader.ts and the keys of auth-store.ts.            *)
(*                                                                           *)
(* The registry knows a model by its id alone: of two providers that offer   *)
(* the same id, the one registered last has it.                              *)
(***************************************************************************)
EXTENDS Naturals, Sequences, SequencesExt, FiniteSetsExt

CONSTANTS
  Catalog,       \* the providers, in the order of config.providers
  Models,        \* model ids
  BuiltIn,       \* <<provider, model>> pairs of builtInProviders
  NoKeyNeeded,   \* providers of type ollama or lmstudio
  Relays,        \* providers the dialog takes custom models for: neither deepseek
                 \* nor anthropic, whose protocol no relay speaks
  CheapFast,     \* models of tier "cheap" tagged "fast", as findCheapest sorts them
  Default,       \* <<provider, model>> of defaultConfig
  None           \* no provider, no model

Providers == ToSet(Catalog)

ASSUME SetupAssumption ==
  /\ BuiltIn \subseteq Providers \X Models /\ Default \in BuiltIn
  /\ Catalog \in Seq(Providers) /\ None \notin Providers
  /\ CheapFast \in Seq(Models) /\ NoKeyNeeded \cup Relays \subseteq Providers

VARIABLES
  file,      \* orcana.jsonc: choice, offers (custom models), whether it parses
  keys,      \* providers with a key in auth.json
  offers,    \* config.providers[p].models, as pairs
  usable,    \* providers whose instance is not a MissingAuthProvider
  owner,     \* registry.models: the provider of a model id
  session,   \* sessionModel of the router, modelOverride of MultiProvider
  cheap,     \* _cheapModel of the router
  chosen,     \* the last /models of this session, even one that could not be saved
  picked,    \* the last /models that returned without an error
  spoilt     \* the file has once been unreadable, or a save of it has failed

setupVars == <<file, keys, offers, usable, owner, session, cheap, chosen, picked, spoilt>>

Defaults == [choice |-> Default, offers |-> {}, readable |-> TRUE]

\* loadConfig and readGlobalConfig: what does not parse counts as an empty file.
Loaded == IF file.readable THEN file ELSE Defaults

\* registerModel for every model of every provider, in order: the last one stays.
LastToOffer(pairs, m) ==
  LET offering == {i \in DOMAIN Catalog : <<Catalog[i], m>> \in pairs}
  IN IF offering = {} THEN None ELSE Catalog[Max(offering)]

\* createRuntime, with the saved choice.
Booted(f, storedKeys) ==
  LET pairs == BuiltIn \cup f.offers
  IN /\ offers' = pairs
     /\ owner' = [m \in Models |-> LastToOffer(pairs, m)]
     /\ usable' = storedKeys \cup NoKeyNeeded
     /\ session' = f.choice[2]
     /\ cheap' = None /\ chosen' = None

SetupInit ==
  /\ file = Defaults /\ keys \in {{}, {Default[1]}}
  /\ offers = BuiltIn /\ owner = [m \in Models |-> LastToOffer(BuiltIn, m)]
  /\ usable = keys \cup NoKeyNeeded
  /\ session = Default[2] /\ cheap = None
  /\ chosen = None /\ picked = Default /\ spoilt = FALSE

\* The program ends and starts again. torn: in the middle of writeAll, after
\* which readAll finds no key at all.
Restart(torn) ==
  /\ keys' = IF torn THEN {} ELSE keys
  /\ Booted(Loaded, keys')
  /\ UNCHANGED <<file, picked, spoilt>>

\* Mutant: a model the registry knows already is left as it is.
KeepsOwners(p, pairs) ==
  [m \in Models |-> IF owner[m] = None /\ <<p, m>> \in pairs THEN p ELSE owner[m]]

\* The models of the chosen provider are registered once more.
Reregistered(p, pairs) ==
  [m \in Models |-> IF <<p, m>> \in pairs THEN p ELSE owner[m]]

\* Mutant: the choice is saved without the provider's models.
SavesChoiceOnly(p, m, pairs) ==
  [choice |-> <<p, m>>, offers |-> Loaded.offers, readable |-> TRUE]

\* updateGlobalConfig: the file as it was read, with the choice and its provider.
Saved(p, m, pairs) ==
  [choice |-> <<p, m>>, readable |-> TRUE,
   offers |-> Loaded.offers \cup {pair \in pairs : pair[1] = p}]

\* setSessionModel.
ForgotCheap == None

\* configureModel, as the /models dialog calls it: for a model the registry lists,
\* under the provider it lists it for, or a custom one; with a key or, if the
\* provider has one already, without. The file is written last: when that fails
\* the caller gets an error, and all that came before stays.
ConfigureModel(p, m, withKey, custom, written) ==
  LET pairs == IF custom THEN offers \cup {<<p, m>>} ELSE offers IN
  /\ IF custom THEN p \in Relays ELSE p = owner[m]
  /\ withKey \/ p \in keys \cup NoKeyNeeded
  /\ keys' = IF withKey THEN keys \cup {p} ELSE keys
  /\ usable' = usable \cup {p}
  /\ offers' = pairs
  /\ owner' = Reregistered(p, pairs)
  /\ session' = m
  /\ cheap' = ForgotCheap
  /\ chosen' = <<p, m>>
  /\ IF written
     THEN file' = Saved(p, m, pairs) /\ picked' = <<p, m>> /\ UNCHANGED spoilt
     ELSE spoilt' = TRUE /\ UNCHANGED <<file, picked>>

\* configureThinkingEffort writes the same file.
ConfigureThinkingEffort ==
  /\ file' = Loaded
  /\ UNCHANGED <<keys, offers, usable, owner, session, cheap, chosen, picked, spoilt>>

\* The user edits the file, and it parses or no longer does.
EditFile ==
  /\ file' = [file EXCEPT !.readable = ~@]
  /\ spoilt' = TRUE
  /\ UNCHANGED <<keys, offers, usable, owner, session, cheap, chosen, picked>>

\* findCheapest: the first in the order of the prices.
Cheapest(places) == CheapFast[Min(places)]

\* getCheapModel: one of the session's provider, else any, else the session's.
CheapModel ==
  LET any == {i \in DOMAIN CheapFast : owner[CheapFast[i]] # None}
      own == {i \in any : owner[CheapFast[i]] = owner[session]}
  IN IF own # {} THEN Cheapest(own) ELSE IF any # {} THEN Cheapest(any) ELSE session

\* A judge, a triage or a distillation asks for its model (selectForPurpose).
SelectForPurpose ==
  /\ cheap = None
  /\ cheap' = CheapModel
  /\ UNCHANGED <<file, keys, offers, usable, owner, session, chosen, picked, spoilt>>

SetupNext ==
  \/ \E p \in Providers, m \in Models, withKey, custom, written \in BOOLEAN :
       ConfigureModel(p, m, withKey, custom, written)
  \/ \E torn \in BOOLEAN : Restart(torn)
  \/ ConfigureThinkingEffort \/ EditFile \/ SelectForPurpose

-----------------------------------------------------------------------------
\* After /models the session talks to the provider that was chosen, with a key, even
\* where another provider offers a model of the same id; and the helpers use a cheap
\* model of that provider wherever it has one, also after a change of provider.
ChoiceIsUsed ==
  /\ chosen # None =>
       session = chosen[2] /\ owner[session] = chosen[1] /\ chosen[1] \in usable
  /\ cheap # None /\ (\E i \in DOMAIN CheapFast : owner[CheapFast[i]] = owner[session])
       => owner[cheap] = owner[session]

\* What /models reported as done is what the next start uses, custom models
\* included, unless the file was spoilt or a later provider offers the same id.
ChoiceSurvives ==
  LET pairs == BuiltIn \cup Loaded.offers
      others == {p \in Providers : <<p, picked[2]>> \in pairs} \ {picked[1]}
  IN ~spoilt /\ others = {} =>
       Loaded.choice = picked /\ LastToOffer(pairs, picked[2]) = picked[1]

\* What the user chose is used from then on and after the next start.
ChoiceHolds == ChoiceIsUsed /\ ChoiceSurvives
=============================================================================
