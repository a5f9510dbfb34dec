------------------------------- MODULE ToolOffer -------------------------------
(***************************************************************************)
(* Which tools a round offers the model: the chain of gates before a request *)
(* (src/src/agent/gates/pre-round.ts), the disclosure by key words             *)
(* (src/src/agent/tool-disclosure.ts), the bypass that keeps the provider's    *)
(* prefix cache warm (cacheStableTools, on unless DEEPSEEK_CACHE_STABLE_TOOLS  *)
(* is 0) and what the tracker of that cache sees                               *)
(* (src/src/provider/cache-tracker.ts).                                        *)
(*                                                                           *)
(* The chain's first gate, the context budget, is BudgetMode of Transcript:    *)
(* where it blocks, no request is made.                                        *)
(***************************************************************************)
EXTENDS Naturals, FiniteSets

CONSTANTS
  ToolKind,     \* ToolKind[t]: [category, readonly], for every registered tool
  Place,        \* Place[t]: position of the tool in the registry
  EnoughTools,  \* fewer than so many disclosed tools are too few (5)
  MaxSchemas    \* schemas a request may carry (128)

OfferTools == DOMAIN ToolKind
Triggers == {"git", "search", "codegraph", "fim"}

ASSUME OfferAssumption ==
  /\ \A t \in OfferTools : ToolKind[t].category \in Triggers \cup {"base"}
  /\ \A t \in OfferTools : ToolKind[t].readonly \in BOOLEAN /\ Place[t] \in Nat
  /\ EnoughTools \in Nat /\ MaxSchemas \in Nat

VARIABLES
  offerRun,    \* what holds for the whole run: stable, readonly, notReady
  offerRound,  \* rounds that asked the provider; from the third on all are alike
  planning,    \* taskPlanning of the last of them
  blockActive, \* rippleBlockActive
  offered,     \* tools of its request
  changed      \* firstChangedSection of its prefix

offerVars == <<offerRun, offerRound, planning, blockActive, offered, changed>>

ReadonlyTools == {t \in OfferTools : ToolKind[t].readonly}

\* What a round hears: is the tracker planning, is a caller owed, what did the last
\* reports decide, which categories does the text trigger.
Rounds == [plans : BOOLEAN, owed : BOOLEAN, reports : SUBSET {"allow", "warn", "block"},
           says : SUBSET Triggers]

\* The list of a request, tools of the set "first" before the others.
Offer(set, first) == [tools |-> set, first |-> first]

\* selectTools.
SelectTools(says, round) ==
  LET hit == {t \in OfferTools : ToolKind[t].category \in says \cup {"base"}}
      all == \/ round = 1 /\ says = {}
             \/ round >= 2 /\ Cardinality(hit) < EnoughTools
  IN IF all THEN Offer(OfferTools, IF round = 1 THEN {} ELSE hit) ELSE Offer(hit, {})

OnlyReadonly(offer) == [offer EXCEPT !.tools = @ \cap ReadonlyTools]

\* What the gates hand on: ctx.tools, and ctx.activeTools, which the request is made of.
Both(offer) == [tools |-> offer, active |-> offer]

\* ToolDisclosureGate and ReadonlyPlanGate.
Disclosed(says, round) == Both(SelectTools(says, round))

PlanFiltered(ctx, plans, round) ==
  LET kept == IF offerRun.readonly \/ plans THEN OnlyReadonly(ctx.tools) ELSE ctx.tools
  IN [tools |-> kept, active |-> IF plans /\ round > 0 THEN Offer({}, {}) ELSE kept]

\* Mutant: the gate filters what it hands on, and forgets what the request is made of.
ReadinessForgetsActive(ctx) ==
  IF offerRun.notReady THEN [ctx EXCEPT !.tools = OnlyReadonly(@)] ELSE ctx

\* ContextReadinessToolFilterGate: it acts in a cache-stable run too.
ReadinessFiltered(ctx) == IF offerRun.notReady THEN Both(OnlyReadonly(ctx.tools)) ELSE ctx

\* strongestRippleDecision is "block": callers that are owed make it a warning, for
\* the tools that write are what they are repaired with.
RippleBlocks(owed, reports) == ~owed /\ "block" \in reports

\* RippleToolFilterGate.
RippleFiltered(ctx, blocks) == IF blocks THEN Both(OnlyReadonly(ctx.tools)) ELSE ctx

\* createPreRoundChain, and the choice of agentLoop. In a cache-stable run only the
\* gate on readiness narrows anything; what the others would refuse, the gates of the
\* tool round refuse when it is called (ToolGate).
ActiveTools(round, hears) ==
  LET everything == Both(Offer(OfferTools, {}))
      planned == PlanFiltered(Disclosed(hears.says, round), hears.plans, round)
      chain == IF offerRun.stable THEN ReadinessFiltered(everything)
               ELSE RippleFiltered(ReadinessFiltered(planned), RippleBlocks(hears.owed, hears.reports))
  IN IF offerRun.stable /\ ~offerRun.notReady THEN Offer(OfferTools, {}) ELSE chain.active

\* buildRoundProviderRequest: the first MaxSchemas of the list.
Sliced(offer) ==
  LET Before(u, t) == \/ u \in offer.first /\ t \notin offer.first
                      \/ (u \in offer.first <=> t \in offer.first) /\ Place[u] < Place[t]
  IN {t \in offer.tools : Cardinality({u \in offer.tools : Before(u, t)}) < MaxSchemas}

\* checkPrefixShape over model, system, tools and messages; the first two stay the
\* same through a run.
ChangedSection(tools, grown) ==
  IF offerRound = 0 THEN "model" ELSE IF tools # offered THEN "tools"
  ELSE IF grown THEN "messages" ELSE "nothing"

OfferInit ==
  /\ offerRun \in [stable : BOOLEAN, readonly : BOOLEAN, notReady : BOOLEAN]
  /\ offerRound = 0 /\ planning = FALSE /\ blockActive = FALSE /\ offered = {}
  /\ changed = "nothing"

\* A round of agentLoop makes its request.
AskRound(hears, grown) ==
  LET tools == Sliced(ActiveTools(offerRound, hears))
  IN /\ planning' = hears.plans
     /\ blockActive' = (~offerRun.stable /\ RippleBlocks(hears.owed, hears.reports))
     /\ offered' = tools
     /\ changed' = ChangedSection(tools, grown)
     /\ offerRound' = IF offerRound < 3 THEN offerRound + 1 ELSE offerRound
     /\ UNCHANGED offerRun

OfferNext == \E hears \in Rounds, grown \in BOOLEAN : AskRound(hears, grown)

-----------------------------------------------------------------------------
\* Whichever gate decides last: a run whose context is not ready is offered no tool
\* that writes; nor, where the offer may vary, is one that only reads, a round that
\* plans or one the ripple engine stopped, and a later round that plans gets no tool
\* at all unless one of the gates after it reopens the reading ones. Where the offer
\* may not vary, the tools never are what spoils the provider's cache.
OfferHolds ==
  /\ offerRun.notReady => offered \subseteq ReadonlyTools
  /\ ~offerRun.stable =>
       /\ offerRun.readonly \/ planning \/ blockActive => offered \subseteq ReadonlyTools
       /\ planning /\ offerRound > 1 /\ ~offerRun.notReady /\ ~blockActive => offered = {}
  /\ offerRun.stable => changed # "tools"
=============================================================================
