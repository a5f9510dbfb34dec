-------------------------------- MODULE Screen --------------------------------
(***************************************************************************)
(* What the keys and the wheel do outside the input line (ChatApp of       *)
(* tui/main.tsx, input/keymap.ts): the list of messages is scrolled while  *)
(* the agent adds rows to it (components/Scrollback.tsx), and the dialogs  *)
(* of /models and /effort ask for a provider, a model, its address and a   *)
(* key.                                                                    *)
(*                                                                         *)
(* Rows are numbered from the first there is.  Rows that come or go are    *)
(* drawn, then the list reports its new height and the offset follows, all *)
(* before the next key.                                                    *)
(***************************************************************************)
EXTENDS Integers, FiniteSets

CONSTANTS
  Sellers,    \* providers of the catalogue of models
  Custom,     \* "custom": the provider for relays
  Native,     \* those whose own protocol no relay speaks: deepseek, anthropic
  Addressed,  \* providers with a base URL in the configuration
  Heights,    \* heights the list can have: a panel takes rows from it
  Amounts,    \* rows a key or a step of the wheel scrolls by, and that come or go at once
  MaxRows,    \* bound on the rows
  MaxSaves    \* bound on the requests of the dialog

ASSUME ScreenAssumption ==
  /\ Custom \notin Sellers /\ Heights \subseteq Nat \ {0} /\ Heights # {}
  /\ Amounts \subseteq Nat \ {0} /\ MaxRows \in Nat /\ MaxSaves \in Nat

VARIABLES
  rows,              \* how many there are
  bodyHeight,
  scrollOffset, autoFollow,
  maxOffset,         \* scrollState.maxOffset and previousMaxOffsetRef
  anchor,            \* the row the reader last scrolled to the top
  shaken,            \* since then it went, rows came above it or went below it, or the
                     \* height changed
  phase, filter, listed, chosen, query, field, form, failed, \* the dialog
  providers,         \* those isProviderConfigured
  requests           \* what configureModel was called with

scrollVars == <<rows, bodyHeight, scrollOffset, autoFollow, maxOffset, anchor, shaken>>
dialogVars == <<phase, filter, listed, chosen, query, field, form, failed, providers, requests>>
screenVars == <<scrollVars, dialogVars>>

Larger(a, b) == IF a > b THEN a ELSE b
Smaller(a, b) == IF a < b THEN a ELSE b
Less(a, b) == IF a > b THEN a - b ELSE 0

-----------------------------------------------------------------------------
(* Scrolling *)

\* prepareScrollbackViewport
HighestOffset(n, height) == Less(n, height)
TopRow(n, height, offset) == 1 + Less(n, height + Smaller(offset, HighestOffset(n, height)))

\* Mutant: the offset stays as it is.
OffsetStays(offset, before, after) == offset
\* adjustScrollOffsetForGrowth, for a reader who does not follow.
FollowsGrowth(offset, before, after) == Smaller(after, offset + Less(after, before))

\* The effects on autoFollow, on the offset and on the height the list reports: the reader
\* who follows, or has come down to the last row, stays there.
Settle(offset, follow) ==
  LET after == HighestOffset(rows', bodyHeight')
      adjusted == IF after = maxOffset /\ follow = autoFollow THEN offset
                  ELSE FollowsGrowth(offset, maxOffset, after)
  IN /\ maxOffset' = after
     /\ autoFollow' = (follow \/ adjusted = 0)
     /\ scrollOffset' = IF follow THEN 0 ELSE adjusted

ScrollUp(amount) ==
  /\ scrollOffset < MaxRows
  /\ UNCHANGED <<rows, bodyHeight>>
  /\ Settle(scrollOffset + amount, FALSE)
  /\ anchor' = TopRow(rows, bodyHeight, scrollOffset') /\ shaken' = FALSE
  /\ UNCHANGED dialogVars

ScrollDown(amount) ==
  /\ ~autoFollow
  /\ UNCHANGED <<rows, bodyHeight>>
  /\ Settle(Less(scrollOffset, amount), FALSE)
  /\ anchor' = TopRow(rows, bodyHeight, scrollOffset') /\ shaken' = FALSE
  /\ UNCHANGED dialogVars

\* submitFromInput
BackToEnd ==
  /\ ~autoFollow
  /\ UNCHANGED <<rows, bodyHeight, anchor, shaken>>
  /\ Settle(0, TRUE)
  /\ UNCHANGED dialogVars

\* The messages change: some rows come or go above the row at the top of the view, some from
\* it on, and the row itself is kept or not.  The text of a turn grows and is trimmed above
\* the messages on its tools, its last form replaces it, a message may be shown in another
\* way, and beyond 500 the oldest go.
RowsChange(above, below, kept) ==
  LET top == TopRow(rows, bodyHeight, scrollOffset) IN
  /\ rows' = rows + above + below /\ rows' \in 0..MaxRows
  /\ top + above \in 1..(rows' + 1)
  /\ kept => top + above <= rows'
  /\ shaken' = (shaken \/ ~kept \/ above > 0 \/ below < 0 \/ (above < 0 /\ below > 0))
  /\ anchor' = IF autoFollow \/ shaken' THEN anchor ELSE anchor + above
  /\ UNCHANGED bodyHeight
  /\ Settle(scrollOffset, autoFollow)
  /\ UNCHANGED dialogVars

\* A panel, the menu of the commands or a longer draft opens or closes.
PanelChanges(height) ==
  /\ height # bodyHeight /\ bodyHeight' = height
  /\ UNCHANGED <<rows, anchor>>
  /\ Settle(scrollOffset, autoFollow)
  /\ shaken' = TRUE
  /\ UNCHANGED dialogVars

-----------------------------------------------------------------------------
(* The dialogs.  A field is empty, or holds something, which as an address may be bad. *)

Offer(provider, custom) ==
  [provider |-> provider, custom |-> custom, configured |-> provider \in providers]

NoForm == [provider |-> Custom, custom |-> FALSE, address |-> "empty"]

\* buildModelOptions: those of the catalogue that match, and the entry for a custom model,
\* which is for the provider asked for if that can speak to a relay.
BuildModelOptions(matching, only) ==
  {Offer(s, FALSE) : s \in IF only = Custom THEN matching ELSE matching \cap {only}}
    \cup {Offer(IF only \in Native THEN Custom ELSE only, TRUE)}

Close == phase' = "closed" /\ form' = NoForm /\ field' = "empty" /\ failed' = FALSE

OpenModels ==
  /\ phase = "closed" /\ phase' = "list"
  /\ filter' \in Sellers \cup {Custom}
  /\ listed' = BuildModelOptions(Sellers, filter')
  /\ chosen' \in listed'
  /\ query' = FALSE /\ field' = "empty" /\ failed' = FALSE
  /\ UNCHANGED <<form, providers, requests, scrollVars>>

OpenEffortDialog ==
  /\ phase = "closed" /\ phase' = "effort"
  /\ UNCHANGED <<filter, listed, chosen, query, field, form, failed, providers, requests, scrollVars>>

\* Enter in /effort closes it with the choice, Escape closes every dialog.
Dismiss ==
  /\ phase # "closed" /\ Close
  /\ UNCHANGED <<filter, listed, chosen, query, providers, requests, scrollVars>>

MoveSelection ==
  /\ phase = "list" /\ chosen' \in listed \ {chosen}
  /\ UNCHANGED <<phase, filter, listed, query, field, form, failed, providers, requests, scrollVars>>

\* Every character builds the list anew and selects its first entry.
TypeQuery ==
  /\ phase = "list" /\ \E matching \in SUBSET Sellers : listed' = BuildModelOptions(matching, filter)
  /\ chosen' \in listed' /\ query' \in BOOLEAN /\ failed' = FALSE
  /\ UNCHANGED <<phase, filter, field, form, providers, requests, scrollVars>>

TypeField ==
  /\ phase \in {"custom", "url", "key"}
  /\ field' \in IF phase = "url" THEN {"bad", "good"} ELSE {"good"}
  /\ failed' = FALSE
  /\ UNCHANGED <<phase, filter, listed, chosen, query, form, providers, requests, scrollVars>>

EraseField ==
  /\ phase \in {"custom", "url", "key"} /\ field # "empty"
  /\ field' \in IF phase = "url" THEN {"bad", "empty"} ELSE {field, "empty"}
  /\ failed' = FALSE
  /\ UNCHANGED <<phase, filter, listed, chosen, query, form, providers, requests, scrollVars>>

\* configureModel: done, and the dialog closes; or refused, and it says why.
Configure(withKey, filled) ==
  /\ Cardinality(requests) < MaxSaves
  /\ requests' = requests \cup {[provider |-> filled.provider, custom |-> filled.custom,
                                 address |-> filled.address, key |-> withKey,
                                 had |-> filled.provider \in providers]}
  /\ \/ /\ Close /\ providers' = providers \cup {filled.provider}
     \/ /\ failed' = TRUE
        /\ providers' = IF withKey THEN providers \cup {filled.provider} ELSE providers
        /\ UNCHANGED <<phase, form, field>>
  /\ UNCHANGED <<filter, listed, chosen, query, scrollVars>>

Ask(next, filled, seed) ==
  /\ phase' = next /\ form' = filled /\ field' = seed /\ failed' = FALSE
  /\ UNCHANGED <<filter, listed, chosen, query, providers, requests, scrollVars>>

Refuse ==
  /\ failed' = TRUE
  /\ UNCHANGED <<phase, filter, listed, chosen, query, field, form, providers, requests, scrollVars>>

ChooseListed ==
  /\ phase = "list"
  /\ LET filled == [provider |-> chosen.provider, custom |-> chosen.custom, address |-> "empty"]
     IN \/ chosen.custom /\ Ask("custom", filled, IF query THEN "good" ELSE "empty")
        \/ ~chosen.custom /\ ~chosen.configured /\ Ask("key", filled, "empty")
        \/ ~chosen.custom /\ chosen.configured /\ Configure(FALSE, filled)

EnterModel ==
  /\ phase = "custom"
  /\ IF field = "empty" THEN Refuse ELSE Ask("url", form, "empty")

\* normalizeBaseUrl, isValidBaseUrl
Address == IF field = "empty" /\ form.provider \in Addressed THEN "good" ELSE field

\* Mutant: the key of a relay is not asked for.
OnlyCatalogued(provider) == provider \in Sellers \ providers
AsksForKey(provider) == provider = Custom \/ provider \notin providers

EnterUrl ==
  /\ phase = "url"
  /\ LET filled == [form EXCEPT !.address = Address] IN
     IF Address # "good" THEN Refuse
     ELSE IF AsksForKey(form.provider) THEN Ask("key", filled, "empty")
     ELSE Configure(FALSE, filled)

EnterKey ==
  /\ phase = "key"
  /\ IF field = "empty" THEN Refuse ELSE Configure(TRUE, form)

-----------------------------------------------------------------------------
ScreenInit ==
  /\ rows = 0 /\ bodyHeight \in Heights /\ scrollOffset = 0
  /\ autoFollow = TRUE /\ maxOffset = 0 /\ anchor = 1 /\ shaken = FALSE
  /\ providers \in SUBSET Sellers /\ requests = {}
  /\ phase = "closed" /\ filter = Custom /\ listed = {} /\ chosen = Offer(Custom, TRUE)
  /\ query = FALSE /\ field = "empty" /\ form = NoForm /\ failed = FALSE

Changes == Amounts \cup {0} \cup {-amount : amount \in Amounts}

ScrollNext ==
  \/ \E amount \in Amounts : ScrollUp(amount) \/ ScrollDown(amount)
  \/ \E above, below \in Changes, kept \in BOOLEAN : RowsChange(above, below, kept)
  \/ \E height \in Heights : PanelChanges(height)
  \/ BackToEnd

DialogNext ==
  \/ OpenModels \/ OpenEffortDialog \/ Dismiss \/ MoveSelection \/ TypeQuery \/ TypeField
  \/ EraseField \/ ChooseListed \/ EnterModel \/ EnterUrl \/ EnterKey

-----------------------------------------------------------------------------
\* "Preserve the reader's absolute viewport while new live rows arrive": the row the reader
\* scrolled to the top stays there while rows come below it, and also when rows go above it.
\* It does not when rows come above it or go below it, or with another height.
ViewStands ==
  ~autoFollow /\ ~shaken => TopRow(rows, bodyHeight, scrollOffset) = anchor

\* The same for a panel that opens and closes again: it does not hold.  An opening panel
\* keeps the first row of the list and a closing one the last, so each pair moves the reader
\* up by the height of the panel.
ViewSurvivesPanels ==
  ~autoFollow => TopRow(rows, bodyHeight, scrollOffset) >= anchor

\* Whatever way leads to it, a request of the dialog is one the runtime can serve: with a key
\* unless the provider has one, and with an address if the model is a custom one.
RequestsComplete ==
  \A r \in requests : (r.key \/ r.had) /\ (r.custom => r.address = "good")
=============================================================================
