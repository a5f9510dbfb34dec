--------------------------- MODULE WorkbenchProofs ---------------------------
(***************************************************************************)
(* Proofs about the terminal interface: the prompts behind a run, the      *)
(* results of tool calls, the list of messages that is scrolled, the       *)
(* dialogs, the draft that is written and the filter its keys go through,  *)
(* for any number of prompts, runs, tools, calls, rows, keys and reads.    *)
(***************************************************************************)
EXTENDS MCWorkbench, SequenceTheorems, FiniteSetTheorems, WellFoundedInduction, TLAPS

----------------------------------------------------------------------------
(* The prompts.  Every prompt that was submitted is queued, waits for its   *)
(* timer or was started once; every other is nowhere.  What a step does to *)
(* a prompt is a lemma on the places: the queue q, the timers w, how often *)
(* it was started s, and the prompts k that were submitted.                *)

Somewhere == Prompts \cup Answers

PlaceTypes(q, w, s, k) ==
  /\ q \in Seq(Prompts) /\ w \subseteq Somewhere /\ k \subseteq Somewhere
  /\ s \in [Asked -> Nat]

InQueue(q, p) == \E i \in DOMAIN q : q[i] = p

InOnePlace(q, w, s, k) ==
  /\ \A i, j \in DOMAIN q : q[i] = q[j] => i = j
  /\ \A p \in Somewhere :
       /\ s[p] \in {0, 1}
       /\ InQueue(q, p) => p \notin w /\ s[p] = 0
       /\ p \in w => s[p] = 0
       /\ p \in k <=> (InQueue(q, p) \/ p \in w \/ s[p] = 1)

Placed(q, w, s, k) == PlaceTypes(q, w, s, k) /\ InOnePlace(q, w, s, k)

(* finishRun: the first of the queue gets a timer.                         *)
LEMMA FirstGetsATimer ==
  ASSUME NEW q, NEW w, NEW s, NEW k, Placed(q, w, s, k), q # <<>>
  PROVE  Placed(Tail(q), w \cup {Head(q)}, s, k)
<1> DEFINE t == Tail(q)
<1>1. /\ q \in Seq(Prompts) /\ Len(q) \in Nat \ {0} /\ DOMAIN q = 1..Len(q)
      /\ Head(q) = q[1] /\ 1 \in DOMAIN q /\ Head(q) \in Prompts
  BY DEF Placed, PlaceTypes
<1>2. /\ t \in Seq(Prompts) /\ DOMAIN t = 1..(Len(q) - 1)
      /\ \A i \in DOMAIN t : t[i] = q[i + 1] /\ i + 1 \in DOMAIN q
  BY <1>1
<1> HIDE DEF t
<1>3. \A p \in Somewhere : InQueue(q, p) <=> (InQueue(t, p) \/ p = Head(q))
  <2> SUFFICES ASSUME NEW p \in Somewhere
               PROVE  InQueue(q, p) <=> (InQueue(t, p) \/ p = Head(q))
    OBVIOUS
  <2>1. ASSUME NEW i \in DOMAIN q, q[i] = p, i # 1
        PROVE  InQueue(t, p)
    <3>1. i - 1 \in DOMAIN t /\ (i - 1) + 1 = i
      BY <2>1, <1>1, <1>2
    <3> QED
      BY <3>1, <1>2, <2>1 DEF InQueue
  <2> QED
    BY <2>1, <1>1, <1>2 DEF InQueue
<1>4. ~InQueue(t, Head(q))
  BY <1>1, <1>2 DEF InQueue, Placed, InOnePlace
<1>5. \A i, j \in DOMAIN t : t[i] = t[j] => i = j
  BY <1>1, <1>2 DEF Placed, InOnePlace
<1>6. PlaceTypes(t, w \cup {Head(q)}, s, k)
  BY <1>1, <1>2 DEF Placed, PlaceTypes, Somewhere
<1>7. InQueue(q, Head(q)) /\ Head(q) \in Somewhere
  BY <1>1 DEF InQueue, Somewhere
<1> QED
  BY <1>3, <1>4, <1>5, <1>6, <1>7 DEF Placed, InOnePlace, t

(* runAgent of a prompt whose timer fired.                                 *)
LEMMA TimerStarts ==
  ASSUME NEW q, NEW w, NEW s, NEW k, Placed(q, w, s, k), NEW p \in w
  PROVE  Placed(q, w \ {p}, [s EXCEPT ![p] = @ + 1], k)
<1>1. p \in Somewhere /\ p \in Asked /\ s \in [Asked -> Nat] /\ Somewhere \subseteq Asked
  BY DEF Placed, PlaceTypes, Somewhere, Asked
<1>2. /\ [s EXCEPT ![p] = @ + 1] \in [Asked -> Nat]
      /\ \A o \in Somewhere : [s EXCEPT ![p] = @ + 1][o] = IF o = p THEN s[p] + 1 ELSE s[o]
  BY <1>1
<1>3. s[p] = 0 /\ p \in k /\ ~InQueue(q, p)
  BY <1>1 DEF Placed, InOnePlace
<1> QED
  BY <1>1, <1>2, <1>3 DEF Placed, PlaceTypes, InOnePlace

(* The prompt of the command line is in none of the places.                *)
LEMMA InitialStarts ==
  ASSUME NEW q, NEW w, NEW s, NEW k, Placed(q, w, s, k)
  PROVE  Placed(q, w, [s EXCEPT ![Initial] = @ + 1], k)
<1>1. /\ Initial \in Asked /\ s \in [Asked -> Nat] /\ Somewhere \subseteq Asked
      /\ Initial \notin Somewhere
  BY WorkbenchAssumption DEF Placed, PlaceTypes, Somewhere, Asked
<1>2. /\ [s EXCEPT ![Initial] = @ + 1] \in [Asked -> Nat]
      /\ \A o \in Somewhere : [s EXCEPT ![Initial] = @ + 1][o] = s[o]
  BY <1>1
<1> QED
  BY <1>1, <1>2 DEF Placed, PlaceTypes, InOnePlace

(* A new prompt is started, is queued or gets a timer.                     *)
LEMMA NewStarts ==
  ASSUME NEW q, NEW w, NEW s, NEW k, Placed(q, w, s, k), NEW p \in Somewhere \ k
  PROVE  Placed(q, w, [s EXCEPT ![p] = @ + 1], k \cup {p})
<1>1. p \in Asked /\ s \in [Asked -> Nat] /\ Somewhere \subseteq Asked
  BY DEF Placed, PlaceTypes, Somewhere, Asked
<1>2. /\ [s EXCEPT ![p] = @ + 1] \in [Asked -> Nat]
      /\ \A o \in Somewhere : [s EXCEPT ![p] = @ + 1][o] = IF o = p THEN s[p] + 1 ELSE s[o]
  BY <1>1
<1>3. s[p] = 0 /\ p \notin w /\ ~InQueue(q, p)
  BY DEF Placed, InOnePlace
<1> QED
  BY <1>1, <1>2, <1>3 DEF Placed, PlaceTypes, InOnePlace

LEMMA NewIsQueued ==
  ASSUME NEW q, NEW w, NEW s, NEW k, Placed(q, w, s, k), NEW p \in Prompts \ k
  PROVE  Placed(Append(q, p), w, s, k \cup {p})
<1> DEFINE t == Append(q, p)
<1>1. /\ q \in Seq(Prompts) /\ p \in Somewhere /\ Len(q) \in Nat /\ DOMAIN q = 1..Len(q)
  BY DEF Placed, PlaceTypes, Somewhere
<1>2. /\ t \in Seq(Prompts) /\ DOMAIN t = 1..(Len(q) + 1) /\ t[Len(q) + 1] = p
      /\ \A i \in DOMAIN q : t[i] = q[i] /\ i \in DOMAIN t
  BY <1>1
<1> HIDE DEF t
<1>3. s[p] \in {0, 1} /\ s[p] = 0 /\ p \notin w /\ ~InQueue(q, p)
  BY <1>1 DEF Placed, InOnePlace
<1>4. \A i \in DOMAIN t : i = Len(q) + 1 \/ i \in DOMAIN q
  BY <1>1, <1>2
<1>5. \A o \in Somewhere : InQueue(t, o) <=> (InQueue(q, o) \/ o = p)
  <2>1. Len(q) + 1 \in DOMAIN t
    BY <1>1, <1>2
  <2> QED
    BY <2>1, <1>2, <1>4 DEF InQueue
<1>6. \A i, j \in DOMAIN t : t[i] = t[j] => i = j
  BY <1>2, <1>3, <1>4 DEF InQueue, Placed, InOnePlace
<1>7. PlaceTypes(t, w, s, k \cup {p})
  BY <1>1, <1>2 DEF Placed, PlaceTypes
<1> QED
  BY <1>1, <1>3, <1>5, <1>6, <1>7 DEF Placed, InOnePlace, t

LEMMA NewGetsATimer ==
  ASSUME NEW q, NEW w, NEW s, NEW k, Placed(q, w, s, k), NEW p \in Somewhere \ k
  PROVE  Placed(q, w \cup {p}, s, k \cup {p})
BY DEF Placed, PlaceTypes, InOnePlace

WorkbenchInv ==
  /\ typed \subseteq Prompts /\ used \subseteq Answers
  /\ Placed(queue, scheduled, started, typed \cup used)

LEMMA WorkbenchInvInit == WorkbenchInit => WorkbenchInv
BY DEF WorkbenchInit, WorkbenchInv, Placed, PlaceTypes, InOnePlace, InQueue, Somewhere, Asked

(* runAgent, whether the options can be built or not: s is what was started *)
(* with the prompt p, w are the timers that still run.                     *)
LEMMA RunPlaces ==
  ASSUME NEW p, NEW w, NEW k, NEW shown, Run(p, w, shown),
         Placed(queue, w, [started EXCEPT ![p] = @ + 1], k)
  PROVE  Placed(queue', scheduled', started', k)
<1>1. started' = [started EXCEPT ![p] = @ + 1]
  BY DEF Run, RunAgent, RunFails
<1>2. CASE scheduled' = w /\ queue' = queue
  BY <1>1, <1>2
<1>3. CASE queue # <<>> /\ queue' = Tail(queue) /\ scheduled' = w \cup {Head(queue)}
  BY <1>1, <1>3, FirstGetsATimer
<1> QED
  BY <1>2, <1>3 DEF Run, RunAgent, RunFails, NotStarted, Behind

LEMMA WorkbenchInvNext ==
  ASSUME WorkbenchInv, [WorkbenchNext]_workbenchVars
  PROVE  WorkbenchInv'
<1> USE DEF WorkbenchInv
<1>1. CASE UNCHANGED <<queue, scheduled, started, typed, used>>
  BY <1>1
<1>2. ASSUME NEW shown, Run(Initial, scheduled, shown), Mount \/ SwitchEffort
      PROVE  WorkbenchInv'
  <2>1. Run(Initial, scheduled, shown) /\ UNCHANGED <<typed, used>>
    BY <1>2 DEF Mount, SwitchEffort
  <2> QED
    BY <2>1, InitialStarts, RunPlaces
<1>3. ASSUME NEW p \in Somewhere, TimerFires(p)
      PROVE  WorkbenchInv'
  <2>1. p \in scheduled /\ Run(p, scheduled \ {p}, messages) /\ UNCHANGED <<typed, used>>
    BY <1>3 DEF TimerFires
  <2> QED
    BY <2>1, TimerStarts, RunPlaces
<1>4. ASSUME NEW r \in Runs, AgentEnds(r)
      PROVE  WorkbenchInv'
  <2>1. UNCHANGED <<started, typed, used>>
    BY <1>4 DEF AgentEnds
  <2>2. CASE queue # <<>> /\ queue' = Tail(queue) /\ scheduled' = scheduled \cup {Head(queue)}
    BY <2>1, <2>2, FirstGetsATimer
  <2> QED
    BY <2>1, <2>2, <1>4, <1>1 DEF AgentEnds, FinishRun, Behind
<1>5. ASSUME NEW p \in Prompts, Submit(p)
      PROVE  WorkbenchInv'
  <2>1. /\ p \in Prompts \ (typed \cup used) /\ p \in Somewhere
        /\ typed' = typed \cup {p} /\ used' = used
    BY <1>5, WorkbenchAssumption DEF Submit, Somewhere
  <2>2. typed' \cup used' = (typed \cup used) \cup {p} /\ typed' \subseteq Prompts
    BY <2>1
  <2>3. CASE Run(p, scheduled, messages)
    <3>1. Placed(queue, scheduled, [started EXCEPT ![p] = @ + 1], (typed \cup used) \cup {p})
      BY <2>1, NewStarts
    <3> QED
      BY <3>1, <2>1, <2>2, <2>3, RunPlaces
  <2>4. CASE queue' = Append(queue, p) /\ UNCHANGED <<scheduled, started>>
    <3>1. Placed(Append(queue, p), scheduled, started, (typed \cup used) \cup {p})
      BY <2>1, NewIsQueued
    <3> QED
      BY <3>1, <2>1, <2>2, <2>4
  <2> QED
    BY <2>3, <2>4, <1>5 DEF Submit
<1>6. ASSUME NEW a \in Answers, AnswerClarification(a)
      PROVE  WorkbenchInv'
  <2>1. /\ a \in Somewhere \ (typed \cup used) /\ typed' = typed /\ used' = used \cup {a}
        /\ scheduled' = scheduled \cup {a} /\ UNCHANGED <<queue, started>>
    BY <1>6, WorkbenchAssumption DEF AnswerClarification, Somewhere
  <2>2. typed' \cup used' = (typed \cup used) \cup {a} /\ used' \subseteq Answers
    BY <2>1
  <2>3. Placed(queue, scheduled \cup {a}, started, (typed \cup used) \cup {a})
    BY <2>1, NewGetsATimer
  <2> QED
    BY <2>1, <2>2, <2>3
<1>7. CASE Command \/ Clear \/ CancelClarification \/ OpenEffort \/ DismissEffort
  BY <1>7, <1>1 DEF Command, Clear, CancelClarification, OpenEffort, DismissEffort
<1>8. CASE SwitchEffort
  BY <1>8, <1>1, <1>2 DEF SwitchEffort
<1>10. CASE Mount
  BY <1>10, <1>2 DEF Mount
<1>9. ASSUME NEW r \in Runs, AgentText(r) \/ AgentEvent(r) \/ AgentClarifies(r) \/ AgentReturns(r)
      PROVE  WorkbenchInv'
  BY <1>9, <1>1 DEF AgentText, AgentEvent, AgentClarifies, AgentReturns
<1> QED
  BY <1>1, <1>2, <1>3, <1>4, <1>5, <1>6, <1>7, <1>8, <1>9, <1>10
     DEF WorkbenchNext, workbenchVars, Somewhere

LEMMA WorkbenchInvKeeps == WorkbenchInv => PromptsKept
<1> SUFFICES ASSUME WorkbenchInv, NEW p \in typed \cup used
             PROVE  started[p] + (IF p \in scheduled THEN 1 ELSE 0)
                      + Cardinality({i \in DOMAIN queue : queue[i] = p}) = 1
  BY DEF PromptsKept
<1> DEFINE waits == {i \in DOMAIN queue : queue[i] = p}
<1>1. p \in Somewhere
  BY DEF WorkbenchInv, Somewhere
<1>2. CASE InQueue(queue, p)
  <2>1. PICK i \in DOMAIN queue : queue[i] = p
    BY <1>2 DEF InQueue
  <2>2. waits = {i}
    BY <2>1 DEF WorkbenchInv, Placed, InOnePlace
  <2>3. Cardinality(waits) = 1
    BY <2>2, FS_Singleton
  <2> QED
    BY <2>3, <1>1, <1>2 DEF WorkbenchInv, Placed, InOnePlace
<1>3. CASE ~InQueue(queue, p)
  <2>1. waits = {}
    BY <1>3 DEF InQueue
  <2>2. Cardinality(waits) = 0
    BY <2>1, FS_EmptySet
  <2> QED
    BY <2>2, <1>1, <1>3 DEF WorkbenchInv, Placed, InOnePlace
<1> QED
  BY <1>2, <1>3

(* Whatever runs fail, end, are cancelled or ask for a clarification, a     *)
(* prompt that was submitted is neither lost nor started twice.            *)
THEOREM PromptsAreKept == Spec => []PromptsKept
<1>1. Init => WorkbenchInv
  BY WorkbenchInvInit DEF Init
<1>2. WorkbenchInv /\ [Next]_terminal => WorkbenchInv'
  <2>1. [Next]_terminal => [WorkbenchNext]_workbenchVars
    BY DEF Next, terminal, PromptStep, FeedStep, DraftStep, MouseStep, ScreenStep
  <2> QED
    BY <2>1, WorkbenchInvNext
<1> QED
  BY <1>1, <1>2, WorkbenchInvKeeps, PTL DEF Spec

----------------------------------------------------------------------------
(* The dialogs.  An entry of the list that says its provider is configured *)
(* says so for good, because providers are only added; and the key is      *)
(* asked for after the address.                                            *)

Provider == Sellers \cup {Custom}
OfferType == [provider : Provider, custom : BOOLEAN, configured : BOOLEAN]
FormType == [provider : Provider, custom : BOOLEAN, address : {"empty", "bad", "good"}]

DialogInv ==
  /\ field \in {"empty", "bad", "good"} /\ form \in FormType /\ filter \in Provider
  /\ chosen \in OfferType /\ listed \subseteq OfferType
  /\ phase = "list" =>
       /\ chosen \in listed
       /\ \A o \in listed : o.configured => o.provider \in providers
  /\ phase = "key" /\ form.custom => form.address = "good"
  /\ RequestsComplete

LEMMA DialogInvInit == ScreenInit => DialogInv
<1> SUFFICES ASSUME ScreenInit PROVE DialogInv
  OBVIOUS
<1>1. form \in FormType /\ chosen \in OfferType
  BY DEF ScreenInit, NoForm, Offer, FormType, OfferType, Provider
<1> QED
  BY <1>1 DEF ScreenInit, DialogInv, Provider, RequestsComplete

(* buildModelOptions says the truth about the providers.                   *)
LEMMA OptionsAreTrue ==
  ASSUME NEW matching \in SUBSET Sellers, NEW only \in Provider
  PROVE  /\ BuildModelOptions(matching, only) \subseteq OfferType
         /\ \A o \in BuildModelOptions(matching, only) : o.configured => o.provider \in providers
<1>1. ASSUME NEW p \in Provider, NEW custom \in BOOLEAN
      PROVE  /\ Offer(p, custom) \in OfferType
             /\ Offer(p, custom).configured => Offer(p, custom).provider \in providers
  <2> DEFINE known == p \in providers
  <2>1. known \in BOOLEAN
    OBVIOUS
  <2>2. Offer(p, custom) = [provider |-> p, custom |-> custom, configured |-> known]
    BY DEF Offer
  <2>3. known => p \in providers
    OBVIOUS
  <2> HIDE DEF known
  <2> QED
    BY <2>1, <2>2, <2>3 DEF OfferType
<1>2. ASSUME NEW o \in BuildModelOptions(matching, only)
      PROVE  \E p \in Provider, custom \in BOOLEAN : o = Offer(p, custom)
  <2>1. CASE o = Offer(IF only \in Native THEN Custom ELSE only, TRUE)
    BY <2>1 DEF Provider
  <2>2. CASE \E s \in Sellers : o = Offer(s, FALSE)
    BY <2>2 DEF Provider
  <2> QED
    BY <2>1, <2>2, <1>2 DEF BuildModelOptions
<1> QED
  BY <1>1, <1>2

LEMMA ConfigureKeeps ==
  ASSUME DialogInv, NEW withKey \in BOOLEAN, NEW filled \in FormType,
         Configure(withKey, filled),
         withKey \/ filled.provider \in providers, filled.custom => filled.address = "good"
  PROVE  DialogInv'
<1>1. RequestsComplete'
  <2> DEFINE new == [provider |-> filled.provider, custom |-> filled.custom,
                     address |-> filled.address, key |-> withKey,
                     had |-> filled.provider \in providers]
  <2>1. requests' = requests \cup {new}
    BY DEF Configure
  <2>2. (new.key \/ new.had) /\ (new.custom => new.address = "good")
    OBVIOUS
  <2>3. \A r \in requests : (r.key \/ r.had) /\ (r.custom => r.address = "good")
    BY DEF DialogInv, RequestsComplete
  <2> HIDE DEF new
  <2> QED
    BY <2>1, <2>2, <2>3 DEF RequestsComplete
<1>2. providers \subseteq providers' /\ UNCHANGED <<filter, listed, chosen>>
  BY DEF Configure
<1>3. CASE Close
  <2>1. form' \in FormType
    BY <1>3 DEF Close, NoForm, FormType, Provider
  <2> QED
    BY <1>1, <1>2, <1>3, <2>1 DEF Close, DialogInv
<1>4. CASE UNCHANGED <<phase, form, field>>
  BY <1>1, <1>2, <1>4 DEF DialogInv
<1> QED
  BY <1>3, <1>4 DEF Configure

LEMMA DialogInvNext ==
  ASSUME DialogInv, [ScrollNext \/ DialogNext]_screenVars
  PROVE  DialogInv'
<1>1. CASE UNCHANGED dialogVars
  BY <1>1 DEF dialogVars, DialogInv, RequestsComplete
<1>2. CASE ScrollNext
  BY <1>2, <1>1 DEF ScrollNext, ScrollUp, ScrollDown, RowsChange, PanelChanges, BackToEnd
<1>3. CASE OpenModels
  <2>1. /\ filter' \in Provider /\ listed' = BuildModelOptions(Sellers, filter')
        /\ chosen' \in listed' /\ phase' = "list" /\ field' = "empty"
        /\ UNCHANGED <<form, providers, requests>>
    BY <1>3 DEF OpenModels, Provider
  <2>2. /\ listed' \subseteq OfferType
        /\ \A o \in listed' : o.configured => o.provider \in providers
    BY <2>1, OptionsAreTrue
  <2> QED
    BY <2>1, <2>2 DEF DialogInv, RequestsComplete
<1>4. CASE TypeQuery
  <2>1. /\ \E matching \in SUBSET Sellers : listed' = BuildModelOptions(matching, filter)
        /\ chosen' \in listed' /\ phase = "list"
        /\ UNCHANGED <<phase, filter, field, form, providers, requests>>
    BY <1>4 DEF TypeQuery
  <2>2. /\ listed' \subseteq OfferType
        /\ \A o \in listed' : o.configured => o.provider \in providers
    BY <2>1, OptionsAreTrue DEF DialogInv
  <2> QED
    BY <2>1, <2>2 DEF DialogInv, RequestsComplete
<1>5. CASE OpenEffortDialog \/ MoveSelection \/ TypeField \/ EraseField
  BY <1>5 DEF OpenEffortDialog, MoveSelection, TypeField, EraseField, DialogInv,
              RequestsComplete
<1>6. CASE Dismiss
  <2>1. form' \in FormType
    BY <1>6 DEF Dismiss, Close, NoForm, FormType, Provider
  <2> QED
    BY <1>6, <2>1 DEF Dismiss, Close, DialogInv, RequestsComplete
<1>7. CASE ChooseListed
  <2> DEFINE filled == [provider |-> chosen.provider, custom |-> chosen.custom,
                        address |-> "empty"]
  <2>1. /\ filled \in FormType /\ filled.provider = chosen.provider
        /\ filled.custom = chosen.custom /\ chosen.custom \in BOOLEAN
    BY DEF DialogInv, OfferType, FormType
  <2>2. phase = "list" /\ (chosen.configured => chosen.provider \in providers)
    BY <1>7 DEF ChooseListed, DialogInv
  <2>3. CASE chosen.custom /\ Ask("custom", filled, IF query THEN "good" ELSE "empty")
    BY <2>1, <2>3 DEF Ask, DialogInv, RequestsComplete
  <2>4. CASE ~chosen.custom /\ Ask("key", filled, "empty")
    BY <2>1, <2>4 DEF Ask, DialogInv, RequestsComplete
  <2>5. CASE ~chosen.custom /\ chosen.configured /\ Configure(FALSE, filled)
    <3> HIDE DEF filled
    <3> QED
      BY <2>1, <2>2, <2>5, ConfigureKeeps
  <2> QED
    BY <2>3, <2>4, <2>5, <1>7 DEF ChooseListed
<1>8. ASSUME Refuse PROVE DialogInv'
  BY <1>8 DEF Refuse, DialogInv, RequestsComplete
<1>9. CASE EnterModel
  <2>1. CASE Ask("url", form, "empty")
    BY <2>1 DEF Ask, DialogInv, RequestsComplete
  <2> QED
    BY <2>1, <1>8, <1>9 DEF EnterModel
<1>10. CASE EnterUrl
  <2> DEFINE filled == [form EXCEPT !.address = Address]
  <2>1. CASE Address = "good" /\ ~Refuse
    <3>1. /\ filled \in FormType /\ filled.provider = form.provider /\ filled.address = "good"
      BY <2>1 DEF DialogInv, FormType
    <3>2. CASE Ask("key", filled, "empty")
      BY <3>1, <3>2 DEF Ask, DialogInv, RequestsComplete
    <3>3. CASE ~AsksForKey(form.provider) /\ Configure(FALSE, filled)
      <4>1. filled.provider \in providers
        BY <3>1, <3>3 DEF AsksForKey
      <4> HIDE DEF filled
      <4> QED
        BY <3>1, <3>3, <4>1, ConfigureKeeps
    <3> QED
      BY <2>1, <3>2, <3>3, <1>10 DEF EnterUrl
  <2> QED
    BY <2>1, <1>8, <1>10 DEF EnterUrl
<1>11. CASE EnterKey
  <2>1. CASE Configure(TRUE, form)
    <3>1. form \in FormType /\ (form.custom => form.address = "good")
      BY <1>11 DEF EnterKey, DialogInv
    <3> QED
      BY <2>1, <3>1, ConfigureKeeps
  <2> QED
    BY <2>1, <1>8, <1>11 DEF EnterKey
<1> QED
  BY <1>1, <1>2, <1>3, <1>4, <1>5, <1>6, <1>7, <1>9, <1>10, <1>11
     DEF DialogNext, screenVars

(* Whatever is chosen, typed, erased, refused and asked for again: the     *)
(* runtime is only given a model it can serve.                             *)
THEOREM RequestsAreComplete == Spec => []RequestsComplete
<1>1. Init => DialogInv
  BY DialogInvInit DEF Init
<1>2. DialogInv /\ [Next]_terminal => DialogInv'
  <2>1. [Next]_terminal => [ScrollNext \/ DialogNext]_screenVars
    BY DEF Next, terminal, PromptStep, FeedStep, DraftStep, MouseStep, ScreenStep
  <2> QED
    BY <2>1, DialogInvNext
<1>3. DialogInv => RequestsComplete
  BY DEF DialogInv
<1> QED
  BY <1>1, <1>2, <1>3, PTL DEF Spec

----------------------------------------------------------------------------
(* The list of messages.  The height the list reported last is that of the *)
(* rows there are, so growth is measured against the right one.            *)

ScrollInv ==
  /\ rows \in Nat /\ bodyHeight \in Nat /\ scrollOffset \in Nat
  /\ autoFollow \in BOOLEAN /\ shaken \in BOOLEAN
  /\ maxOffset = HighestOffset(rows, bodyHeight)
  /\ ViewStands

(* adjustScrollOffsetForGrowth: rows below the first row that is seen do    *)
(* not move it.                                                            *)
LEMMA GrowthKeepsTop ==
  ASSUME NEW n \in Nat, NEW k \in Nat, NEW h \in Nat, NEW o \in Nat,
         NEW before, before = HighestOffset(n, h),
         NEW after, after = HighestOffset(n + k, h),
         NEW moved, moved = IF after = before THEN o ELSE FollowsGrowth(o, before, after)
  PROVE  TopRow(n + k, h, moved) = TopRow(n, h, o)
<1>1. /\ before = IF n > h THEN n - h ELSE 0
      /\ after = IF n + k > h THEN (n + k) - h ELSE 0
  BY DEF HighestOffset, Less
<1>2. /\ before \in Nat /\ after \in Nat /\ after >= before
      /\ n > h => after = before + k
  BY <1>1
<1>3. /\ TopRow(n, h, o) = 1 + Less(n, h + Smaller(o, before))
      /\ TopRow(n + k, h, moved) = 1 + Less(n + k, h + Smaller(moved, after))
  BY DEF TopRow
<1>4. moved = IF after = before THEN o
              ELSE Smaller(after, o + (after - before))
  BY <1>2 DEF FollowsGrowth, Less
<1>5. Smaller(o, before) \in Nat /\ Smaller(o, before) <= before
  BY <1>2 DEF Smaller
<1>6. moved \in Nat /\ Smaller(moved, after) \in Nat /\ Smaller(moved, after) <= after
  BY <1>2, <1>4 DEF Smaller
<1>7. ASSUME n > h
      PROVE  TopRow(n + k, h, moved) = TopRow(n, h, o)
  <2>1. TopRow(n, h, o) = 1 + (before - Smaller(o, before))
    BY <1>1, <1>3, <1>5, <1>7 DEF Less
  <2>2. TopRow(n + k, h, moved) = 1 + (after - Smaller(moved, after))
    BY <1>1, <1>3, <1>6, <1>7, <1>2 DEF Less
  <2>3. after - Smaller(moved, after) = before - Smaller(o, before)
    BY <1>2, <1>4, <1>7 DEF Smaller
  <2> QED
    BY <2>1, <2>2, <2>3
<1>8. ASSUME ~(n > h)
      PROVE  TopRow(n + k, h, moved) = TopRow(n, h, o)
  <2>1. before = 0 /\ Smaller(o, before) = 0
    BY <1>1, <1>8 DEF Smaller
  <2>2. TopRow(n, h, o) = 1
    BY <1>3, <1>8, <2>1 DEF Less
  <2>3. CASE after = 0
    <3>1. n + k <= h /\ Smaller(moved, after) = 0
      BY <1>1, <1>6, <2>3 DEF Smaller
    <3>2. Less(n + k, h + Smaller(moved, after)) = 0
      BY <3>1 DEF Less
    <3> QED
      BY <1>3, <2>2, <3>2
  <2>4. CASE after > 0
    <3>1. moved = after /\ Smaller(moved, after) = after
      BY <1>2, <1>4, <2>1, <2>4 DEF Smaller
    <3>2. n + k = h + after
      BY <1>1, <2>4
    <3>3. Less(n + k, h + Smaller(moved, after)) = 0
      BY <1>2, <3>1, <3>2 DEF Less
    <3> QED
      BY <1>3, <2>2, <3>3
  <2> QED
    BY <2>3, <2>4, <1>2
<1> QED
  BY <1>7, <1>8

(* Without growth the offset stays, which counts from the end: the row that *)
(* is seen first is the one it was when as many rows go above it.          *)
LEMMA ShrinkKeepsTop ==
  ASSUME NEW n \in Nat, NEW k \in Nat, NEW h \in Nat, NEW o \in Nat, k < TopRow(n, h, o),
         k <= n,
         NEW before, before = HighestOffset(n, h),
         NEW after, after = HighestOffset(n - k, h),
         NEW moved, moved = IF after = before THEN o ELSE FollowsGrowth(o, before, after)
  PROVE  TopRow(n - k, h, moved) = TopRow(n, h, o) - k
<1>1. /\ before = IF n > h THEN n - h ELSE 0
      /\ after = IF n - k > h THEN (n - k) - h ELSE 0
  BY DEF HighestOffset, Less
<1>2. /\ before \in Nat /\ after \in Nat /\ after <= before
  BY <1>1
<1>3. /\ TopRow(n, h, o) = 1 + Less(n, h + Smaller(o, before))
      /\ TopRow(n - k, h, moved) = 1 + Less(n - k, h + Smaller(moved, after))
  BY DEF TopRow
<1>4. CASE k = 0
  <2>1. n - k = n /\ after = before
    BY <1>1, <1>4
  <2>2. TopRow(n, h, o) \in Int
    BY <1>2 DEF TopRow, Less, Smaller, HighestOffset
  <2> QED
    BY <1>4, <2>1, <2>2
<1>5. CASE k > 0
  <2>1. Smaller(o, before) \in Nat
    BY <1>2 DEF Smaller
  <2>2. /\ n > h + Smaller(o, before) /\ k <= n - (h + Smaller(o, before))
        /\ TopRow(n, h, o) = 1 + (n - (h + Smaller(o, before)))
    BY <1>3, <1>5, <2>1 DEF Less
  <2>3. o < before /\ Smaller(o, before) = o /\ before = n - h
    BY <1>1, <1>2, <2>1, <2>2 DEF Smaller
  <2>4. o <= (n - k) - h
    BY <2>2, <2>3
  <2>5. o <= after
    BY <1>1, <2>4
  <2>6. moved = o
    BY <1>2, <2>5 DEF FollowsGrowth, Less, Smaller
  <2>7. Smaller(moved, after) = o
    BY <1>2, <2>5, <2>6 DEF Smaller
  <2>8. Less(n - k, h + o) = (n - k) - (h + o)
    BY <2>4 DEF Less
  <2> QED
    BY <1>3, <2>2, <2>3, <2>7, <2>8
<1> QED
  BY <1>4, <1>5

LEMMA ScrollInvInit == ScreenInit => ScrollInv
<1> SUFFICES ASSUME ScreenInit PROVE ScrollInv
  OBVIOUS
<1>1. rows = 0 /\ bodyHeight \in Nat \ {0}
  BY ScreenAssumption DEF ScreenInit
<1>2. HighestOffset(rows, bodyHeight) = 0
  BY <1>1 DEF HighestOffset, Less
<1>3. ViewStands
  BY DEF ScreenInit, ViewStands
<1>4. rows \in Nat /\ bodyHeight \in Nat
  BY <1>1
<1> QED
  BY <1>2, <1>3, <1>4 DEF ScreenInit, ScrollInv

LEMMA SettleTypes ==
  ASSUME ScrollInv, NEW o \in Nat, NEW follow \in BOOLEAN, Settle(o, follow),
         rows' \in Nat, bodyHeight' \in Nat
  PROVE  /\ scrollOffset' \in Nat /\ autoFollow' \in BOOLEAN
         /\ maxOffset' = HighestOffset(rows', bodyHeight')
<1> DEFINE after == HighestOffset(rows', bodyHeight')
           grown == FollowsGrowth(o, maxOffset, after)
           adjusted == IF after = maxOffset /\ follow = autoFollow THEN o ELSE grown
<1>1. after \in Nat /\ maxOffset \in Nat
  <2>1. \A n, h \in Nat : HighestOffset(n, h) \in Nat
    BY DEF HighestOffset, Less
  <2> QED
    BY <2>1 DEF ScrollInv
<1>2. maxOffset' = after /\ autoFollow' = (follow \/ adjusted = 0)
  BY DEF Settle
<1>3. scrollOffset' = IF follow THEN 0 ELSE adjusted
  BY DEF Settle
<1> HIDE DEF after
<1>4. grown \in Nat
  BY <1>1 DEF FollowsGrowth, Less, Smaller
<1> HIDE DEF grown
<1>5. scrollOffset' \in Nat
  BY <1>3, <1>4
<1> HIDE DEF adjusted
<1>6. autoFollow' \in BOOLEAN
  BY <1>2
<1> QED
  BY <1>2, <1>5, <1>6 DEF after

LEMMA ScrollInvNext ==
  ASSUME ScrollInv, [ScrollNext \/ DialogNext]_screenVars
  PROVE  ScrollInv'
<1> USE ScreenAssumption
<1>1. CASE UNCHANGED scrollVars
  BY <1>1 DEF scrollVars, ScrollInv, ViewStands
<1>2. CASE DialogNext
  BY <1>2, <1>1 DEF DialogNext, OpenModels, OpenEffortDialog, Dismiss, MoveSelection, TypeQuery,
     TypeField, EraseField, ChooseListed, EnterModel, EnterUrl, EnterKey, Ask, Refuse, Configure
<1>3. ASSUME NEW o \in Nat, Settle(o, FALSE), UNCHANGED <<rows, bodyHeight>>,
             anchor' = TopRow(rows, bodyHeight, scrollOffset'), shaken' = FALSE
      PROVE  ScrollInv'
  <2>1. /\ scrollOffset' \in Nat /\ autoFollow' \in BOOLEAN
        /\ maxOffset' = HighestOffset(rows', bodyHeight')
    BY <1>3, SettleTypes DEF ScrollInv
  <2> QED
    BY <1>3, <2>1 DEF ScrollInv, ViewStands
<1>4. ASSUME NEW amount \in Amounts, ScrollUp(amount) \/ ScrollDown(amount)
      PROVE  ScrollInv'
  <2>1. amount \in Nat /\ scrollOffset + amount \in Nat /\ Less(scrollOffset, amount) \in Nat
    BY DEF ScrollInv, Less
  <2>2. CASE ScrollUp(amount)
    BY <2>1, <2>2, <1>3 DEF ScrollUp
  <2>3. CASE ScrollDown(amount)
    BY <2>1, <2>3, <1>3 DEF ScrollDown
  <2> QED
    BY <1>4, <2>2, <2>3
<1>5. CASE BackToEnd
  <2>1. UNCHANGED <<rows, bodyHeight, shaken>> /\ Settle(0, TRUE)
    BY <1>5 DEF BackToEnd
  <2>2. /\ scrollOffset' \in Nat /\ autoFollow' \in BOOLEAN
        /\ maxOffset' = HighestOffset(rows', bodyHeight')
    BY <2>1, SettleTypes DEF ScrollInv
  <2>3. autoFollow' = TRUE
    BY <2>1 DEF Settle
  <2> QED
    BY <2>1, <2>2, <2>3 DEF ScrollInv, ViewStands
<1>6. ASSUME NEW height \in Heights, PanelChanges(height)
      PROVE  ScrollInv'
  <2>1. /\ UNCHANGED rows /\ bodyHeight' \in Nat /\ shaken' = TRUE
        /\ Settle(scrollOffset, autoFollow)
    BY <1>6 DEF PanelChanges
  <2>2. /\ scrollOffset' \in Nat /\ autoFollow' \in BOOLEAN
        /\ maxOffset' = HighestOffset(rows', bodyHeight')
    BY <2>1, SettleTypes DEF ScrollInv
  <2> QED
    BY <2>1, <2>2 DEF ScrollInv, ViewStands
<1>7. ASSUME NEW above \in Changes, NEW below \in Changes, NEW kept \in BOOLEAN,
             RowsChange(above, below, kept)
      PROVE  ScrollInv'
  <2> DEFINE top == TopRow(rows, bodyHeight, scrollOffset)
             moves == ~kept \/ above > 0 \/ below < 0 \/ (above < 0 /\ below > 0)
  <2>1. above \in Int /\ below \in Int
    <3>1. \A amount \in Amounts : amount \in Int /\ -amount \in Int
      OBVIOUS
    <3> QED
      BY <3>1 DEF Changes
  <2>2. /\ above \in Int /\ below \in Int
        /\ rows' = rows + above + below /\ rows' \in Nat /\ top + above >= 1
        /\ bodyHeight' = bodyHeight /\ Settle(scrollOffset, autoFollow)
        /\ shaken' = (shaken \/ moves)
        /\ anchor' = IF autoFollow \/ shaken' THEN anchor ELSE anchor + above
    <3>1. rows' \in 0..MaxRows /\ top + above \in 1..(rows' + 1)
      BY <1>7 DEF RowsChange
    <3>2. rows' \in Nat /\ top + above >= 1
      BY <3>1
    <3> QED
      BY <1>7, <2>1, <3>2 DEF RowsChange
  <2>3. shaken' \in BOOLEAN /\ bodyHeight' \in Nat
    BY <2>2 DEF ScrollInv
  <2>4. /\ scrollOffset' \in Nat /\ autoFollow' \in BOOLEAN
        /\ maxOffset' = HighestOffset(rows', bodyHeight')
    BY <2>2, <2>3, SettleTypes DEF ScrollInv
  <2>5. ASSUME ~autoFollow', ~shaken'
        PROVE  TopRow(rows', bodyHeight', scrollOffset') = anchor'
    <3>1. ~shaken /\ ~moves
      BY <2>2, <2>5, Zenon
    <3>2. ~autoFollow
      BY <2>2, <2>5 DEF Settle
    <3>3. top = anchor
      BY <3>1, <3>2 DEF ScrollInv, ViewStands
    <3>4. anchor' = top + above
      BY <2>2, <2>5, <3>2, <3>3
    <3>5. scrollOffset' = IF maxOffset' = maxOffset THEN scrollOffset
                          ELSE FollowsGrowth(scrollOffset, maxOffset, maxOffset')
      BY <2>2, <3>2, <2>4 DEF Settle
    <3>6. /\ maxOffset = HighestOffset(rows, bodyHeight)
          /\ maxOffset' = HighestOffset(rows', bodyHeight)
      BY <2>2, <2>4 DEF ScrollInv
    <3>7. rows \in Nat /\ bodyHeight \in Nat /\ scrollOffset \in Nat
      BY DEF ScrollInv
    <3>8. top \in Nat
      <4>1. \A n, h, o \in Nat : TopRow(n, h, o) \in Nat
        BY DEF TopRow, Less, Smaller, HighestOffset
      <4> QED
        BY <4>1, <3>7
    <3> HIDE DEF top
    <3>9. (above = 0 /\ below \in Nat) \/ (below = 0 /\ -above \in Nat)
      BY <2>2, <3>1
    <3>10. CASE above = 0 /\ below \in Nat
      <4>1. rows' = rows + below
        BY <2>2, <3>7, <3>10
      <4>2. TopRow(rows + below, bodyHeight, scrollOffset') = TopRow(rows, bodyHeight, scrollOffset)
        BY <3>5, <3>6, <3>7, <3>10, <4>1, GrowthKeepsTop, SMTT(60)
      <4> QED
        BY <2>2, <3>4, <3>8, <3>10, <4>1, <4>2 DEF top
    <3>11. CASE below = 0 /\ -above \in Nat
      <4> DEFINE gone == -above
      <4>1. gone \in Nat /\ rows' = rows - gone /\ gone <= rows /\ gone < top
        BY <2>2, <3>7, <3>8, <3>11
      <4> HIDE DEF gone
      <4>2. gone < TopRow(rows, bodyHeight, scrollOffset)
        BY <4>1 DEF top
      <4>3. maxOffset' = HighestOffset(rows - gone, bodyHeight)
        BY <3>6, <4>1
      <4>4. TopRow(rows - gone, bodyHeight, scrollOffset')
              = TopRow(rows, bodyHeight, scrollOffset) - gone
        BY <3>5, <3>6, <3>7, <4>1, <4>2, <4>3, ShrinkKeepsTop, SMTT(60)
      <4>5. top - gone = top + above
        BY <2>2, <3>8 DEF gone
      <4> QED
        BY <2>2, <3>4, <4>1, <4>4, <4>5 DEF top
    <3> QED
      BY <3>9, <3>10, <3>11
  <2> QED
    BY <2>2, <2>3, <2>4, <2>5 DEF ScrollInv, ViewStands
<1> QED
  BY <1>1, <1>2, <1>4, <1>5, <1>6, <1>7 DEF ScrollNext, screenVars

----------------------------------------------------------------------------
(* The results of tool calls.  While every call that was announced is       *)
(* answered, the entries that wait for a result of a tool are those of its *)
(* calls in the batch, both in the order of the calls; so the oldest entry *)
(* that waits is that of the first call.                                   *)

CallType == [tool : ToolNames, entry : Nat]
EntryType == [id : Nat, tool : ToolNames \cup {"unknown"},
              status : {"running", "passed", "failed", "orphan"}, result : Nat]

FeedTypes ==
  /\ toolCounter \in Nat /\ unanswered \in BOOLEAN
  /\ pendingTools \in [ToolNames -> Seq(Nat)]
  /\ batch \in Seq(CallType) /\ entries \in Seq(EntryType)

Ascending(q) == \A i, j \in DOMAIN q : i < j => q[i] < q[j]

\* n waits for the result of tool t
Waits(list, n) == \E i \in DOMAIN list : list[i] = n
Announced(calls, t, n) == \E i \in DOMAIN calls : calls[i].tool = t /\ calls[i].entry = n

InStep(pending, calls, last) ==
  /\ \A i, j \in DOMAIN calls : i < j => calls[i].entry < calls[j].entry
  /\ \A i \in DOMAIN calls : calls[i].entry <= last
  /\ \A t \in ToolNames :
       /\ Ascending(pending[t])
       /\ \A n \in Nat : Waits(pending[t], n) <=> Announced(calls, t, n)

Own(list) == \A i \in DOMAIN list : list[i].result \in {NoResult, list[i].id}

FeedInv ==
  /\ FeedTypes
  /\ ~unanswered => InStep(pendingTools, batch, toolCounter) /\ Own(entries)

LEMMA NothingYet ==
  ASSUME NEW p, p = [t \in ToolNames |-> <<>>], NEW last
  PROVE  /\ p \in [ToolNames -> Seq(Nat)] /\ <<>> \in Seq(CallType) /\ <<>> \in Seq(EntryType)
         /\ InStep(p, <<>>, last) /\ Own(<<>>)
<1>1. <<>> \in Seq(Nat) /\ <<>> \in Seq(CallType) /\ <<>> \in Seq(EntryType)
  OBVIOUS
<1>2. DOMAIN <<>> = {} /\ \A t \in ToolNames : p[t] = <<>>
  OBVIOUS
<1>3. p \in [ToolNames -> Seq(Nat)]
  BY <1>1
<1>4. InStep(p, <<>>, last)
  BY <1>2 DEF InStep, Ascending, Waits, Announced
<1> QED
  BY <1>1, <1>2, <1>3, <1>4 DEF Own

LEMMA FeedInvInit == FeedInit => FeedInv
<1> SUFFICES ASSUME FeedInit PROVE FeedInv
  OBVIOUS
<1>1. /\ pendingTools = [t \in ToolNames |-> <<>>] /\ batch = <<>> /\ entries = <<>>
      /\ toolCounter = 0 /\ unanswered = FALSE
  BY DEF FeedInit
<1>2. /\ pendingTools \in [ToolNames -> Seq(Nat)] /\ batch \in Seq(CallType)
      /\ entries \in Seq(EntryType) /\ InStep(pendingTools, batch, toolCounter) /\ Own(entries)
  BY <1>1, NothingYet
<1> QED
  BY <1>1, <1>2 DEF FeedInv, FeedTypes

LEMMA BatchFields ==
  ASSUME FeedTypes
  PROVE  /\ Len(batch) \in Nat /\ DOMAIN batch = 1..Len(batch)
         /\ \A i \in DOMAIN batch : batch[i].tool \in ToolNames /\ batch[i].entry \in Nat
         /\ batch # <<>> => /\ 1 \in DOMAIN batch /\ Head(batch) = batch[1]
                            /\ Tail(batch) \in Seq(CallType)
<1>1. /\ batch \in Seq(CallType)
      /\ Len(batch) \in Nat /\ DOMAIN batch = 1..Len(batch)
      /\ \A i \in DOMAIN batch : batch[i] \in CallType
  BY DEF FeedTypes
<1>2. \A c \in CallType : c.tool \in ToolNames /\ c.entry \in Nat
  BY DEF CallType
<1>3. batch # <<>> => /\ 1 \in DOMAIN batch /\ Head(batch) = batch[1]
                     /\ Tail(batch) \in Seq(CallType)
  BY <1>1
<1> QED
  BY <1>1, <1>2, <1>3

LEMMA RingTypes ==
  ASSUME NEW list \in Seq(EntryType), NEW item \in EntryType, NEW limit \in Nat \ {0}
  PROVE  Ring(list, item, limit) \in Seq(EntryType)
<1>1. list # <<>> => Tail(list) \in Seq(EntryType)
  OBVIOUS
<1>2. \A s \in Seq(EntryType) : Append(s, item) \in Seq(EntryType)
  OBVIOUS
<1>3. ~(Len(list) < limit) => list # <<>>
  OBVIOUS
<1> QED
  BY <1>1, <1>2, <1>3 DEF Ring

(* pushBounded keeps what it is given.                                     *)
LEMMA RingKeeps ==
  ASSUME NEW list \in Seq(EntryType), NEW item \in EntryType, Own(list),
         item.result \in {NoResult, item.id}, NEW limit \in Nat \ {0}
  PROVE  Own(Ring(list, item, limit))
<1>1. ASSUME NEW s \in Seq(EntryType), Own(s)
      PROVE  Append(s, item) \in Seq(EntryType) /\ Own(Append(s, item))
  <2>1. /\ Append(s, item) \in Seq(EntryType) /\ Len(s) \in Nat
        /\ DOMAIN Append(s, item) = 1..(Len(s) + 1) /\ DOMAIN s = 1..Len(s)
        /\ \A i \in 1..Len(s) : Append(s, item)[i] = s[i]
        /\ Append(s, item)[Len(s) + 1] = item
    OBVIOUS
  <2>2. \A i \in 1..(Len(s) + 1) : i \in 1..Len(s) \/ i = Len(s) + 1
    BY <2>1
  <2> QED
    BY <2>1, <2>2, <1>1 DEF Own
<1>2. CASE Len(list) < limit
  BY <1>1, <1>2 DEF Ring
<1>3. CASE ~(Len(list) < limit)
  <2>1. list # <<>>
    BY <1>3
  <2>2. /\ Tail(list) \in Seq(EntryType)
        /\ \A i \in DOMAIN Tail(list) : i + 1 \in DOMAIN list /\ Tail(list)[i] = list[i + 1]
    BY <2>1
  <2>3. Own(Tail(list))
    BY <2>2 DEF Own
  <2> QED
    BY <1>1, <1>3, <2>2, <2>3 DEF Ring
<1> QED
  BY <1>2, <1>3

(* tool.finished, of whatever entry.                                      *)
LEMMA FinishedTypes ==
  ASSUME NEW list \in Seq(EntryType), NEW id \in Nat, NEW ok \in BOOLEAN, NEW result \in Nat
  PROVE  Finished(list, id, ok, result) \in Seq(EntryType)
<1> DEFINE filled == [i \in DOMAIN list |->
                        IF list[i].id = id
                          THEN Entry(id, list[i].tool, IF ok THEN "passed" ELSE "failed", result)
                          ELSE list[i]]
           orphan == Entry(id, "unknown", "orphan", result)
<1>1. Len(list) \in Nat /\ DOMAIN list = 1..Len(list) /\ \A i \in DOMAIN list : list[i] \in EntryType
  OBVIOUS
<1>2. ASSUME NEW i \in DOMAIN list
      PROVE  Entry(id, list[i].tool, IF ok THEN "passed" ELSE "failed", result) \in EntryType
  BY <1>1 DEF Entry, EntryType
<1>3. filled \in [1..Len(list) -> EntryType]
  BY <1>1, <1>2
<1>4. filled \in Seq(EntryType)
  <2> HIDE DEF filled
  <2> QED
    BY <1>1, <1>3
<1>5. orphan \in EntryType
  BY DEF Entry, EntryType
<1>6. Ring(list, orphan, ToolLimit) \in Seq(EntryType)
  BY <1>5, RingTypes, FeedAssumption
<1> QED
  BY <1>4, <1>6 DEF Finished

(* tool.finished of an entry that gets its own result.                     *)
LEMMA FinishedKeeps ==
  ASSUME NEW list \in Seq(EntryType), Own(list), NEW id \in Nat, NEW ok \in BOOLEAN
  PROVE  Own(Finished(list, id, ok, id))
<1> DEFINE entry(i) == Entry(id, list[i].tool, IF ok THEN "passed" ELSE "failed", id)
           filled == [i \in DOMAIN list |-> IF list[i].id = id THEN entry(i) ELSE list[i]]
           orphan == Entry(id, "unknown", "orphan", id)
<1>1. Own(filled)
  <2>1. ASSUME NEW i \in DOMAIN list, list[i].id = id
        PROVE  filled[i].result \in {NoResult, filled[i].id}
    BY <2>1 DEF Entry
  <2>2. ASSUME NEW i \in DOMAIN list, list[i].id # id
        PROVE  filled[i].result \in {NoResult, filled[i].id}
    BY <2>2 DEF Own
  <2>3. DOMAIN filled = DOMAIN list
    OBVIOUS
  <2> HIDE DEF filled
  <2> QED
    BY <2>1, <2>2, <2>3 DEF Own
<1>2. orphan \in EntryType /\ orphan.result \in {NoResult, orphan.id}
  BY DEF Entry, EntryType
<1>3. Own(Ring(list, orphan, ToolLimit))
  <2> HIDE DEF orphan
  <2> QED
    BY <1>2, RingKeeps, FeedAssumption
<1> QED
  BY <1>1, <1>3 DEF Finished

(* The oldest entry of a tool that waits is that of the first call.        *)
LEMMA OldestIsFirst ==
  ASSUME FeedTypes, InStep(pendingTools, batch, toolCounter), batch # <<>>,
         NEW t \in ToolNames, t = Head(batch).tool
  PROVE  pendingTools[t] # <<>> /\ Head(pendingTools[t]) = Head(batch).entry
<1> DEFINE q == pendingTools[t]  e == Head(batch).entry
<1>1. /\ Head(batch) = batch[1] /\ 1 \in DOMAIN batch /\ Len(batch) \in Nat
      /\ DOMAIN batch = 1..Len(batch) /\ e \in Nat
      /\ \A i \in DOMAIN batch : batch[i].entry \in Nat
  BY BatchFields DEF FeedTypes
<1>2. q \in Seq(Nat) /\ DOMAIN q = 1..Len(q) /\ Len(q) \in Nat
  BY DEF FeedTypes
<1>3. PICK k \in DOMAIN q : q[k] = e
  <2>1. Announced(batch, t, e)
    BY <1>1 DEF Announced
  <2> QED
    BY <1>1, <2>1 DEF InStep, Waits
<1>4. 1 \in DOMAIN q /\ q[1] \in Nat /\ Head(q) = q[1] /\ q # <<>>
  BY <1>2, <1>3
<1>5. PICK i \in DOMAIN batch : batch[i].tool = t /\ batch[i].entry = q[1]
  <2>1. Waits(q, q[1])
    BY <1>4 DEF Waits
  <2> QED
    BY <1>4, <2>1 DEF InStep, Announced
<1>6. e <= q[1]
  BY <1>1, <1>5 DEF InStep
<1>7. k = 1 \/ q[1] < q[k]
  BY <1>2, <1>3, <1>4 DEF InStep, Ascending
<1> QED
  BY <1>1, <1>3, <1>4, <1>6, <1>7

LEMMA AppendKeepsStep ==
  ASSUME FeedTypes, InStep(pendingTools, batch, toolCounter), NEW t \in ToolNames,
         NEW id, id = toolCounter + 1
  PROVE  InStep([pendingTools EXCEPT ![t] = Append(@, id)],
                Append(batch, [tool |-> t, entry |-> id]), id)
<1> DEFINE q == pendingTools[t]  r == Append(q, id)
           call == [tool |-> t, entry |-> id]  b == Append(batch, call)
           p == [pendingTools EXCEPT ![t] = r]
<1>1. /\ batch \in Seq(CallType) /\ Len(batch) \in Nat /\ DOMAIN batch = 1..Len(batch)
      /\ \A i \in DOMAIN batch : batch[i].entry \in Nat /\ batch[i].entry < id
      /\ id \in Nat /\ call.tool = t /\ call.entry = id
  BY BatchFields DEF FeedTypes, InStep
<1>2. /\ q \in Seq(Nat) /\ DOMAIN q = 1..Len(q) /\ Len(q) \in Nat
      /\ \A i \in DOMAIN q : q[i] \in Nat
  BY DEF FeedTypes
<1> HIDE DEF call
<1>3. /\ DOMAIN b = 1..(Len(batch) + 1) /\ b[Len(batch) + 1] = call
      /\ \A i \in DOMAIN batch : b[i] = batch[i] /\ i \in DOMAIN b
      /\ \A i \in DOMAIN b : i \in DOMAIN batch \/ i = Len(batch) + 1
      /\ Len(batch) + 1 \in DOMAIN b
  BY <1>1 DEF FeedTypes
<1>4. /\ DOMAIN r = 1..(Len(q) + 1) /\ r[Len(q) + 1] = id
      /\ \A i \in DOMAIN q : r[i] = q[i] /\ i \in DOMAIN r
      /\ \A i \in DOMAIN r : i \in DOMAIN q \/ i = Len(q) + 1
      /\ Len(q) + 1 \in DOMAIN r
  BY <1>1, <1>2
<1>5. p[t] = r /\ \A o \in ToolNames \ {t} : p[o] = pendingTools[o]
  BY DEF FeedTypes
<1> HIDE DEF b, r, p, q
<1>6. \A i, j \in DOMAIN b : i < j => b[i].entry < b[j].entry
  <2> SUFFICES ASSUME NEW i \in DOMAIN b, NEW j \in DOMAIN b, i < j
               PROVE  b[i].entry < b[j].entry
    OBVIOUS
  <2>1. i \in DOMAIN batch
    BY <1>1, <1>3
  <2> QED
    BY <1>1, <1>3, <2>1 DEF InStep
<1>7. \A i \in DOMAIN b : b[i].entry <= id
  BY <1>1, <1>3
<1>8. \A i \in DOMAIN q : q[i] < id
  <2> SUFFICES ASSUME NEW i \in DOMAIN q PROVE q[i] < id
    OBVIOUS
  <2>1. q[i] \in Nat /\ Waits(q, q[i])
    BY <1>2 DEF Waits
  <2>2. Announced(batch, t, q[i])
    BY <2>1 DEF InStep, q
  <2> QED
    BY <2>2, <1>1 DEF Announced
<1>9. Ascending(r)
  <2> SUFFICES ASSUME NEW i \in DOMAIN r, NEW j \in DOMAIN r, i < j
               PROVE  r[i] < r[j]
    BY DEF Ascending
  <2>1. i \in DOMAIN q
    BY <1>2, <1>4
  <2>2. Ascending(q)
    BY DEF InStep, q
  <2> QED
    BY <1>4, <1>8, <2>1, <2>2 DEF Ascending
<1>10. ASSUME NEW n \in Nat
       PROVE  Waits(r, n) <=> Announced(b, t, n)
  <2>1. Waits(r, n) <=> Waits(q, n) \/ n = id
    BY <1>4 DEF Waits
  <2>2. Announced(b, t, n) <=> Announced(batch, t, n) \/ n = id
    BY <1>1, <1>3 DEF Announced
  <2>3. Waits(q, n) <=> Announced(batch, t, n)
    BY DEF InStep, q
  <2> QED
    BY <2>1, <2>2, <2>3
<1>11. ASSUME NEW o \in ToolNames \ {t}, NEW n \in Nat
       PROVE  Waits(p[o], n) <=> Announced(b, o, n)
  <2>1. Announced(b, o, n) <=> Announced(batch, o, n)
    BY <1>1, <1>3 DEF Announced
  <2> QED
    BY <1>5, <2>1 DEF InStep
<1>12. ASSUME NEW o \in ToolNames
       PROVE  /\ Ascending(p[o])
              /\ \A n \in Nat : Waits(p[o], n) <=> Announced(b, o, n)
  <2>1. CASE o = t
    BY <1>5, <1>9, <1>10, <2>1
  <2>2. CASE o # t
    BY <1>5, <1>11, <2>2 DEF InStep
  <2> QED
    BY <2>1, <2>2
<1>13. InStep(p, b, id)
  BY <1>6, <1>7, <1>12 DEF InStep
<1> QED
  BY <1>13 DEF p, b, r, q, call

LEMMA TailKeepsStep ==
  ASSUME FeedTypes, InStep(pendingTools, batch, toolCounter), batch # <<>>,
         NEW t \in ToolNames, t = Head(batch).tool
  PROVE  InStep([pendingTools EXCEPT ![t] = Tail(@)], Tail(batch), toolCounter)
<1> DEFINE q == pendingTools[t]  r == Tail(q)  b == Tail(batch)
           e == Head(batch).entry  p == [pendingTools EXCEPT ![t] = r]
<1>1. /\ Head(batch) = batch[1] /\ 1 \in DOMAIN batch /\ Len(batch) \in Nat
      /\ DOMAIN batch = 1..Len(batch) /\ e \in Nat /\ toolCounter \in Nat
      /\ \A i \in DOMAIN batch : batch[i].entry \in Nat
  BY BatchFields DEF FeedTypes
<1>2. /\ q \in Seq(Nat) /\ DOMAIN q = 1..Len(q) /\ Len(q) \in Nat
      /\ \A i \in DOMAIN q : q[i] \in Nat
  BY DEF FeedTypes
<1>3. q # <<>> /\ Head(q) = e /\ q[1] = e /\ 1 \in DOMAIN q
  BY <1>2, OldestIsFirst
<1>4. /\ DOMAIN b = 1..(Len(batch) - 1)
      /\ \A i \in DOMAIN b : i + 1 \in DOMAIN batch /\ b[i] = batch[i + 1]
  BY <1>1 DEF FeedTypes
<1>5. /\ DOMAIN r = 1..(Len(q) - 1)
      /\ \A i \in DOMAIN r : i + 1 \in DOMAIN q /\ r[i] = q[i + 1]
  BY <1>2, <1>3
<1>6. \A i \in DOMAIN batch : i # 1 => i - 1 \in DOMAIN b /\ b[i - 1] = batch[i]
  BY <1>1, <1>4
<1>7. \A i \in DOMAIN q : i # 1 => i - 1 \in DOMAIN r /\ r[i - 1] = q[i]
  BY <1>2, <1>5
<1>8. p[t] = r /\ \A o \in ToolNames \ {t} : p[o] = pendingTools[o]
  BY DEF FeedTypes
<1> HIDE DEF b, r, p, q, e
<1>9. \A i, j \in DOMAIN b : i < j => b[i].entry < b[j].entry
  BY <1>4, <1>1 DEF InStep
<1>10. \A i \in DOMAIN b : b[i].entry <= toolCounter /\ e < b[i].entry
  <2> SUFFICES ASSUME NEW i \in DOMAIN b
               PROVE  b[i].entry <= toolCounter /\ e < b[i].entry
    OBVIOUS
  <2>1. i + 1 \in DOMAIN batch /\ 1 < i + 1 /\ b[i] = batch[i + 1]
    BY <1>4, <1>1
  <2> QED
    BY <2>1, <1>1 DEF InStep, e
<1>11. Ascending(q)
  BY DEF InStep, q
<1>12. Ascending(r)
  BY <1>5, <1>2, <1>11 DEF Ascending
<1>13. \A i \in DOMAIN r : e < r[i]
  <2> SUFFICES ASSUME NEW i \in DOMAIN r PROVE e < r[i]
    OBVIOUS
  <2>1. i + 1 \in DOMAIN q /\ 1 < i + 1 /\ r[i] = q[i + 1]
    BY <1>2, <1>5
  <2> QED
    BY <2>1, <1>3, <1>11 DEF Ascending
<1>14. ASSUME NEW n \in Nat
       PROVE  Waits(r, n) <=> Announced(b, t, n)
  <2>1. Waits(r, n) <=> Waits(q, n) /\ n # e
    <3>1. Waits(r, n) => Waits(q, n)
      BY <1>5 DEF Waits
    <3>2. Waits(r, n) => n # e
      BY <1>13, <1>1 DEF Waits
    <3>3. Waits(q, n) /\ n # e => Waits(r, n)
      BY <1>3, <1>7 DEF Waits
    <3> QED
      BY <3>1, <3>2, <3>3
  <2>2. Announced(b, t, n) <=> Announced(batch, t, n) /\ n # e
    <3>1. Announced(b, t, n) => Announced(batch, t, n)
      BY <1>4 DEF Announced
    <3>2. Announced(b, t, n) => n # e
      BY <1>10, <1>1 DEF Announced
    <3>3. Announced(batch, t, n) /\ n # e => Announced(b, t, n)
      BY <1>1, <1>6 DEF Announced, e
    <3> QED
      BY <3>1, <3>2, <3>3
  <2>3. Waits(q, n) <=> Announced(batch, t, n)
    BY DEF InStep, q
  <2> QED
    BY <2>1, <2>2, <2>3
<1>15. ASSUME NEW o \in ToolNames \ {t}, NEW n \in Nat
       PROVE  Waits(p[o], n) <=> Announced(b, o, n)
  <2>1. Announced(b, o, n) => Announced(batch, o, n)
    BY <1>4 DEF Announced
  <2>2. Announced(batch, o, n) => Announced(b, o, n)
    BY <1>1, <1>6 DEF Announced
  <2> QED
    BY <1>8, <2>1, <2>2 DEF InStep
<1>16. ASSUME NEW o \in ToolNames
       PROVE  /\ Ascending(p[o])
              /\ \A n \in Nat : Waits(p[o], n) <=> Announced(b, o, n)
  <2>1. CASE o = t
    BY <1>8, <1>12, <1>14, <2>1
  <2>2. CASE o # t
    BY <1>8, <1>15, <2>2 DEF InStep
  <2> QED
    BY <2>1, <2>2
<1>17. InStep(p, b, toolCounter)
  BY <1>9, <1>10, <1>16 DEF InStep
<1> QED
  BY <1>17 DEF p, b, r, q

LEMMA FeedTypesNext ==
  ASSUME FeedTypes, [FeedNext]_feedVars
  PROVE  FeedTypes'
<1>1. ASSUME NEW t \in ToolNames, ToolCall(t)
      PROVE  FeedTypes'
  <2> DEFINE id == toolCounter + 1
  <2>1. id \in Nat /\ toolCounter' = id /\ unanswered' = unanswered
    BY <1>1 DEF ToolCall, FeedTypes
  <2>2. pendingTools' \in [ToolNames -> Seq(Nat)]
    <3>1. pendingTools' = [pendingTools EXCEPT ![t] = Append(pendingTools[t], id)]
      BY <1>1 DEF ToolCall, FeedTypes
    <3>2. Append(pendingTools[t], id) \in Seq(Nat)
      BY <2>1 DEF FeedTypes
    <3> QED
      BY <3>1, <3>2 DEF FeedTypes
  <2>3. batch' \in Seq(CallType)
    <3>1. [tool |-> t, entry |-> id] \in CallType
      BY <2>1 DEF CallType
    <3> QED
      BY <3>1, <1>1 DEF ToolCall, FeedTypes
  <2>4. entries' \in Seq(EntryType)
    <3> DEFINE new == Entry(id, t, "running", NoResult)
    <3>1. new \in EntryType
      BY <2>1 DEF Entry, EntryType, NoResult
    <3>2. entries' = Ring(entries, new, ToolLimit)
      BY <1>1 DEF ToolCall
    <3> HIDE DEF new
    <3> QED
      BY <3>1, <3>2, RingTypes, FeedAssumption DEF FeedTypes
  <2> QED
    BY <2>1, <2>2, <2>3, <2>4 DEF FeedTypes
<1>2. ASSUME NEW ok \in BOOLEAN, ToolResult(ok)
      PROVE  FeedTypes'
  <2> DEFINE t == Head(batch).tool
             paired == pendingTools[t] # <<>>
             id == IF paired THEN Head(pendingTools[t]) ELSE toolCounter + 1
  <2>1. /\ batch # <<>> /\ batch' = Tail(batch) /\ t \in ToolNames /\ Head(batch).entry \in Nat
        /\ Tail(batch) \in Seq(CallType)
    BY <1>2, BatchFields DEF ToolResult
  <2>2. id \in Nat /\ pendingTools[t] \in Seq(Nat)
    BY <2>1 DEF FeedTypes
  <2>3. toolCounter' = IF paired THEN toolCounter ELSE id
    BY <1>2 DEF ToolResult, Shift
  <2>4. pendingTools' \in [ToolNames -> Seq(Nat)]
    <3>1. pendingTools' = [pendingTools EXCEPT ![t] = IF paired THEN Tail(pendingTools[t])
                                                      ELSE pendingTools[t]]
      BY <1>2, <2>1 DEF ToolResult, Shift, FeedTypes
    <3>2. paired => Tail(pendingTools[t]) \in Seq(Nat)
      BY <2>2
    <3> QED
      BY <3>1, <3>2, <2>1, <2>2 DEF FeedTypes
  <2>5. entries' \in Seq(EntryType)
    <3>1. entries' = Finished(entries, id, ok, Head(batch).entry)
      BY <1>2 DEF ToolResult, Shift
    <3> HIDE DEF id, t
    <3> QED
      BY <3>1, <2>1, <2>2, FinishedTypes DEF FeedTypes
  <2> QED
    BY <1>2, <2>1, <2>2, <2>3, <2>4, <2>5 DEF ToolResult, FeedTypes
<1>3. CASE RefuseCall
  <2>1. Tail(batch) \in Seq(CallType)
    BY <1>3 DEF RefuseCall, FeedTypes
  <2> QED
    BY <1>3, <2>1 DEF RefuseCall, FeedTypes
<1>4. ASSUME NEW ok \in BOOLEAN, StreamEnds(ok) \/ StreamFails(ok)
      PROVE  FeedTypes'
  BY <1>4, NothingYet DEF StreamEnds, StreamFails, FeedTypes
<1>5. CASE NextRound \/ UNCHANGED feedVars
  BY <1>5 DEF NextRound, feedVars, FeedTypes
<1>6. CASE ResetFeed
  <2>1. /\ pendingTools' = [t \in ToolNames |-> <<>>] /\ batch' = <<>> /\ entries' = <<>>
        /\ toolCounter' = 0 /\ unanswered' = FALSE
    BY <1>6 DEF ResetFeed
  <2>2. /\ pendingTools' \in [ToolNames -> Seq(Nat)] /\ batch' \in Seq(CallType)
        /\ entries' \in Seq(EntryType)
    BY <2>1, NothingYet
  <2> QED
    BY <2>1, <2>2 DEF FeedTypes
<1> QED
  BY <1>1, <1>2, <1>3, <1>4, <1>5, <1>6 DEF FeedNext

LEMMA FeedInvNext ==
  ASSUME FeedInv, [FeedNext]_feedVars
  PROVE  FeedInv'
<1>1. FeedTypes /\ FeedTypes'
  BY FeedTypesNext DEF FeedInv
<1> SUFFICES ASSUME ~unanswered'
             PROVE  InStep(pendingTools', batch', toolCounter') /\ Own(entries')
  BY <1>1 DEF FeedInv
<1>2. CASE UNCHANGED <<pendingTools, batch, toolCounter, entries, unanswered>>
  BY <1>2 DEF FeedInv
<1>3. ASSUME NEW t \in ToolNames, ToolCall(t)
      PROVE  InStep(pendingTools', batch', toolCounter') /\ Own(entries')
  <2> DEFINE id == toolCounter + 1
             new == Entry(id, t, "running", NoResult)
  <2>1. InStep(pendingTools, batch, toolCounter) /\ Own(entries)
    BY <1>3 DEF ToolCall, FeedInv
  <2>2. InStep(pendingTools', batch', toolCounter')
    BY <1>1, <1>3, <2>1, AppendKeepsStep DEF ToolCall
  <2>3. new \in EntryType /\ new.result = NoResult
    BY <1>1 DEF Entry, EntryType, NoResult, FeedTypes
  <2>4. entries' = Ring(entries, new, ToolLimit)
    BY <1>3 DEF ToolCall
  <2> HIDE DEF new
  <2>5. Own(entries')
    BY <1>1, <2>1, <2>3, <2>4, RingKeeps, FeedAssumption DEF FeedTypes
  <2> QED
    BY <2>2, <2>5
<1>4. ASSUME NEW ok \in BOOLEAN, ToolResult(ok)
      PROVE  InStep(pendingTools', batch', toolCounter') /\ Own(entries')
  <2> DEFINE t == Head(batch).tool  e == Head(batch).entry
  <2>1. /\ InStep(pendingTools, batch, toolCounter) /\ Own(entries)
        /\ batch # <<>> /\ batch' = Tail(batch)
    BY <1>4 DEF ToolResult, FeedInv
  <2>2. t \in ToolNames /\ e \in Nat
    BY <1>1, <2>1, BatchFields
  <2>3. pendingTools[t] # <<>> /\ Head(pendingTools[t]) = e
    BY <1>1, <2>1, <2>2, OldestIsFirst
  <2>4. /\ toolCounter' = toolCounter
        /\ pendingTools' = [pendingTools EXCEPT ![t] = Tail(@)]
        /\ entries' = Finished(entries, e, ok, e)
    BY <1>4, <2>3 DEF ToolResult, Shift
  <2>5. InStep(pendingTools', batch', toolCounter')
    BY <1>1, <2>1, <2>2, <2>4, TailKeepsStep
  <2>6. Own(entries')
    BY <1>1, <2>1, <2>2, <2>4, FinishedKeeps DEF FeedTypes
  <2> QED
    BY <2>5, <2>6
<1>5. CASE ResetFeed
  BY <1>5, NothingYet DEF ResetFeed
<1>6. ASSUME NEW ok \in BOOLEAN, StreamEnds(ok) \/ StreamFails(ok)
      PROVE  InStep(pendingTools', batch', toolCounter') /\ Own(entries')
  BY <1>2, <1>6 DEF StreamEnds, StreamFails
<1>7. CASE RefuseCall \/ NextRound \/ UNCHANGED feedVars
  BY <1>2, <1>7 DEF RefuseCall, NextRound, feedVars
<1> QED
  BY <1>3, <1>4, <1>5, <1>6, <1>7 DEF FeedNext

(* What is shown stays where it belongs: each result is shown at its call,  *)
(* as long as every call is answered, and the row a reader has scrolled to *)
(* the top stays there while rows come below it or go above it, however    *)
(* many calls and rows there are.                                          *)
THEOREM ShownStaysInPlace == Spec => []ShownInPlace
<1>1. Init => FeedInv /\ ScrollInv
  BY FeedInvInit, ScrollInvInit DEF Init
<1>2. FeedInv /\ ScrollInv /\ [Next]_terminal => (FeedInv /\ ScrollInv)'
  <2>1. [Next]_terminal => [FeedNext]_feedVars /\ [ScrollNext \/ DialogNext]_screenVars
    BY DEF Next, terminal, PromptStep, FeedStep, DraftStep, MouseStep, ScreenStep
  <2> QED
    BY <2>1, FeedInvNext, ScrollInvNext
<1>3. FeedInv /\ ScrollInv => ShownInPlace
  BY DEF FeedInv, ScrollInv, ShownInPlace, ResultsAtTheirCalls, Own
<1> QED
  BY <1>1, <1>2, <1>3, PTL DEF Spec

----------------------------------------------------------------------------
(* Texts that are joined.  A draft is expanded piece by piece, and         *)
(* FlattenSeq, which joins the pieces, is defined by recursion: the        *)
(* function it recurses to is shown to exist first, and then that the      *)
(* pieces of two texts join to what the texts are expanded to.             *)

(* A set of natural numbers that has a member has a least one.             *)
LEMMA LeastExists ==
  ASSUME NEW S \in SUBSET Nat, S # {}
  PROVE  \E x \in S : \A y \in S : x <= y
<1> DEFINE below == {p \in Nat \X Nat : p[1] < p[2]}
<1>1. IsWellFoundedOn(below, Nat)
  BY NatLessThanWellFounded, Zenon DEF OpToRel
<1>2. \A x, y \in Nat : y < x => <<y, x>> \in below
  OBVIOUS
<1> HIDE DEF below
<1>3. \E x \in S : \A y \in S : ~ (<<y, x>> \in below)
  BY <1>1, WFMin
<1>4. PICK x \in S : \A y \in S : ~ (<<y, x>> \in below)
  BY <1>3
<1>5. \A y \in S : ~ (y < x)
  BY <1>2, <1>4
<1> QED
  BY <1>4, <1>5

(* The function that a recursion over 0..n defines.                        *)
Unfolds(g, n, a, F) == g = [i \in 0..n |-> IF i = 0 THEN a ELSE F[i][g[i - 1]]]

(* A function on 0..n that is defined by what it is at 0 and by a step.    *)
LEMMA RecursionExists ==
  ASSUME NEW n \in Nat, NEW S, NEW a \in S, NEW F \in [1..n -> [S -> S]]
  PROVE  \E g \in [0..n -> S] : Unfolds(g, n, a, F)
<1> DEFINE Is(g, k) == g = [i \in 0..k |-> IF i = 0 THEN a ELSE F[i][g[i - 1]]]
           without == {k \in 0..n : ~ \E g \in [0..k -> S] : Is(g, k)}
<1>1. SUFFICES ASSUME without # {} PROVE FALSE
  <2>1. n \notin without => \E g \in [0..n -> S] : Is(g, n)
    OBVIOUS
  <2> HIDE DEF without
  <2> QED
    BY <2>1 DEF Unfolds
<1>5. without \in SUBSET Nat /\ without \subseteq 0..n
  OBVIOUS
<1>6. \A k \in 0..n : k \notin without => \E g \in [0..k -> S] : Is(g, k)
  OBVIOUS
<1>7. \A k \in without : ~ \E g \in [0..k -> S] : Is(g, k)
  OBVIOUS
<1> HIDE DEF without
<1>2. PICK k \in without : \A j \in without : k <= j
  BY <1>1, <1>5, LeastExists
<1>3. CASE k = 0
  <2> DEFINE g == [i \in 0..0 |-> a]
  <2>1. g \in [0..0 -> S] /\ Is(g, 0)
    OBVIOUS
  <2> QED
    BY <1>2, <1>3, <1>7, <2>1
<1>4. CASE k # 0
  <2>1. k - 1 \in 0..n /\ k \in 1..n /\ k - 1 \notin without
    BY <1>2, <1>4, <1>5
  <2>2. PICK h \in [0..(k - 1) -> S] : Is(h, k - 1)
    BY <1>6, <2>1
  <2> DEFINE g == [i \in 0..k |-> IF i = k THEN F[k][h[k - 1]] ELSE h[i]]
  <2>3. g \in [0..k -> S]
    BY <2>1
  <2>4. Is(g, k)
    <3>1. ASSUME NEW i \in 0..k
          PROVE  g[i] = IF i = 0 THEN a ELSE F[i][g[i - 1]]
      <4>1. CASE i = 0
        BY <2>1, <2>2, <4>1
      <4>2. CASE i = k
        BY <2>1, <4>2
      <4>3. CASE i # 0 /\ i # k
        <5>1. i \in 0..(k - 1) /\ i - 1 \in 0..(k - 1) /\ i - 1 # k
          BY <2>1, <4>3
        <5>2. g[i] = h[i] /\ g[i - 1] = h[i - 1]
          BY <2>1, <4>3, <5>1
        <5>3. h[i] = IF i = 0 THEN a ELSE F[i][h[i - 1]]
          BY <2>2, <5>1
        <5> QED
          BY <4>3, <5>2, <5>3
      <4> QED
        BY <4>1, <4>2, <4>3
    <3> QED
      BY <3>1
  <2> QED
    BY <1>2, <1>7, <2>3, <2>4
<1> QED
  BY <1>3, <1>4

(* FlattenSeq, step by step.                                               *)
Flattens(parts, g) == g[0] = <<>> /\ \A i \in DOMAIN parts : g[i] = g[i - 1] \o parts[i]

(* FlattenSeq joins the pieces from left to right.                         *)
LEMMA FlattenUnfolds ==
  ASSUME NEW S, NEW parts \in Seq(Seq(S))
  PROVE  \E g \in [0..Len(parts) -> Seq(S)] :
           Flattens(parts, g) /\ FlattenSeq(parts) = g[Len(parts)]
<1> DEFINE n == Len(parts)
           F == [i \in 1..n |-> [s \in Seq(S) |-> s \o parts[i]]]
           Is(f) == f = [i \in 1..n |-> IF i = 1 THEN parts[i] ELSE f[i - 1] \o parts[i]]
<1>1. n \in Nat /\ DOMAIN parts = 1..n /\ \A i \in 1..n : parts[i] \in Seq(S)
  OBVIOUS
<1>2. <<>> \in Seq(S) /\ \A s, t \in Seq(S) : s \o t \in Seq(S) /\ <<>> \o s = s
  BY EmptySeq, ConcatProperties, ConcatEmptySeq
<1>3. F \in [1..n -> [Seq(S) -> Seq(S)]]
  BY <1>1, <1>2
<1>4. \A i \in 1..n, s \in Seq(S) : F[i][s] = s \o parts[i]
  BY <1>3
<1> HIDE DEF F, n
<1>5. PICK h \in [0..n -> Seq(S)] : Unfolds(h, n, <<>>, F)
  BY <1>1, <1>2, <1>3, RecursionExists
<1>6. h[0] = <<>> /\ \A i \in 1..n : h[i - 1] \in Seq(S) /\ h[i] = h[i - 1] \o parts[i]
  <2>1. h = [i \in 0..n |-> IF i = 0 THEN <<>> ELSE F[i][h[i - 1]]]
    BY <1>5 DEF Unfolds
  <2>2. h[0] = <<>>
    BY <2>1, <1>1
  <2>3. ASSUME NEW i \in 1..n PROVE h[i - 1] \in Seq(S) /\ h[i] = h[i - 1] \o parts[i]
    <3>1. i \in 0..n /\ i # 0 /\ i - 1 \in 0..n
      BY <1>1
    <3>2. h[i] = F[i][h[i - 1]] /\ h[i - 1] \in Seq(S)
      BY <2>1, <3>1, <1>5
    <3> QED
      BY <3>2, <1>4
  <2> QED
    BY <2>2, <2>3
<1>7. Flattens(parts, h)
  BY <1>1, <1>6 DEF Flattens
<1>8. n # 0 => h[1] = parts[1]
  <2>1. n # 0 => 1 \in 1..n /\ 1 - 1 = 0
    BY <1>1
  <2>2. n # 0 => h[1] = h[0] \o parts[1] /\ parts[1] \in Seq(S)
    BY <1>1, <1>6, <2>1
  <2> QED
    BY <1>2, <1>6, <2>2
<1>9. CASE n = 0
  <2>1. FlattenSeq(parts) = parts /\ parts = <<>>
    BY <1>9 DEF FlattenSeq, n
  <2> QED
    BY <1>5, <1>6, <1>7, <1>9, <2>1 DEF n
<1>10. CASE n # 0
  <2> DEFINE f == CHOOSE f : Is(f)
  <2>1. \E e : Is(e)
    <3> DEFINE e == [i \in 1..n |-> h[i]]
    <3>1. ASSUME NEW i \in 1..n PROVE e[i] = IF i = 1 THEN parts[i] ELSE e[i - 1] \o parts[i]
      <4>1. CASE i = 1
        BY <1>10, <1>8, <4>1
      <4>2. CASE i # 1
        <5>1. i - 1 \in 1..n
          BY <1>1, <4>2
        <5> QED
          BY <1>6, <4>2, <5>1
      <4> QED
        BY <4>1, <4>2
    <3>2. Is(e)
      BY <3>1
    <3> QED
      BY <3>2
  <2>2. Is(f)
    BY <2>1
  <2>3. FlattenSeq(parts) = f[n]
    BY <1>10 DEF FlattenSeq, n
  <2> HIDE DEF f
  <2> DEFINE off == {i \in 1..n : f[i] # h[i]}
  <2>4. off = {}
    <3> SUFFICES ASSUME off # {} PROVE FALSE
      OBVIOUS
    <3>1. off \in SUBSET Nat
      BY <1>1
    <3> HIDE DEF off
    <3>2. PICK i \in off : \A j \in off : i <= j
      BY <3>1, LeastExists
    <3>3. i \in 1..n /\ f[i] # h[i]
      BY <3>2 DEF off
    <3>4. f[i] = IF i = 1 THEN parts[i] ELSE f[i - 1] \o parts[i]
      BY <2>2, <3>3
    <3>5. CASE i = 1
      BY <1>10, <1>8, <3>3, <3>4, <3>5
    <3>6. CASE i # 1
      <4>1. i - 1 \in 1..n /\ i - 1 \notin off
        BY <1>1, <3>2, <3>3, <3>6
      <4>2. f[i - 1] = h[i - 1]
        BY <4>1 DEF off
      <4> QED
        BY <1>6, <3>3, <3>4, <3>6, <4>2
    <3> QED
      BY <3>5, <3>6
  <2>5. n \in 1..n
    BY <1>1, <1>10
  <2>6. f[n] = h[n]
    BY <2>4, <2>5
  <2> QED
    BY <1>5, <1>7, <2>3, <2>6 DEF n
<1> QED
  BY <1>9, <1>10

(* What is joined, is joined part by part.                                 *)
LEMMA FlattenJoins ==
  ASSUME NEW S, NEW a \in Seq(Seq(S)), NEW b \in Seq(Seq(S))
  PROVE  /\ FlattenSeq(a) \in Seq(S) /\ FlattenSeq(b) \in Seq(S)
         /\ FlattenSeq(a \o b) = FlattenSeq(a) \o FlattenSeq(b)
<1>1. /\ a \o b \in Seq(Seq(S)) /\ Len(a \o b) = Len(a) + Len(b)
      /\ Len(a) \in Nat /\ Len(b) \in Nat
      /\ DOMAIN a = 1..Len(a) /\ DOMAIN b = 1..Len(b) /\ DOMAIN (a \o b) = 1..(Len(a) + Len(b))
      /\ \A i \in 1..Len(a) : (a \o b)[i] = a[i]
      /\ \A i \in 1..Len(b) : (a \o b)[Len(a) + i] = b[i]
      /\ \A i \in 1..Len(b) : b[i] \in Seq(S)
  <2>1. a \o b \in Seq(Seq(S)) /\ Len(a \o b) = Len(a) + Len(b)
    BY ConcatProperties
  <2> QED
    BY <2>1
<1> DEFINE c == a \o b
           m == Len(a)
           k == Len(b)
<1> HIDE DEF c, m, k
<1>2. PICK g \in [0..m -> Seq(S)] : Flattens(a, g) /\ FlattenSeq(a) = g[m]
  BY FlattenUnfolds DEF m
<1>3. PICK h \in [0..k -> Seq(S)] : Flattens(b, h) /\ FlattenSeq(b) = h[k]
  BY FlattenUnfolds DEF k
<1>4. PICK e \in [0..(m + k) -> Seq(S)] : Flattens(c, e) /\ FlattenSeq(c) = e[m + k]
  <2>1. c \in Seq(Seq(S)) /\ Len(c) = m + k
    BY <1>1 DEF c, m, k
  <2>2. \E e \in [0..Len(c) -> Seq(S)] : Flattens(c, e) /\ FlattenSeq(c) = e[Len(c)]
    BY <2>1, FlattenUnfolds
  <2> QED
    BY <2>1, <2>2
<1>5. /\ m \in Nat /\ k \in Nat /\ DOMAIN a = 1..m /\ DOMAIN b = 1..k /\ DOMAIN c = 1..(m + k)
      /\ \A i \in 1..m : c[i] = a[i]
      /\ \A i \in 1..k : c[m + i] = b[i] /\ b[i] \in Seq(S)
  BY <1>1 DEF c, m, k
<1>6. \A i \in 0..m : e[i] = g[i]
  <2> DEFINE off == {i \in 0..m : e[i] # g[i]}
  <2> SUFFICES ASSUME off # {} PROVE FALSE
    OBVIOUS
  <2>1. off \in SUBSET Nat
    BY <1>5
  <2> HIDE DEF off
  <2>2. PICK i \in off : \A j \in off : i <= j
    BY <2>1, LeastExists
  <2>3. i \in 0..m /\ e[i] # g[i]
    BY <2>2 DEF off
  <2>4. i # 0
    BY <2>3, <1>2, <1>4 DEF Flattens
  <2>5. i \in 1..m /\ i \in 1..(m + k) /\ i - 1 \in 0..m /\ i - 1 \notin off
    BY <1>5, <2>2, <2>3, <2>4
  <2>6. e[i - 1] = g[i - 1]
    BY <2>5 DEF off
  <2>7. e[i] = e[i - 1] \o c[i] /\ g[i] = g[i - 1] \o a[i] /\ c[i] = a[i]
    BY <1>2, <1>4, <1>5, <2>5 DEF Flattens
  <2> QED
    BY <2>3, <2>6, <2>7
<1>7. \A i \in 0..k : e[m + i] = g[m] \o h[i]
  <2> DEFINE off == {i \in 0..k : e[m + i] # g[m] \o h[i]}
  <2> SUFFICES ASSUME off # {} PROVE FALSE
    OBVIOUS
  <2>1. off \in SUBSET Nat
    BY <1>5
  <2> HIDE DEF off
  <2>2. PICK i \in off : \A j \in off : i <= j
    BY <2>1, LeastExists
  <2>3. i \in 0..k /\ e[m + i] # g[m] \o h[i]
    BY <2>2 DEF off
  <2>4. g[m] \in Seq(S) /\ h[0] = <<>> /\ e[m] = g[m] /\ m + 0 = m
    BY <1>2, <1>3, <1>5, <1>6 DEF Flattens
  <2>5. i # 0
    BY <2>3, <2>4, ConcatEmptySeq
  <2>6. i \in 1..k /\ m + i \in 1..(m + k) /\ i - 1 \in 0..k /\ i - 1 \notin off /\ (m + i) - 1 = m + (i - 1)
    BY <1>5, <2>2, <2>3, <2>5
  <2>7. e[m + (i - 1)] = g[m] \o h[i - 1]
    BY <2>6 DEF off
  <2>8. e[m + i] = e[(m + i) - 1] \o c[m + i] /\ h[i] = h[i - 1] \o b[i] /\ c[m + i] = b[i]
    BY <1>3, <1>4, <1>5, <2>6 DEF Flattens
  <2>9. h[i - 1] \in Seq(S) /\ b[i] \in Seq(S)
    BY <1>3, <1>5, <2>6
  <2>10. (g[m] \o h[i - 1]) \o b[i] = g[m] \o (h[i - 1] \o b[i])
    <3> DEFINE x == g[m]
               y == h[i - 1]
               z == b[i]
    <3>1. x \in Seq(S) /\ y \in Seq(S) /\ z \in Seq(S)
      BY <2>4, <2>9
    <3> HIDE DEF x, y, z
    <3>2. (x \o y) \o z = x \o (y \o z)
      BY <3>1, ConcatAssociative
    <3> QED
      BY <3>2 DEF x, y, z
  <2> QED
    BY <2>3, <2>6, <2>7, <2>8, <2>10
<1>8. k \in 0..k /\ m \in 0..m
  BY <1>5
<1> QED
  BY <1>2, <1>3, <1>4, <1>7, <1>8 DEF c

(* One piece makes up itself.                                              *)
LEMMA FlattenOne ==
  ASSUME NEW S, NEW p \in Seq(S)
  PROVE  <<p>> \in Seq(Seq(S)) /\ FlattenSeq(<<p>>) = p
<1>1. <<p>> \in Seq(Seq(S)) /\ Len(<<p>>) = 1 /\ DOMAIN <<p>> = {1} /\ <<p>>[1] = p
  OBVIOUS
<1>2. PICK g \in [0..1 -> Seq(S)] : Flattens(<<p>>, g) /\ FlattenSeq(<<p>>) = g[1]
  <2>1. \E g \in [0..Len(<<p>>) -> Seq(S)] : Flattens(<<p>>, g) /\ FlattenSeq(<<p>>) = g[Len(<<p>>)]
    BY <1>1, FlattenUnfolds
  <2> QED
    BY <1>1, <2>1
<1>3. g[1] = <<>> \o p
  <2>1. g[0] = <<>> /\ g[1] = g[1 - 1] \o <<p>>[1]
    BY <1>1, <1>2 DEF Flattens
  <2> QED
    BY <1>1, <2>1
<1> QED
  BY <1>1, <1>2, <1>3, ConcatEmptySeq

----------------------------------------------------------------------------
(* The placeholders of a draft.  When a text is joined to another and no   *)
(* placeholder is made up between them, each is expanded as it was.        *)

(* What a set of numbers holds that has a bound.                           *)
LEMMA GreatestExists ==
  ASSUME NEW n \in Nat, NEW S \in SUBSET (1..n), S # {}
  PROVE  \E x \in S : \A y \in S : y <= x
<1> DEFINE T == {n - x : x \in S}
<1>0. \A x \in S : n - x \in Nat /\ x \in Nat
  OBVIOUS
<1>1. T \in SUBSET Nat /\ T # {}
  <2>1. T \subseteq Nat
    BY <1>0
  <2>2. PICK x \in S : TRUE
    OBVIOUS
  <2>3. n - x \in T
    BY <2>2
  <2> QED
    BY <2>1, <2>3
<1> HIDE DEF T
<1>2. PICK t \in T : \A u \in T : t <= u
  BY <1>1, LeastExists
<1>3. PICK x \in S : t = n - x
  BY <1>2 DEF T
<1>4. \A y \in S : n - y \in T
  BY DEF T
<1>5. \A y \in S : t <= n - y
  BY <1>2, <1>4
<1> QED
  BY <1>0, <1>3, <1>5

(* One character for every place.                                          *)
LEMMA FlattenSingles ==
  ASSUME NEW S, NEW s \in Seq(S)
  PROVE  /\ [i \in DOMAIN s |-> <<s[i]>>] \in Seq(Seq(S))
         /\ FlattenSeq([i \in DOMAIN s |-> <<s[i]>>]) = s
<1> DEFINE parts == [i \in DOMAIN s |-> <<s[i]>>]
           n == Len(s)
<1>1. n \in Nat /\ DOMAIN s = 1..n /\ \A i \in 1..n : s[i] \in S
  OBVIOUS
<1>2. parts \in Seq(Seq(S)) /\ Len(parts) = n /\ DOMAIN parts = 1..n
      /\ \A i \in 1..n : parts[i] = <<s[i]>>
  BY <1>1
<1> HIDE DEF parts, n
<1>3. PICK g \in [0..n -> Seq(S)] : Flattens(parts, g) /\ FlattenSeq(parts) = g[n]
  <2>1. \E g \in [0..Len(parts) -> Seq(S)] : Flattens(parts, g) /\ FlattenSeq(parts) = g[Len(parts)]
    BY <1>2, FlattenUnfolds
  <2> QED
    BY <1>2, <2>1
<1> DEFINE off == {i \in 0..n : g[i] # SubSeq(s, 1, i)}
<1>4. off = {}
  <2> SUFFICES ASSUME off # {} PROVE FALSE
    OBVIOUS
  <2>1. off \in SUBSET Nat
    BY <1>1
  <2> HIDE DEF off
  <2>2. PICK i \in off : \A j \in off : i <= j
    BY <2>1, LeastExists
  <2>3. i \in 0..n /\ g[i] # SubSeq(s, 1, i)
    BY <2>2 DEF off
  <2>4. i # 0
    <3>1. SubSeq(s, 1, 0) = <<>> /\ g[0] = <<>>
      BY <1>3, SubSeqEmpty DEF Flattens
    <3> QED
      BY <2>3, <3>1
  <2>5. i \in 1..n /\ i - 1 \in 0..n /\ i - 1 \notin off
    BY <1>1, <2>2, <2>3, <2>4
  <2>6. g[i - 1] = SubSeq(s, 1, i - 1)
    BY <2>5 DEF off
  <2>7. g[i] = g[i - 1] \o <<s[i]>>
    BY <1>2, <1>3, <2>5 DEF Flattens
  <2>8. SubSeq(s, 1, i) = SubSeq(s, 1, i - 1) \o <<s[i]>>
    <3>1. 1 \in 1..Len(s) /\ i \in 1..Len(s)
      BY <1>1, <2>5 DEF n
    <3> QED
      BY <3>1, SubSeqRecursiveSecond
  <2> QED
    BY <2>3, <2>6, <2>7, <2>8
<1>5. n \in 0..n
  BY <1>1
<1>6. g[n] = SubSeq(s, 1, n)
  BY <1>4, <1>5
<1>7. SubSeq(s, 1, Len(s)) = s
  BY SubSeqFull
<1> QED
  BY <1>2, <1>3, <1>6, <1>7 DEF n, parts

----------------------------------------------------------------------------
(* The draft.                                                              *)
Block == [id : 1..9, text : Seq(Characters)]

(* The placeholders of a text are its places of that kind.                 *)
LEMMA TokensAre ==
  ASSUME NEW s \in Seq(Characters)
  PROVE  /\ \A t \in Tokens(s) :
              /\ t = <<t[1], t[2]>> /\ t[1] \in 1..Len(s) /\ t[2] \in 1..(Len(s) + 1)
              /\ TokenAt(s, t[1], t[2]) /\ t[1] + 2 < t[2]
         /\ \A i \in 1..Len(s), j \in Nat : TokenAt(s, i, j) => <<i, j>> \in Tokens(s)
<1>1. DOMAIN s = 1..Len(s) /\ Len(s) \in Nat
  OBVIOUS
<1>2. \A t \in Tokens(s) : t \in (1..Len(s)) \X (1..(Len(s) + 1)) /\ TokenAt(s, t[1], t[2])
  BY <1>1 DEF Tokens
<1>3. \A i \in 1..Len(s), j \in Nat : TokenAt(s, i, j) => j \in 1..(Len(s) + 1)
  BY <1>1 DEF TokenAt
<1>4. \A i \in 1..Len(s), j \in Nat : TokenAt(s, i, j) => <<i, j>> \in Tokens(s)
  BY <1>1, <1>3 DEF Tokens
<1>5. ASSUME NEW t \in Tokens(s)
      PROVE  /\ t = <<t[1], t[2]>> /\ t[1] \in 1..Len(s) /\ t[2] \in 1..(Len(s) + 1)
             /\ TokenAt(s, t[1], t[2]) /\ t[1] + 2 < t[2]
  BY <1>2 DEF TokenAt
<1> QED
  BY <1>4, <1>5

(* The other characters of a placeholder, and those of a command, are no   *)
(* digits.                                                                 *)
LEMMA NoDigits == ~IsDigit("P") /\ ~IsDigit("#") /\ ~IsDigit("/") /\ ~IsDigit("c")
BY DEF IsDigit, Digits

(* Each number of a block has a digit of its own.                          *)
LEMMA DigitsDiffer ==
  /\ \A i, j \in 1..9 : Digits[i] = Digits[j] => i = j
  /\ \A i \in 1..9 : IsDigit(Digits[i]) /\ Digits[i] \in Characters
BY DEF Digits, IsDigit, Characters

(* Two placeholders that begin at one place are the same.                  *)
LEMMA OneTokenAt ==
  ASSUME NEW s \in Seq(Characters), NEW t \in Tokens(s), NEW u \in Tokens(s), t[1] = u[1]
  PROVE  t = u
<1>1. /\ t = <<t[1], t[2]>> /\ u = <<u[1], u[2]>> /\ t[1] \in 1..Len(s)
      /\ t[2] \in 1..(Len(s) + 1) /\ u[2] \in 1..(Len(s) + 1) /\ Len(s) \in Nat
      /\ TokenAt(s, t[1], t[2]) /\ TokenAt(s, u[1], u[2])
  BY TokensAre
<1>2. ~ (t[2] < u[2])
  BY <1>1 DEF TokenAt
<1>3. ~ (u[2] < t[2])
  BY <1>1 DEF TokenAt
<1> QED
  BY <1>1, <1>2, <1>3

(* What is put in the place of one character of a draft.                   *)
LEMMA TextOfType ==
  ASSUME NEW blocks \in Seq(Block), NEW number
  PROVE  TextOf(number, blocks) \in Seq(Characters)
<1> DEFINE of == {b \in DOMAIN blocks : number = <<Digits[blocks[b].id]>>}
<1>1. CASE of = {}
  BY <1>1, EmptySeq DEF TextOf
<1>2. CASE of # {}
  <2>1. of \in SUBSET (1..Len(blocks)) /\ Len(blocks) \in Nat
    OBVIOUS
  <2>2. TextOf(number, blocks) = blocks[CHOOSE b \in of : \A c \in of : c <= b].text
    BY <1>2 DEF TextOf
  <2> HIDE DEF of
  <2>3. \E b \in of : \A c \in of : c <= b
    BY <1>2, <2>1, GreatestExists
  <2>4. PICK b \in of : TextOf(number, blocks) = blocks[b].text
    BY <2>2, <2>3
  <2>5. blocks[b] \in Block
    BY <2>1, <2>4
  <2> QED
    BY <2>4, <2>5 DEF Block
<1> QED
  BY <1>1, <1>2

(* What a place is replaced by is a text.                                  *)
LEMMA ReplacedType ==
  ASSUME NEW s \in Seq(Characters), NEW blocks \in Seq(Block), NEW tokens, NEW i \in 1..Len(s)
  PROVE  Replaced(s, tokens, blocks, i) \in Seq(Characters)
<1>1. <<>> \in Seq(Characters) /\ <<s[i]>> \in Seq(Characters)
  BY EmptySeq
<1>2. \A number : TextOf(number, blocks) \in Seq(Characters)
  BY TextOfType
<1> QED
  BY <1>1, <1>2 DEF Replaced

(* The pieces a draft is expanded to, one for each of its characters.      *)
Parts(s, blocks) == [i \in DOMAIN s |-> Replaced(s, Tokens(s), blocks, i)]

(* What is expanded is made up of these pieces.                            *)
LEMMA PartsAre ==
  ASSUME NEW s \in Seq(Characters), NEW blocks \in Seq(Block)
  PROVE  /\ Parts(s, blocks) \in Seq(Seq(Characters)) /\ Len(Parts(s, blocks)) = Len(s)
         /\ DOMAIN Parts(s, blocks) = 1..Len(s)
         /\ \A i \in 1..Len(s) : Parts(s, blocks)[i] = Replaced(s, Tokens(s), blocks, i)
         /\ Expand(s, blocks) = FlattenSeq(Parts(s, blocks))
<1>1. DOMAIN s = 1..Len(s) /\ Len(s) \in Nat
  OBVIOUS
<1>2. \A i \in 1..Len(s) : Replaced(s, Tokens(s), blocks, i) \in Seq(Characters)
  BY ReplacedType
<1>3. Parts(s, blocks) \in [1..Len(s) -> Seq(Characters)]
  BY <1>1, <1>2 DEF Parts
<1>4. Parts(s, blocks) \in Seq(Seq(Characters)) /\ Len(Parts(s, blocks)) = Len(s)
  BY <1>1, <1>3
<1>5. Expand(s, blocks) = FlattenSeq(Parts(s, blocks))
  BY DEF Expand, Parts
<1> QED
  BY <1>1, <1>3, <1>4, <1>5 DEF Parts

(* A place k further on in a longer draft, whose placeholders moved with    *)
(* it, is replaced by the same.                                            *)
SamePlace(s, v, k, i, blocks, more) ==
  /\ \A t \in Tokens(s) : t[1] <= i /\ i < t[2] =>
       /\ <<t[1] + k, t[2] + k>> \in Tokens(v)
       /\ \A j \in i..(t[2] - 1) : v[j + k] = s[j]
       /\ t[1] = i => TextOf(SubSeq(s, i + 2, t[2] - 1), blocks) = TextOf(SubSeq(s, i + 2, t[2] - 1), more)
  /\ \A t \in Tokens(v) : t[1] <= i + k /\ i + k < t[2] => <<t[1] - k, t[2] - k>> \in Tokens(s)

(* A place of a text and the same place of another are replaced alike.     *)
LEMMA SameReplaced ==
  ASSUME NEW s \in Seq(Characters), NEW v \in Seq(Characters), NEW k \in Nat,
         NEW i \in 1..Len(s), i + k \in 1..Len(v), v[i + k] = s[i],
         NEW blocks, NEW more, SamePlace(s, v, k, i, blocks, more)
  PROVE  Replaced(v, Tokens(v), more, i + k) = Replaced(s, Tokens(s), blocks, i)
<1>0. /\ \A t \in Tokens(s) : t[1] <= i /\ i < t[2] =>
           /\ <<t[1] + k, t[2] + k>> \in Tokens(v)
           /\ \A j \in i..(t[2] - 1) : v[j + k] = s[j]
           /\ t[1] = i => TextOf(SubSeq(s, i + 2, t[2] - 1), blocks) = TextOf(SubSeq(s, i + 2, t[2] - 1), more)
      /\ \A t \in Tokens(v) : t[1] <= i + k /\ i + k < t[2] => <<t[1] - k, t[2] - k>> \in Tokens(s)
  BY DEF SamePlace
<1>1. \A t \in Tokens(s) : t[1] \in 1..Len(s) /\ t[2] \in 1..(Len(s) + 1) /\ t[1] + 2 < t[2]
  BY TokensAre
<1>2. \A t \in Tokens(v) : t[1] \in 1..Len(v) /\ t[2] \in 1..(Len(v) + 1) /\ t[1] + 2 < t[2]
  BY TokensAre
<1>3. Len(s) \in Nat /\ Len(v) \in Nat
  OBVIOUS
<1>4. CASE \E t \in Tokens(s) : t[1] = i
  <2>1. PICK t \in Tokens(s) : t[1] = i
    BY <1>4
  <2>2. t[1] <= i /\ i < t[2] /\ t[2] \in Nat
    BY <1>1, <1>3, <2>1
  <2> DEFINE u == <<t[1] + k, t[2] + k>>
  <2>3. u \in Tokens(v) /\ u[1] = i + k /\ u[2] = t[2] + k
    BY <1>0, <2>1, <2>2
  <2> HIDE DEF u
  <2>4. \A x \in Tokens(s) : x[1] = i => x = t
    BY <2>1, OneTokenAt
  <2>5. \A x \in Tokens(v) : x[1] = i + k => x = u
    BY <2>3, OneTokenAt
  <2>6. (CHOOSE x \in Tokens(s) : x[1] = i) = t
    BY <2>1, <2>4
  <2>7. (CHOOSE x \in Tokens(v) : x[1] = i + k) = u
    BY <2>3, <2>5
  <2>8. SubSeq(v, i + k + 2, u[2] - 1) = SubSeq(s, i + 2, t[2] - 1)
    <3>1. \A j \in i..(t[2] - 1) : v[j + k] = s[j]
      BY <1>0, <2>1, <2>2
    <3>2. i + k + 2 \in Int /\ u[2] - 1 \in Int /\ i + 2 \in Int /\ t[2] - 1 \in Int
          /\ t[2] - 1 <= Len(s) /\ u[2] - 1 <= Len(v)
      <4>1. t[2] \in 1..(Len(s) + 1)
        BY <1>1, <2>1
      <4>2. u[2] \in 1..(Len(v) + 1)
        BY <1>2, <2>3
      <4>3. t[2] - 1 \in Int /\ t[2] - 1 <= Len(s)
        BY <1>3, <4>1
      <4>4. u[2] - 1 \in Int /\ u[2] - 1 <= Len(v)
        BY <1>3, <4>2
      <4>5. i + k + 2 \in Int /\ i + 2 \in Int
        OBVIOUS
      <4> QED
        BY <4>3, <4>4, <4>5
    <3>3. \A j \in (i + 2)..(t[2] - 1) : s[j] \in Characters
      BY <3>2
    <3>4. \A j \in (i + k + 2)..(u[2] - 1) : v[j] \in Characters
      BY <3>2
    <3>5. /\ SubSeq(s, i + 2, t[2] - 1) \in Seq(Characters)
          /\ Len(SubSeq(s, i + 2, t[2] - 1)) = IF i + 2 <= t[2] - 1 THEN (t[2] - 1) - (i + 2) + 1 ELSE 0
          /\ \A j \in 1..((t[2] - 1) - (i + 2) + 1) : SubSeq(s, i + 2, t[2] - 1)[j] = s[(i + 2) + j - 1]
      BY <3>2, <3>3, SubSeqProperties
    <3>6. /\ SubSeq(v, i + k + 2, u[2] - 1) \in Seq(Characters)
          /\ Len(SubSeq(v, i + k + 2, u[2] - 1)) =
               IF i + k + 2 <= u[2] - 1 THEN (u[2] - 1) - (i + k + 2) + 1 ELSE 0
          /\ \A j \in 1..((u[2] - 1) - (i + k + 2) + 1) :
               SubSeq(v, i + k + 2, u[2] - 1)[j] = v[(i + k + 2) + j - 1]
      BY <3>2, <3>4, SubSeqProperties
    <3> DEFINE a == SubSeq(v, i + k + 2, u[2] - 1)
               b == SubSeq(s, i + 2, t[2] - 1)
    <3>7. a \in Seq(Characters) /\ b \in Seq(Characters) /\ Len(a) = Len(b)
      <4>1. a \in Seq(Characters) /\ b \in Seq(Characters)
        BY <3>5, <3>6
      <4>2. (i + k + 2 <= u[2] - 1) <=> (i + 2 <= t[2] - 1)
        BY <2>2, <2>3
      <4>3. (u[2] - 1) - (i + k + 2) + 1 = (t[2] - 1) - (i + 2) + 1
        BY <2>2, <2>3
      <4>4. Len(a) = IF i + k + 2 <= u[2] - 1 THEN (u[2] - 1) - (i + k + 2) + 1 ELSE 0
        BY <3>6
      <4>5. Len(b) = IF i + 2 <= t[2] - 1 THEN (t[2] - 1) - (i + 2) + 1 ELSE 0
        BY <3>5
      <4> HIDE DEF a, b
      <4> QED
        BY <4>1, <4>2, <4>3, <4>4, <4>5
    <3>8. ASSUME NEW j \in 1..Len(a) PROVE a[j] = b[j]
      <4>1. j \in 1..((t[2] - 1) - (i + 2) + 1) /\ j \in 1..((u[2] - 1) - (i + k + 2) + 1)
        BY <2>2, <2>3, <3>5, <3>6, <3>7
      <4>2. (i + 2) + j - 1 \in i..(t[2] - 1) /\ (i + k + 2) + j - 1 = ((i + 2) + j - 1) + k
        BY <2>2, <4>1
      <4> QED
        BY <3>1, <3>5, <3>6, <4>1, <4>2
    <3> HIDE DEF a, b
    <3>9. a = b
      BY <3>7, <3>8, SeqEqual
    <3> QED
      BY <3>9 DEF a, b
  <2>9. Replaced(s, Tokens(s), blocks, i) = TextOf(SubSeq(s, i + 2, t[2] - 1), blocks)
    BY <2>1, <2>6 DEF Replaced
  <2>10. Replaced(v, Tokens(v), more, i + k) = TextOf(SubSeq(v, i + k + 2, u[2] - 1), more)
    BY <2>3, <2>7 DEF Replaced
  <2> QED
    BY <1>0, <2>1, <2>2, <2>8, <2>9, <2>10
<1>5. CASE ~ \E t \in Tokens(s) : t[1] = i
  <2>1. ~ \E t \in Tokens(v) : t[1] = i + k
    <3> SUFFICES ASSUME NEW t \in Tokens(v), t[1] = i + k PROVE FALSE
      OBVIOUS
    <3>1. t[1] <= i + k /\ i + k < t[2] /\ t[1] - k = i
      BY <1>2, <1>3
    <3>2. <<t[1] - k, t[2] - k>> \in Tokens(s)
      BY <1>0, <3>1
    <3> QED
      BY <1>5, <3>1, <3>2
  <2>2. (\E t \in Tokens(s) : t[1] < i /\ i < t[2]) <=> (\E t \in Tokens(v) : t[1] < i + k /\ i + k < t[2])
    <3>1. ASSUME NEW t \in Tokens(s), t[1] < i, i < t[2]
          PROVE  \E u \in Tokens(v) : u[1] < i + k /\ i + k < u[2]
      <4>1. <<t[1] + k, t[2] + k>> \in Tokens(v)
        BY <1>0, <1>1, <1>3, <3>1
      <4>2. t[1] + k < i + k /\ i + k < t[2] + k
        BY <1>1, <1>3, <3>1
      <4> QED
        BY <4>1, <4>2
    <3>2. ASSUME NEW t \in Tokens(v), t[1] < i + k, i + k < t[2]
          PROVE  \E u \in Tokens(s) : u[1] < i /\ i < u[2]
      <4>1. <<t[1] - k, t[2] - k>> \in Tokens(s)
        BY <1>0, <1>2, <1>3, <3>2
      <4>2. t[1] - k < i /\ i < t[2] - k
        BY <1>2, <1>3, <3>2
      <4> QED
        BY <4>1, <4>2
    <3> QED
      BY <3>1, <3>2
  <2> QED
    BY <1>5, <2>1, <2>2 DEF Replaced
<1> QED
  BY <1>4, <1>5

(* The same for a place that has a name.                                   *)
LEMMA SameAt ==
  ASSUME NEW s \in Seq(Characters), NEW v \in Seq(Characters), NEW k \in Nat,
         NEW i \in 1..Len(s), NEW j \in 1..Len(v), j = i + k, v[j] = s[i],
         NEW blocks, NEW more, SamePlace(s, v, k, i, blocks, more)
  PROVE  Replaced(v, Tokens(v), more, j) = Replaced(s, Tokens(s), blocks, i)
<1>1. i + k \in 1..Len(v) /\ v[i + k] = s[i]
  OBVIOUS
<1>2. Replaced(v, Tokens(v), more, i + k) = Replaced(s, Tokens(s), blocks, i)
  BY <1>1, SameReplaced
<1> QED
  BY <1>2

(* Where the places of a sequence come from that was put together.         *)
LEMMA JoinedPlaces ==
  ASSUME NEW S, NEW a \in Seq(S), NEW b \in Seq(S)
  PROVE  /\ a \o b \in Seq(S) /\ Len(a \o b) = Len(a) + Len(b)
         /\ Len(a) \in Nat /\ Len(b) \in Nat
         /\ \A i \in 1..Len(a) : (a \o b)[i] = a[i]
         /\ \A i \in 1..Len(b) : (a \o b)[Len(a) + i] = b[i] /\ (a \o b)[i + Len(a)] = b[i]
OBVIOUS

(* Nothing but digits from one place to another.                           *)
AllDigits(s, low, high) == \A k \in low..high : IsDigit(s[k])

(* What a placeholder looks like.                                          *)
LEMMA TokenIs ==
  ASSUME NEW s, NEW i, NEW j
  PROVE  TokenAt(s, i, j) <=>
           /\ i + 2 < j /\ j <= Len(s) + 1 /\ s[i] = "P" /\ s[i + 1] = "#"
           /\ AllDigits(s, i + 2, j - 1) /\ (j = Len(s) + 1 \/ ~IsDigit(s[j]))
BY DEF TokenAt, AllDigits

(* A placeholder is found by what comes behind its beginning only.         *)
LEMMA JoinedTokens ==
  ASSUME NEW a \in Seq(Characters), NEW b \in Seq(Characters)
  PROVE  /\ \A t \in Tokens(b) : <<t[1] + Len(a), t[2] + Len(a)>> \in Tokens(a \o b)
         /\ \A t \in Tokens(a \o b) :
              t[1] > Len(a) => <<t[1] - Len(a), t[2] - Len(a)>> \in Tokens(b)
<1> DEFINE v == a \o b  n == Len(a)
<1>1. /\ v \in Seq(Characters) /\ Len(v) = n + Len(b) /\ n \in Nat /\ Len(b) \in Nat
      /\ \A i \in 1..Len(b) : v[i + n] = b[i]
  BY JoinedPlaces
<1> HIDE DEF v, n
<1>2. \A i \in 1..Len(b), j \in 1..(Len(b) + 1) : TokenAt(v, i + n, j + n) <=> TokenAt(b, i, j)
  <2> TAKE i \in 1..Len(b), j \in 1..(Len(b) + 1)
  <2>1. i + n + 2 < j + n <=> i + 2 < j
    BY <1>1
  <2>2. j + n <= Len(v) + 1 /\ j <= Len(b) + 1
    BY <1>1
  <2>3. SUFFICES ASSUME i + 2 < j PROVE TokenAt(v, i + n, j + n) <=> TokenAt(b, i, j)
    BY <2>1 DEF TokenAt
  <2>4. v[i + n] = b[i] /\ v[(i + n) + 1] = b[i + 1]
    <3>1. i + 1 \in 1..Len(b) /\ (i + n) + 1 = (i + 1) + n
      BY <1>1, <2>3
    <3> QED
      BY <1>1, <3>1
  <2>5. AllDigits(v, i + n + 2, j + n - 1) <=> AllDigits(b, i + 2, j - 1)
    <3>1. ASSUME \A k \in (i + n + 2)..(j + n - 1) : IsDigit(v[k]), NEW k \in (i + 2)..(j - 1)
          PROVE  IsDigit(b[k])
      <4>1. k + n \in (i + n + 2)..(j + n - 1) /\ k \in 1..Len(b)
        BY <1>1
      <4> QED
        BY <1>1, <3>1, <4>1
    <3>2. ASSUME \A k \in (i + 2)..(j - 1) : IsDigit(b[k]), NEW k \in (i + n + 2)..(j + n - 1)
          PROVE  IsDigit(v[k])
      <4>1. k - n \in (i + 2)..(j - 1) /\ k - n \in 1..Len(b) /\ (k - n) + n = k
        BY <1>1
      <4>2. v[(k - n) + n] = b[k - n]
        BY <1>1, <4>1
      <4> QED
        BY <3>2, <4>1, <4>2
    <3> QED
      BY <3>1, <3>2 DEF AllDigits
  <2>6. (j + n = Len(v) + 1 \/ ~IsDigit(v[j + n])) <=> (j = Len(b) + 1 \/ ~IsDigit(b[j]))
    <3>1. CASE j = Len(b) + 1
      BY <1>1, <3>1
    <3>2. CASE j # Len(b) + 1
      <4>0. n \in Nat /\ Len(b) \in Nat /\ Len(v) = n + Len(b)
        BY <1>1
      <4>1. j \in 1..Len(b)
        BY <4>0, <3>2
      <4>2. j + n # Len(v) + 1
        BY <4>0, <4>1
      <4> QED
        BY <1>1, <3>2, <4>1, <4>2
    <3> QED
      BY <3>1, <3>2
  <2>7. TokenAt(v, i + n, j + n) <=>
          /\ i + n + 2 < j + n /\ j + n <= Len(v) + 1 /\ v[i + n] = "P" /\ v[i + n + 1] = "#"
          /\ AllDigits(v, i + n + 2, j + n - 1) /\ (j + n = Len(v) + 1 \/ ~IsDigit(v[j + n]))
    <3> DEFINE x == i + n  y == j + n
    <3> HIDE DEF x, y
    <3>1. TokenAt(v, x, y) <=>
            /\ x + 2 < y /\ y <= Len(v) + 1 /\ v[x] = "P" /\ v[x + 1] = "#"
            /\ AllDigits(v, x + 2, y - 1) /\ (y = Len(v) + 1 \/ ~IsDigit(v[y]))
      BY TokenIs
    <3> QED
      BY <1>1, <3>1 DEF x, y
  <2>8. TokenAt(b, i, j) <=>
          /\ i + 2 < j /\ j <= Len(b) + 1 /\ b[i] = "P" /\ b[i + 1] = "#"
          /\ AllDigits(b, i + 2, j - 1) /\ (j = Len(b) + 1 \/ ~IsDigit(b[j]))
    BY TokenIs, Zenon
  <2> QED
    BY <2>1, <2>2, <2>4, <2>5, <2>6, <2>7, <2>8, Zenon
<1>3. ASSUME NEW t \in Tokens(b)
      PROVE  <<t[1] + n, t[2] + n>> \in Tokens(v)
  <2>1. t[1] \in 1..Len(b) /\ t[2] \in 1..(Len(b) + 1) /\ TokenAt(b, t[1], t[2])
    BY TokensAre
  <2>2. TokenAt(v, t[1] + n, t[2] + n)
    BY <1>2, <2>1
  <2>3. t[1] + n \in 1..Len(v) /\ t[2] + n \in Nat
    BY <1>1, <2>1
  <2> QED
    BY <1>1, <2>2, <2>3, TokensAre
<1>4. ASSUME NEW t \in Tokens(v), t[1] > n
      PROVE  <<t[1] - n, t[2] - n>> \in Tokens(b)
  <2>1. t[1] \in 1..Len(v) /\ t[2] \in 1..(Len(v) + 1) /\ TokenAt(v, t[1], t[2]) /\ t[1] + 2 < t[2]
    BY <1>1, TokensAre
  <2>2. /\ t[1] - n \in 1..Len(b) /\ t[2] - n \in 1..(Len(b) + 1)
        /\ (t[1] - n) + n = t[1] /\ (t[2] - n) + n = t[2]
    BY <1>1, <1>4, <2>1, SMTT(60)
  <2>3. TokenAt(b, t[1] - n, t[2] - n)
    BY <1>2, <2>1, <2>2
  <2>4. t[2] - n \in Nat
    BY <2>2
  <2> QED
    BY <2>2, <2>3, <2>4, TokensAre
<1> QED
  BY <1>3, <1>4 DEF v, n

(* Drafts are put together from drafts, when no placeholder spans both.    *)
LEMMA JoinedExpands ==
  ASSUME NEW a \in Seq(Characters), NEW b \in Seq(Characters), NEW blocks \in Seq(Block),
         {t \in Tokens(a \o b) : t[1] <= Len(a)} = Tokens(a)
  PROVE  /\ Expand(a \o b, blocks) = Expand(a, blocks) \o Expand(b, blocks)
         /\ Expand(a, blocks) \in Seq(Characters) /\ Expand(b, blocks) \in Seq(Characters)
<1> DEFINE v == a \o b  n == Len(a)
<1>1. /\ v \in Seq(Characters) /\ Len(v) = n + Len(b) /\ n \in Nat /\ Len(b) \in Nat
      /\ \A i \in 1..n : v[i] = a[i]
      /\ \A i \in 1..Len(b) : v[i + n] = b[i]
  BY JoinedPlaces
<1>2. {t \in Tokens(v) : t[1] <= n} = Tokens(a)
  OBVIOUS
<1>3. /\ \A t \in Tokens(b) : <<t[1] + n, t[2] + n>> \in Tokens(v)
      /\ \A t \in Tokens(v) : t[1] > n => <<t[1] - n, t[2] - n>> \in Tokens(b)
  BY JoinedTokens
<1> HIDE DEF v, n
<1>4. ASSUME NEW i \in 1..n
      PROVE  Replaced(v, Tokens(v), blocks, i) = Replaced(a, Tokens(a), blocks, i)
  <2>0. i \in 1..Len(a) /\ 0 \in Nat /\ i + 0 = i
    BY DEF n
  <2>1. i + 0 \in 1..Len(v) /\ v[i + 0] = a[i]
    BY <1>1
  <2>2. ASSUME NEW t \in Tokens(a), t[1] <= i, i < t[2]
        PROVE  /\ <<t[1] + 0, t[2] + 0>> \in Tokens(v)
               /\ \A j \in i..(t[2] - 1) : v[j + 0] = a[j]
    <3>1. t = <<t[1], t[2]>> /\ t[1] \in 1..n /\ t[2] \in 1..(n + 1)
      BY TokensAre DEF n
    <3>2. t[1] + 0 = t[1] /\ t[2] + 0 = t[2]
      BY <1>1, <3>1
    <3>3. t \in Tokens(v)
      BY <1>2
    <3>4. \A j \in i..(t[2] - 1) : j \in 1..n /\ j + 0 = j
      BY <1>1, <3>1
    <3> QED
      BY <1>1, <3>1, <3>2, <3>3, <3>4
  <2>3. ASSUME NEW t \in Tokens(v), t[1] <= i + 0, i + 0 < t[2]
        PROVE  <<t[1] - 0, t[2] - 0>> \in Tokens(a)
    <3>1. t = <<t[1], t[2]>> /\ t[1] \in 1..Len(v) /\ t[2] \in 1..(Len(v) + 1)
      BY <1>1, TokensAre
    <3>2. t[1] - 0 = t[1] /\ t[2] - 0 = t[2] /\ t[1] <= n
      BY <1>1, <2>3, <3>1
    <3>3. t \in Tokens(a)
      BY <1>2, <3>2
    <3> QED
      BY <3>1, <3>2, <3>3
  <2>4. Replaced(v, Tokens(v), blocks, i + 0) = Replaced(a, Tokens(a), blocks, i)
    <3>1. SamePlace(a, v, 0, i, blocks, blocks)
      BY <2>2, <2>3 DEF SamePlace
    <3> QED
      <4>1. v \in Seq(Characters) /\ i \in 1..Len(v) /\ v[i] = a[i] /\ i = i + 0
        BY <1>1, <2>0, <2>1
      <4>2. Replaced(v, Tokens(v), blocks, i) = Replaced(a, Tokens(a), blocks, i)
        BY <2>0, <3>1, <4>1, SameAt
      <4> QED
        BY <2>0, <4>2
  <2> QED
    BY <2>0, <2>4
<1>5. ASSUME NEW i \in 1..Len(b)
      PROVE  Replaced(v, Tokens(v), blocks, i + n) = Replaced(b, Tokens(b), blocks, i)
  <2>1. i + n \in 1..Len(v) /\ v[i + n] = b[i]
    BY <1>1
  <2>2. ASSUME NEW t \in Tokens(b), t[1] <= i, i < t[2]
        PROVE  /\ <<t[1] + n, t[2] + n>> \in Tokens(v)
               /\ \A j \in i..(t[2] - 1) : v[j + n] = b[j]
    <3>1. t[2] \in 1..(Len(b) + 1)
      BY TokensAre
    <3>2. \A j \in i..(t[2] - 1) : j \in 1..Len(b)
      BY <1>1, <3>1
    <3> QED
      BY <1>1, <1>3, <3>2
  <2>3. ASSUME NEW t \in Tokens(v), t[1] <= i + n, i + n < t[2]
        PROVE  <<t[1] - n, t[2] - n>> \in Tokens(b)
    <3>1. t[1] \in 1..Len(v)
      BY <1>1, TokensAre
    <3>2. CASE t[1] > n
      BY <1>3, <3>2
    <3>3. CASE ~ (t[1] > n)
      <4>1. t \in Tokens(a)
        BY <1>1, <1>2, <3>1, <3>3
      <4>2. t[2] \in 1..(n + 1)
        BY <4>1, TokensAre DEF n
      <4> QED
        BY <1>1, <2>3, <4>2
    <3> QED
      BY <3>2, <3>3
  <2> QED
    <3>1. SamePlace(b, v, n, i, blocks, blocks)
      BY <2>2, <2>3 DEF SamePlace
    <3> QED
      <4>1. v \in Seq(Characters) /\ n \in Nat
        BY <1>1
      <4>2. i + n = i + n
        OBVIOUS
      <4> QED
        BY <2>1, <3>1, <4>1, <4>2, SameAt
<1>6. Parts(v, blocks) = Parts(a, blocks) \o Parts(b, blocks)
  <2>1. /\ Parts(v, blocks) \in Seq(Seq(Characters)) /\ Len(Parts(v, blocks)) = Len(v)
        /\ \A i \in 1..Len(v) : Parts(v, blocks)[i] = Replaced(v, Tokens(v), blocks, i)
    BY <1>1, PartsAre
  <2>2. /\ Parts(a, blocks) \in Seq(Seq(Characters)) /\ Len(Parts(a, blocks)) = n
        /\ \A i \in 1..n : Parts(a, blocks)[i] = Replaced(a, Tokens(a), blocks, i)
    BY PartsAre DEF n
  <2>3. /\ Parts(b, blocks) \in Seq(Seq(Characters)) /\ Len(Parts(b, blocks)) = Len(b)
        /\ \A i \in 1..Len(b) : Parts(b, blocks)[i] = Replaced(b, Tokens(b), blocks, i)
    BY PartsAre
  <2> DEFINE p == Parts(v, blocks)  q == Parts(a, blocks)  r == Parts(b, blocks)
             at(i) == Replaced(v, Tokens(v), blocks, i)
  <2>4. /\ \A i \in 1..n : q[i] = at(i)
        /\ \A i \in 1..Len(b) : r[i] = at(i + n)
    BY <1>4, <1>5, <2>2, <2>3
  <2>5. /\ p \in Seq(Seq(Characters)) /\ Len(p) = n + Len(b) /\ \A i \in 1..Len(v) : p[i] = at(i)
        /\ q \in Seq(Seq(Characters)) /\ Len(q) = n
        /\ r \in Seq(Seq(Characters)) /\ Len(r) = Len(b)
    BY <1>1, <2>1, <2>2, <2>3
  <2> HIDE DEF p, q, r, at
  <2>6. /\ q \o r \in Seq(Seq(Characters)) /\ Len(q \o r) = n + Len(b)
        /\ \A i \in 1..n : (q \o r)[i] = q[i]
        /\ \A i \in 1..Len(b) : (q \o r)[i + n] = r[i]
    BY <2>5, JoinedPlaces, SMTT(60)
  <2>7. ASSUME NEW i \in 1..(n + Len(b)) PROVE p[i] = (q \o r)[i]
    <3>1. CASE i \in 1..n
      BY <1>1, <2>4, <2>5, <2>6, <3>1
    <3>2. CASE i \notin 1..n
      <4>1. i - n \in 1..Len(b) /\ (i - n) + n = i /\ i \in 1..Len(v)
        BY <1>1, <3>2
      <4>2. r[i - n] = at((i - n) + n) /\ (q \o r)[(i - n) + n] = r[i - n]
        BY <2>4, <2>6, <4>1
      <4> QED
        BY <2>5, <4>1, <4>2
    <3> QED
      BY <3>1, <3>2
  <2>8. p = q \o r
    BY <2>5, <2>6, <2>7, SeqEqual
  <2> QED
    BY <2>8 DEF p, q, r
<1>7. /\ FlattenSeq(Parts(a, blocks)) \in Seq(Characters) /\ FlattenSeq(Parts(b, blocks)) \in Seq(Characters)
      /\ FlattenSeq(Parts(a, blocks) \o Parts(b, blocks))
           = FlattenSeq(Parts(a, blocks)) \o FlattenSeq(Parts(b, blocks))
  <2>1. Parts(a, blocks) \in Seq(Seq(Characters)) /\ Parts(b, blocks) \in Seq(Seq(Characters))
    BY PartsAre
  <2> QED
    BY <2>1, FlattenJoins
<1>8. /\ Expand(v, blocks) = FlattenSeq(Parts(v, blocks))
      /\ Expand(a, blocks) = FlattenSeq(Parts(a, blocks))
      /\ Expand(b, blocks) = FlattenSeq(Parts(b, blocks))
  BY <1>1, PartsAre
<1> QED
  BY <1>6, <1>7, <1>8 DEF v

(* A piece of a sequence that stands k places further on in another one.   *)
LEMMA SamePiece ==
  ASSUME NEW S, NEW s \in Seq(S), NEW v \in Seq(S), NEW k \in Nat,
         NEW i \in 1..(Len(s) + 1), NEW j \in 0..Len(s), j + k <= Len(v),
         \A x \in i..j : v[x + k] = s[x]
  PROVE  SubSeq(v, i + k, j + k) = SubSeq(s, i, j)
<1> DEFINE a == SubSeq(v, i + k, j + k)  b == SubSeq(s, i, j)
<1>1. /\ Len(s) \in Nat /\ Len(v) \in Nat
      /\ \A x \in 1..Len(s) : s[x] \in S
      /\ \A x \in 1..Len(v) : v[x] \in S
  OBVIOUS
<1>2. \A x \in i..j : s[x] \in S
  BY <1>1
<1>3. \A x \in (i + k)..(j + k) : v[x] \in S
  BY <1>1
<1>4. i \in Int /\ j \in Int /\ i + k \in Int /\ j + k \in Int
  BY <1>1
<1>5. /\ b \in Seq(S) /\ Len(b) = IF i <= j THEN j - i + 1 ELSE 0
      /\ \A x \in 1..(j - i + 1) : b[x] = s[i + x - 1]
  BY <1>2, <1>4, SubSeqProperties
<1>6. /\ a \in Seq(S) /\ Len(a) = IF i + k <= j + k THEN (j + k) - (i + k) + 1 ELSE 0
      /\ \A x \in 1..((j + k) - (i + k) + 1) : a[x] = v[(i + k) + x - 1]
  BY <1>3, <1>4, SubSeqProperties
<1> HIDE DEF a, b
<1>7. Len(a) = Len(b) /\ (j + k) - (i + k) + 1 = j - i + 1
  BY <1>4, <1>5, <1>6
<1>8. ASSUME NEW x \in 1..Len(a) PROVE a[x] = b[x]
  <2>1. x \in 1..(j - i + 1)
    BY <1>1, <1>4, <1>5, <1>7
  <2>2. i + x - 1 \in i..j /\ (i + k) + x - 1 = (i + x - 1) + k
    BY <1>1, <1>4, <2>1
  <2>3. v[(i + x - 1) + k] = s[i + x - 1]
    BY <2>2
  <2> QED
    BY <1>5, <1>6, <1>7, <2>1, <2>2, <2>3
<1>9. a = b
  BY <1>5, <1>6, <1>7, <1>8, SeqEqual
<1> QED
  BY <1>9 DEF a, b

(* A draft without placeholders stands for itself.                         *)
LEMMA NoneExpands ==
  ASSUME NEW s \in Seq(Characters), Tokens(s) = {}, NEW blocks \in Seq(Block)
  PROVE  Expand(s, blocks) = s
<1>1. DOMAIN s = 1..Len(s)
  OBVIOUS
<1>2. ASSUME NEW i \in DOMAIN s PROVE Replaced(s, Tokens(s), blocks, i) = <<s[i]>>
  BY DEF Replaced
<1>3. Parts(s, blocks) = [i \in DOMAIN s |-> <<s[i]>>]
  BY <1>2 DEF Parts
<1>4. FlattenSeq([i \in DOMAIN s |-> <<s[i]>>]) = s
  BY FlattenSingles
<1> QED
  BY <1>3, <1>4, PartsAre

(* A text too short for a placeholder has none.                            *)
LEMMA ShortHasNone ==
  ASSUME NEW s \in Seq(Characters), Len(s) < 3
  PROVE  Tokens(s) = {}
<1> SUFFICES ASSUME NEW t \in Tokens(s) PROVE FALSE
  OBVIOUS
<1>1. Len(s) \in Nat /\ t[1] \in 1..Len(s) /\ t[2] \in 1..(Len(s) + 1) /\ t[1] + 2 < t[2]
  BY TokensAre
<1> QED
  BY <1>1

(* A character is expanded to itself.                                      *)
LEMMA OneCharacter ==
  ASSUME NEW c \in Characters, NEW blocks \in Seq(Block)
  PROVE  /\ <<c>> \in Seq(Characters) /\ Len(<<c>>) = 1
         /\ Tokens(<<c>>) = {} /\ Expand(<<c>>, blocks) = <<c>>
<1> DEFINE s == <<c>>
<1>1. s \in Seq(Characters) /\ Len(s) = 1
  OBVIOUS
<1> HIDE DEF s
<1>2. Tokens(s) = {}
  <2>1. Len(s) < 3
    BY <1>1
  <2> QED
    BY <1>1, <2>1, ShortHasNone
<1>3. Expand(s, blocks) = s
  BY <1>1, <1>2, NoneExpands
<1> QED
  BY <1>1, <1>2, <1>3 DEF s

(* The placeholder of a block is expanded to the text of the block.        *)
LEMMA PlaceholderIs ==
  ASSUME NEW id \in 1..9, NEW blocks \in Seq(Block)
  PROVE  /\ PasteToken(id) \in Seq(Characters) /\ Len(PasteToken(id)) = 3
         /\ Tokens(PasteToken(id)) = {<<1, 4>>}
         /\ SubSeq(PasteToken(id), 3, 3) = <<Digits[id]>>
         /\ Expand(PasteToken(id), blocks) = TextOf(<<Digits[id]>>, blocks)
<1> DEFINE s == PasteToken(id)
<1>1. "P" \in Characters /\ "#" \in Characters /\ Digits[id] \in Characters
  BY DigitsDiffer DEF Characters
<1>2. s \in Seq(Characters) /\ Len(s) = 3 /\ s[1] = "P" /\ s[2] = "#" /\ s[3] = Digits[id]
      /\ DOMAIN s = 1..3
  BY <1>1 DEF PasteToken
<1> HIDE DEF s
<1>3. TokenAt(s, 1, 4)
  <2>1. \A k \in (1 + 2)..(4 - 1) : k = 3
    OBVIOUS
  <2>2. IsDigit(s[3])
    BY <1>2, DigitsDiffer
  <2> QED
    BY <1>2, <2>1, <2>2 DEF TokenAt
<1>4. <<1, 4>> \in Tokens(s)
  <2>1. 1 \in 1..Len(s) /\ 4 \in Nat
    BY <1>2
  <2> QED
    BY <1>2, <1>3, <2>1, TokensAre
<1>5. ASSUME NEW t \in Tokens(s) PROVE t = <<1, 4>>
  <2>0. t = <<t[1], t[2]>> /\ t[1] \in 1..Len(s) /\ t[2] \in 1..(Len(s) + 1) /\ t[1] + 2 < t[2]
    BY <1>2, TokensAre
  <2>1. t = <<t[1], t[2]>> /\ t[1] \in 1..3 /\ t[2] \in 1..4 /\ t[1] + 2 < t[2]
    <3>1. Len(s) = 3 /\ 3 + 1 = 4
      BY <1>2
    <3> QED
      BY <2>0, <3>1
  <2>2. t[1] = 1 /\ t[2] = 4
    BY <2>1
  <2> QED
    BY <2>1, <2>2
<1>6. Tokens(s) = {<<1, 4>>}
  BY <1>4, <1>5
<1>7. SubSeq(s, 3, 3) = <<Digits[id]>>
  <2>0. s[3] \in Characters
    BY <1>1, <1>2
  <2>1. 3 \in Int /\ \A x \in 3..3 : s[x] \in Characters
    BY <2>0
  <2>2. /\ SubSeq(s, 3, 3) \in Seq(Characters)
        /\ Len(SubSeq(s, 3, 3)) = IF 3 <= 3 THEN 3 - 3 + 1 ELSE 0
        /\ \A x \in 1..(3 - 3 + 1) : SubSeq(s, 3, 3)[x] = s[3 + x - 1]
    BY <2>1, SubSeqProperties
  <2> DEFINE p == SubSeq(s, 3, 3)
  <2>3. p \in Seq(Characters) /\ Len(p) = 1 /\ p[1] = s[3]
    BY <2>2
  <2> HIDE DEF p
  <2>4. p = <<Digits[id]>>
    BY <1>2, <2>3
  <2> QED
    BY <2>4 DEF p
<1> DEFINE T == TextOf(<<Digits[id]>>, blocks)
<1>8. /\ Replaced(s, Tokens(s), blocks, 1) = T
      /\ Replaced(s, Tokens(s), blocks, 2) = <<>>
      /\ Replaced(s, Tokens(s), blocks, 3) = <<>>
  <2> DEFINE K == {<<1, 4>>}
  <2>1. /\ \E t \in K : t[1] = 1
        /\ (CHOOSE t \in K : t[1] = 1) = <<1, 4>>
        /\ ~ \E t \in K : t[1] = 2
        /\ ~ \E t \in K : t[1] = 3
        /\ \E t \in K : t[1] < 2 /\ 2 < t[2]
        /\ \E t \in K : t[1] < 3 /\ 3 < t[2]
    OBVIOUS
  <2> HIDE DEF K
  <2>2. Tokens(s) = K
    BY <1>6 DEF K
  <2>3. 1 + 2 = 3 /\ (<<1, 4>>)[2] - 1 = 3
    OBVIOUS
  <2> QED
    BY <1>7, <2>1, <2>2, <2>3 DEF Replaced
<1>9. T \in Seq(Characters)
  BY TextOfType
<1> HIDE DEF T
<1>10. /\ Parts(s, blocks) \in Seq(Seq(Characters)) /\ Len(Parts(s, blocks)) = 3
       /\ Parts(s, blocks)[1] = T /\ Parts(s, blocks)[2] = <<>> /\ Parts(s, blocks)[3] = <<>>
       /\ Expand(s, blocks) = FlattenSeq(Parts(s, blocks))
  BY <1>2, <1>8, PartsAre
<1> DEFINE E == <<>>
<1>11. E \in Seq(Characters)
  BY EmptySeq
<1>12. Parts(s, blocks) = (<<T>> \o <<E>>) \o <<E>>
  BY <1>10
<1> HIDE DEF E
<1>13. /\ <<T>> \in Seq(Seq(Characters)) /\ <<E>> \in Seq(Seq(Characters))
       /\ <<T>> \o <<E>> \in Seq(Seq(Characters))
  BY <1>9, <1>11
<1>14. FlattenSeq(<<T>>) = T /\ FlattenSeq(<<E>>) = E
  BY <1>9, <1>11, FlattenOne
<1>15. FlattenSeq((<<T>> \o <<E>>) \o <<E>>) = (T \o E) \o E
  <2>1. FlattenSeq(<<T>> \o <<E>>) = T \o E
    <3>1. FlattenSeq(<<T>> \o <<E>>) = FlattenSeq(<<T>>) \o FlattenSeq(<<E>>)
      <4> DEFINE a == <<T>>  b == <<E>>
      <4>1. a \in Seq(Seq(Characters)) /\ b \in Seq(Seq(Characters))
        BY <1>13
      <4> HIDE DEF a, b
      <4>2. FlattenSeq(a \o b) = FlattenSeq(a) \o FlattenSeq(b)
        BY <4>1, FlattenJoins
      <4> QED
        BY <4>2 DEF a, b
    <3> QED
      BY <1>14, <3>1
  <2> DEFINE a == <<T>> \o <<E>>  b == <<E>>
  <2>2. a \in Seq(Seq(Characters)) /\ b \in Seq(Seq(Characters))
    BY <1>13
  <2>3. FlattenSeq(a) = T \o E /\ FlattenSeq(b) = E
    BY <1>14, <2>1
  <2> HIDE DEF a, b
  <2>4. FlattenSeq(a \o b) = FlattenSeq(a) \o FlattenSeq(b)
    BY <2>2, FlattenJoins
  <2>5. FlattenSeq(a \o b) = (T \o E) \o E
    BY <2>3, <2>4
  <2> QED
    BY <2>5 DEF a, b
<1>16. (T \o E) \o E = T
  BY <1>9 DEF E
<1> QED
  BY <1>2, <1>6, <1>7, <1>10, <1>12, <1>15, <1>16 DEF s, T

----------------------------------------------------------------------------
(* The numbers of the placeholders.  A number is given out once, so that a *)
(* block that is added later changes nothing of what is expanded.          *)

(* The number of a placeholder, and that it is one of the first ones.      *)
Number(s, t) == SubSeq(s, t[1] + 2, t[2] - 1)

(* Every placeholder of a text has a number that was given out before n.   *)
Known(s, n) == \A t \in Tokens(s) : \E k \in 1..9 : k < n /\ Number(s, t) = <<Digits[k]>>

(* Every block has such a number.                                          *)
IdsBelow(blocks, n) == \A b \in DOMAIN blocks : blocks[b].id < n

(* The number of a placeholder does not depend on the text around it.      *)
LEMMA MovedNumber ==
  ASSUME NEW a \in Seq(Characters), NEW b \in Seq(Characters)
  PROVE  /\ \A t \in Tokens(b) : Number(a \o b, <<t[1] + Len(a), t[2] + Len(a)>>) = Number(b, t)
         /\ \A t \in Tokens(a) : Number(a \o b, t) = Number(a, t)
<1> DEFINE v == a \o b  n == Len(a)
<1>1. /\ v \in Seq(Characters) /\ Len(v) = n + Len(b) /\ n \in Nat /\ Len(b) \in Nat
      /\ \A i \in 1..n : v[i] = a[i]
      /\ \A i \in 1..Len(b) : v[i + n] = b[i]
  BY JoinedPlaces
<1> HIDE DEF v, n
<1>2. ASSUME NEW t \in Tokens(b)
      PROVE  Number(v, <<t[1] + n, t[2] + n>>) = Number(b, t)
  <2>1. t[1] \in 1..Len(b) /\ t[2] \in 1..(Len(b) + 1) /\ t[1] + 2 < t[2]
    BY TokensAre
  <2> DEFINE i == t[1] + 2  j == t[2] - 1
  <2>2. /\ i \in 1..(Len(b) + 1) /\ j \in 0..Len(b) /\ j + n <= Len(v)
        /\ i + n = (t[1] + n) + 2 /\ j + n = (t[2] + n) - 1
    <3> DEFINE p == t[1]  q == t[2]  l == Len(b)
    <3>1. p \in 1..l /\ q \in 1..(l + 1) /\ p + 2 < q /\ l \in Nat /\ n \in Nat /\ Len(v) = n + l
      BY <1>1, <2>1
    <3> HIDE DEF p, q, l
    <3>2. /\ p + 2 \in 1..(l + 1) /\ q - 1 \in 0..l /\ (q - 1) + n <= Len(v)
          /\ (p + 2) + n = (p + n) + 2 /\ (q - 1) + n = (q + n) - 1
      BY <3>1
    <3> QED
      BY <3>2 DEF p, q, l
  <2>3. \A x \in i..j : v[x + n] = b[x]
    BY <1>1, <2>2
  <2> HIDE DEF i, j
  <2>4. SubSeq(v, i + n, j + n) = SubSeq(b, i, j)
    BY <1>1, <2>2, <2>3, SamePiece
  <2>5. Number(b, t) = SubSeq(b, i, j)
    BY DEF Number, i, j
  <2>6. Number(v, <<t[1] + n, t[2] + n>>) = SubSeq(v, (t[1] + n) + 2, (t[2] + n) - 1)
    BY DEF Number
  <2> QED
    BY <2>2, <2>4, <2>5, <2>6
<1>3. ASSUME NEW t \in Tokens(a)
      PROVE  Number(v, t) = Number(a, t)
  <2>1. t[1] \in 1..n /\ t[2] \in 1..(n + 1) /\ t[1] + 2 < t[2]
    BY TokensAre DEF n
  <2> DEFINE i == t[1] + 2  j == t[2] - 1
  <2>2. /\ i \in 1..(n + 1) /\ j \in 0..n /\ j + 0 <= Len(v) /\ i + 0 = i /\ j + 0 = j
    BY <1>1, <2>1, SMTT(60)
  <2>3. \A x \in i..j : v[x + 0] = a[x]
    BY <1>1, <2>2
  <2>4. i \in 1..(Len(a) + 1) /\ j \in 0..Len(a) /\ 0 \in Nat
    BY <2>2 DEF n
  <2> HIDE DEF i, j
  <2>5. SubSeq(v, i + 0, j + 0) = SubSeq(a, i, j)
    BY <1>1, <2>2, <2>3, <2>4, SamePiece
  <2>6. Number(a, t) = SubSeq(a, i, j) /\ Number(v, t) = SubSeq(v, i, j)
    BY DEF Number, i, j
  <2> QED
    BY <2>2, <2>5, <2>6
<1> QED
  BY <1>2, <1>3 DEF v, n

(* The numbers of a draft are those of the parts.                          *)
LEMMA JoinedKnown ==
  ASSUME NEW a \in Seq(Characters), NEW b \in Seq(Characters), NEW n,
         {t \in Tokens(a \o b) : t[1] <= Len(a)} = Tokens(a)
  PROVE  Known(a \o b, n) <=> Known(a, n) /\ Known(b, n)
<1> DEFINE v == a \o b  l == Len(a)
<1>1. v \in Seq(Characters) /\ l \in Nat /\ Len(v) \in Nat
  BY JoinedPlaces
<1>2. {t \in Tokens(v) : t[1] <= l} = Tokens(a)
  OBVIOUS
<1>3. /\ \A t \in Tokens(b) : <<t[1] + l, t[2] + l>> \in Tokens(v)
      /\ \A t \in Tokens(v) : t[1] > l => <<t[1] - l, t[2] - l>> \in Tokens(b)
  BY JoinedTokens
<1>4. /\ \A t \in Tokens(b) : Number(v, <<t[1] + l, t[2] + l>>) = Number(b, t)
      /\ \A t \in Tokens(a) : Number(v, t) = Number(a, t)
  BY MovedNumber
<1> HIDE DEF v, l
<1>5. ASSUME Known(v, n) PROVE Known(a, n) /\ Known(b, n)
  <2>1. \A t \in Tokens(v) : \E k \in 1..9 : k < n /\ Number(v, t) = <<Digits[k]>>
    BY <1>5 DEF Known
  <2>2. ASSUME NEW t \in Tokens(a)
        PROVE  \E k \in 1..9 : k < n /\ Number(a, t) = <<Digits[k]>>
    <3>1. t \in Tokens(v) /\ Number(v, t) = Number(a, t)
      BY <1>2, <1>4
    <3> QED
      BY <2>1, <3>1
  <2>3. ASSUME NEW t \in Tokens(b)
        PROVE  \E k \in 1..9 : k < n /\ Number(b, t) = <<Digits[k]>>
    <3> DEFINE u == <<t[1] + l, t[2] + l>>
    <3>1. u \in Tokens(v) /\ Number(v, u) = Number(b, t)
      BY <1>3, <1>4
    <3> HIDE DEF u
    <3> QED
      BY <2>1, <3>1
  <2> QED
    BY <2>2, <2>3 DEF Known
<1>6. ASSUME Known(a, n), Known(b, n), NEW t \in Tokens(v)
      PROVE  \E k \in 1..9 : k < n /\ Number(v, t) = <<Digits[k]>>
  <2>1. t = <<t[1], t[2]>> /\ t[1] \in 1..Len(v) /\ t[2] \in 1..(Len(v) + 1)
    BY <1>1, TokensAre
  <2>2. CASE t[1] <= l
    <3>1. t \in Tokens(a)
      BY <1>2, <2>2
    <3>2. \E k \in 1..9 : k < n /\ Number(a, t) = <<Digits[k]>>
      BY <1>6, <3>1 DEF Known
    <3> QED
      BY <1>4, <3>1, <3>2
  <2>3. CASE t[1] > l
    <3> DEFINE u == <<t[1] - l, t[2] - l>>
    <3>1. u \in Tokens(b) /\ u[1] + l = t[1] /\ u[2] + l = t[2]
      BY <1>1, <1>3, <2>1, <2>3
    <3> HIDE DEF u
    <3>2. Number(v, t) = Number(b, u)
      BY <1>4, <2>1, <3>1
    <3>3. \E k \in 1..9 : k < n /\ Number(b, u) = <<Digits[k]>>
      BY <1>6, <3>1 DEF Known
    <3> QED
      BY <3>2, <3>3
  <2> QED
    BY <1>1, <2>1, <2>2, <2>3
<1> QED
  BY <1>5, <1>6 DEF Known, v

(* A text that is put aside with a new number.                             *)
LEMMA NewText ==
  ASSUME NEW blocks \in Seq(Block), NEW n \in 1..9, NEW text \in Seq(Characters),
         IdsBelow(blocks, n)
  PROVE  /\ Append(blocks, [id |-> n, text |-> text]) \in Seq(Block)
         /\ IdsBelow(Append(blocks, [id |-> n, text |-> text]), n + 1)
         /\ TextOf(<<Digits[n]>>, Append(blocks, [id |-> n, text |-> text])) = text
         /\ \A k \in 1..9 : k < n =>
              TextOf(<<Digits[k]>>, Append(blocks, [id |-> n, text |-> text]))
                = TextOf(<<Digits[k]>>, blocks)
<1> DEFINE new == [id |-> n, text |-> text]  more == Append(blocks, new)  l == Len(blocks)
           of(number, list) == {b \in DOMAIN list : number = <<Digits[list[b].id]>>}
<1>1. new \in Block /\ new.id = n /\ new.text = text
  BY DEF Block
<1> HIDE DEF new
<1>2. /\ more \in Seq(Block) /\ l \in Nat /\ DOMAIN blocks = 1..l /\ DOMAIN more = 1..(l + 1)
      /\ \A b \in 1..l : more[b] = blocks[b] /\ blocks[b] \in Block
      /\ more[l + 1] = new
  BY <1>1
<1> HIDE DEF more, l
<1>3. \A b \in 1..l : blocks[b].id \in 1..9 /\ blocks[b].id < n /\ more[b].id = blocks[b].id
                      /\ more[b].text = blocks[b].text
  BY <1>2 DEF IdsBelow, Block
<1>4. IdsBelow(more, n + 1)
  <2> SUFFICES ASSUME NEW b \in 1..(l + 1) PROVE more[b].id < n + 1
    BY <1>2 DEF IdsBelow
  <2>1. CASE b = l + 1
    BY <1>1, <1>2, <2>1
  <2>2. CASE b \in 1..l
    BY <1>3, <2>2, SMTT(60)
  <2> QED
    BY <1>2, <2>1, <2>2
<1>5. of(<<Digits[n]>>, more) = {l + 1}
  <2>1. \A b \in 1..l : <<Digits[n]>> # <<Digits[more[b].id]>>
    <3> TAKE b \in 1..l
    <3>1. more[b].id \in 1..9 /\ more[b].id # n
      BY <1>3
    <3>2. Digits[n] # Digits[more[b].id]
      BY <3>1, DigitsDiffer
    <3> QED
      BY <3>2
  <2>2. <<Digits[n]>> = <<Digits[more[l + 1].id]>>
    BY <1>1, <1>2
  <2>3. \A b \in 1..(l + 1) : b \in 1..l \/ b = l + 1
    BY <1>2
  <2> QED
    BY <1>2, <2>1, <2>2, <2>3
<1>6. TextOf(<<Digits[n]>>, more) = text
  <2> DEFINE K == of(<<Digits[n]>>, more)
  <2>1. TextOf(<<Digits[n]>>, more)
          = IF K = {} THEN <<>> ELSE more[CHOOSE b \in K : \A c \in K : c <= b].text
    BY DEF TextOf
  <2>2. K = {l + 1}
    BY <1>5
  <2> HIDE DEF K
  <2>3. (CHOOSE b \in K : \A c \in K : c <= b) = l + 1
    BY <1>2, <2>2
  <2> QED
    BY <1>1, <1>2, <2>1, <2>2, <2>3
<1>7. ASSUME NEW k \in 1..9, k < n
      PROVE  TextOf(<<Digits[k]>>, more) = TextOf(<<Digits[k]>>, blocks)
  <2> DEFINE K == of(<<Digits[k]>>, more)  J == of(<<Digits[k]>>, blocks)
  <2>1. TextOf(<<Digits[k]>>, more)
          = IF K = {} THEN <<>> ELSE more[CHOOSE b \in K : \A c \in K : c <= b].text
    BY DEF TextOf
  <2>2. TextOf(<<Digits[k]>>, blocks)
          = IF J = {} THEN <<>> ELSE blocks[CHOOSE b \in J : \A c \in J : c <= b].text
    BY DEF TextOf
  <2>3. K = J
    <3>1. <<Digits[k]>> # <<Digits[more[l + 1].id]>>
      <4>1. Digits[k] # Digits[n]
        <5>1. k # n
          BY <1>7
        <5> QED
          BY <5>1, DigitsDiffer
      <4> QED
        BY <1>1, <1>2, <4>1
    <3>2. \A b \in 1..(l + 1) : b \in 1..l \/ b = l + 1
      BY <1>2
    <3>3. \A b \in 1..l : b \in 1..(l + 1)
      BY <1>2
    <3> QED
      BY <1>2, <1>3, <3>1, <3>2, <3>3
  <2>4. J \in SUBSET (1..l)
    BY <1>2
  <2> HIDE DEF J, K
  <2>5. CASE J = {}
    BY <2>1, <2>2, <2>3, <2>5
  <2>6. CASE J # {}
    <3>1. \E b \in J : \A c \in J : c <= b
      BY <1>2, <2>4, <2>6, GreatestExists
    <3> DEFINE b == CHOOSE b \in J : \A c \in J : c <= b
    <3>2. b \in J
      BY <3>1
    <3>3. b \in 1..l
      BY <2>4, <3>2
    <3>4. TextOf(<<Digits[k]>>, more) = more[b].text /\ TextOf(<<Digits[k]>>, blocks) = blocks[b].text
      BY <2>1, <2>2, <2>3, <2>6
    <3> HIDE DEF b
    <3> QED
      BY <1>3, <3>3, <3>4
  <2> QED
    BY <2>5, <2>6
<1> QED
  BY <1>2, <1>4, <1>6, <1>7 DEF more, new

(* What the placeholders of a draft stand for is not changed by it.        *)
LEMMA KnownExpands ==
  ASSUME NEW s \in Seq(Characters), NEW blocks \in Seq(Block), NEW more \in Seq(Block), NEW n,
         Known(s, n),
         \A k \in 1..9 : k < n => TextOf(<<Digits[k]>>, more) = TextOf(<<Digits[k]>>, blocks)
  PROVE  Expand(s, more) = Expand(s, blocks)
<1>1. DOMAIN s = 1..Len(s) /\ Len(s) \in Nat
  OBVIOUS
<1>2. ASSUME NEW t \in Tokens(s)
      PROVE  TextOf(SubSeq(s, t[1] + 2, t[2] - 1), more) = TextOf(SubSeq(s, t[1] + 2, t[2] - 1), blocks)
  <2>1. PICK k \in 1..9 : k < n /\ Number(s, t) = <<Digits[k]>>
    BY DEF Known
  <2>2. TextOf(<<Digits[k]>>, more) = TextOf(<<Digits[k]>>, blocks)
    BY <2>1
  <2> QED
    BY <2>1, <2>2 DEF Number
<1>3. ASSUME NEW i \in 1..Len(s)
      PROVE  Replaced(s, Tokens(s), more, i) = Replaced(s, Tokens(s), blocks, i)
  <2>1. CASE \E t \in Tokens(s) : t[1] = i
    <3> DEFINE t == CHOOSE t \in Tokens(s) : t[1] = i
    <3>1. t \in Tokens(s) /\ t[1] = i
      BY <2>1
    <3>2. /\ Replaced(s, Tokens(s), more, i) = TextOf(SubSeq(s, i + 2, t[2] - 1), more)
          /\ Replaced(s, Tokens(s), blocks, i) = TextOf(SubSeq(s, i + 2, t[2] - 1), blocks)
      BY <2>1 DEF Replaced
    <3> HIDE DEF t
    <3> QED
      BY <1>2, <3>1, <3>2
  <2>2. CASE ~ \E t \in Tokens(s) : t[1] = i
    BY <2>2 DEF Replaced
  <2> QED
    BY <2>1, <2>2
<1>4. Parts(s, more) = Parts(s, blocks)
  BY <1>1, <1>3 DEF Parts
<1> QED
  BY <1>4, PartsAre

----------------------------------------------------------------------------
(* Where a pasted text was put.  It is found by the beginning and the end  *)
(* that the draft has in common with what it was before; what is found may *)
(* be some other place than the cursor's, but the draft around it is the   *)
(* same.                                                                   *)

(* A sequence is cut in two, and put together from two and three.          *)
LEMMA CutAt ==
  ASSUME NEW S, NEW s \in Seq(S), NEW k \in 0..Len(s)
  PROVE  /\ SubSeq(s, 1, k) \in Seq(S) /\ Len(SubSeq(s, 1, k)) = k
         /\ SubSeq(s, k + 1, Len(s)) \in Seq(S) /\ Len(SubSeq(s, k + 1, Len(s))) = Len(s) - k
         /\ s = SubSeq(s, 1, k) \o SubSeq(s, k + 1, Len(s))
         /\ \A i \in 1..k : SubSeq(s, 1, k)[i] = s[i]
         /\ \A i \in 1..(Len(s) - k) : SubSeq(s, k + 1, Len(s))[i] = s[k + i]
<1> DEFINE n == Len(s)
<1>1. n \in Nat /\ k \in Nat /\ k <= n /\ \A i \in 1..n : s[i] \in S
  OBVIOUS
<1>2. /\ SubSeq(s, 1, k) \in Seq(S) /\ Len(SubSeq(s, 1, k)) = k
      /\ \A i \in 1..k : SubSeq(s, 1, k)[i] = s[i]
  <2>1. 1 \in Int /\ k \in Int /\ \A i \in 1..k : s[i] \in S
    BY <1>1
  <2>2. /\ SubSeq(s, 1, k) \in Seq(S)
        /\ Len(SubSeq(s, 1, k)) = IF 1 <= k THEN k - 1 + 1 ELSE 0
        /\ \A i \in 1..(k - 1 + 1) : SubSeq(s, 1, k)[i] = s[1 + i - 1]
    BY <2>1, SubSeqProperties
  <2> QED
    BY <1>1, <2>2
<1>3. /\ SubSeq(s, k + 1, n) \in Seq(S) /\ Len(SubSeq(s, k + 1, n)) = n - k
      /\ \A i \in 1..(n - k) : SubSeq(s, k + 1, n)[i] = s[k + i]
  <2>1. k + 1 \in Int /\ n \in Int /\ \A i \in (k + 1)..n : s[i] \in S
    BY <1>1
  <2>2. /\ SubSeq(s, k + 1, n) \in Seq(S)
        /\ Len(SubSeq(s, k + 1, n)) = IF k + 1 <= n THEN n - (k + 1) + 1 ELSE 0
        /\ \A i \in 1..(n - (k + 1) + 1) : SubSeq(s, k + 1, n)[i] = s[(k + 1) + i - 1]
    <3> HIDE DEF n
    <3> QED
      BY <2>1, SubSeqProperties
  <2> HIDE DEF n
  <2> QED
    BY <1>1, <2>2
<1>4. s = SubSeq(s, 1, k) \o SubSeq(s, k + 1, n)
  <2>1. SubSeq(s, 1, n) = s
    BY SubSeqFull
  <2>2. 1 \in 1..(Len(s) + 1) /\ k \in (1 - 1)..Len(s) /\ n \in k..Len(s)
    BY <1>1
  <2>3. SubSeq(s, 1, k) \o SubSeq(s, k + 1, n) = SubSeq(s, 1, n)
    <3> HIDE DEF n
    <3> QED
      BY <2>2, ConcatAdjacentSubSeq
  <2> QED
    BY <2>1, <2>3
<1> QED
  BY <1>2, <1>3, <1>4

(* Two parts can be had back from what they were joined to.                *)
LEMMA PutTogether ==
  ASSUME NEW S, NEW a \in Seq(S), NEW b \in Seq(S)
  PROVE  /\ SubSeq(a \o b, 1, Len(a)) = a
         /\ SubSeq(a \o b, Len(a) + 1, Len(a \o b)) = b
<1> DEFINE v == a \o b  n == Len(a)  m == Len(b)
<1>1. /\ v \in Seq(S) /\ Len(v) = n + m /\ n \in Nat /\ m \in Nat
      /\ \A i \in 1..n : v[i] = a[i]
      /\ \A i \in 1..m : v[i + n] = b[i]
  BY JoinedPlaces
<1>2. SubSeq(a, 1, n) = a /\ SubSeq(b, 1, m) = b
  BY SubSeqFull
<1>3. /\ 1 \in 1..(Len(a) + 1) /\ n \in 0..Len(a) /\ 1 \in 1..(Len(b) + 1) /\ m \in 0..Len(b)
  BY <1>1
<1> HIDE DEF v, n, m
<1>4. SubSeq(v, 1 + 0, n + 0) = SubSeq(a, 1, n)
  <2>1. 0 \in Nat /\ n + 0 <= Len(v) /\ \A x \in 1..n : v[x + 0] = a[x]
    BY <1>1
  <2> QED
    BY <1>1, <1>3, <2>1, SamePiece
<1>5. SubSeq(v, 1 + n, m + n) = SubSeq(b, 1, m)
  <2>1. m + n <= Len(v)
    BY <1>1
  <2> QED
    BY <1>1, <1>3, <2>1, SamePiece
<1>6. 1 + 0 = 1 /\ n + 0 = n /\ 1 + n = n + 1 /\ m + n = Len(v)
  BY <1>1
<1> QED
  BY <1>2, <1>4, <1>5, <1>6 DEF v, n

(* So can three.                                                           *)
LEMMA PutBetween ==
  ASSUME NEW S, NEW a \in Seq(S), NEW b \in Seq(S), NEW c \in Seq(S)
  PROVE  /\ a \o (b \o c) \in Seq(S) /\ Len(a \o (b \o c)) = Len(a) + Len(b) + Len(c)
         /\ SubSeq(a \o (b \o c), 1, Len(a)) = a
         /\ SubSeq(a \o (b \o c), Len(a) + 1, Len(a) + Len(b)) = b
         /\ SubSeq(a \o (b \o c), Len(a) + Len(b) + 1, Len(a \o (b \o c))) = c
<1> DEFINE w == b \o c  v == a \o w  d == a \o b  n == Len(a)  m == Len(b)
<1>1. w \in Seq(S) /\ Len(w) = m + Len(c) /\ m \in Nat /\ Len(c) \in Nat
      /\ \A i \in 1..m : w[i] = b[i]
  BY JoinedPlaces
<1>2. d \in Seq(S) /\ Len(d) = n + m /\ n \in Nat
  BY JoinedPlaces
<1>3. v = d \o c
  BY ConcatAssociative
<1> HIDE DEF w, d
<1>4. v \in Seq(S) /\ Len(v) = n + Len(w) /\ \A i \in 1..Len(w) : v[i + n] = w[i]
  <2>1. w \in Seq(S)
    BY <1>1
  <2> QED
    BY <2>1, JoinedPlaces
<1>5. SubSeq(v, 1, n) = a
  BY <1>1, PutTogether
<1> HIDE DEF n
<1>6. SubSeq(v, Len(d) + 1, Len(v)) = c
  BY <1>2, <1>3, PutTogether
<1> HIDE DEF v
<1>7. SubSeq(v, 1 + n, m + n) = SubSeq(b, 1, m)
  <2>1. 1 \in 1..(Len(b) + 1) /\ m \in 0..Len(b) /\ m + n <= Len(v)
    BY <1>1, <1>2, <1>4
  <2>2. \A x \in 1..m : v[x + n] = b[x]
    BY <1>1, <1>4
  <2> HIDE DEF m
  <2> QED
    BY <1>2, <1>4, <2>1, <2>2, SamePiece
<1>8. SubSeq(b, 1, m) = b
  BY SubSeqFull
<1>9. 1 + n = n + 1 /\ m + n = n + m /\ Len(v) = n + m + Len(c)
  BY <1>1, <1>2, <1>4
<1> QED
  BY <1>2, <1>4, <1>5, <1>6, <1>7, <1>8, <1>9 DEF v, w, n

----------------------------------------------------------------------------
(* What two sequences have in common at their beginnings.                  *)
LEMMA CommonIs ==
  ASSUME NEW S, NEW s \in Seq(S), NEW t \in Seq(S)
  PROVE  /\ CommonPrefix(s, t) \in 0..Len(s) /\ CommonPrefix(s, t) <= Len(t)
         /\ \A i \in 1..CommonPrefix(s, t) : s[i] = t[i]
         /\ \/ CommonPrefix(s, t) = Len(s) \/ CommonPrefix(s, t) = Len(t)
            \/ s[CommonPrefix(s, t) + 1] # t[CommonPrefix(s, t) + 1]
<1> DEFINE P(n) == /\ n <= Len(t) /\ SubSeq(s, 1, n) = SubSeq(t, 1, n)
                   /\ n = Len(s) \/ n = Len(t) \/ s[n + 1] # t[n + 1]
           N == {n \in Nat : n = Len(s) \/ n = Len(t) \/ s[n + 1] # t[n + 1]}
<1>1. Len(s) \in Nat /\ Len(t) \in Nat
  OBVIOUS
<1>2. PICK n \in N : \A k \in N : n <= k
  <2>1. N \in SUBSET Nat /\ Len(s) \in N
    BY <1>1
  <2>2. N # {}
    BY <2>1
  <2> HIDE DEF N
  <2> QED
    BY <2>1, <2>2, LeastExists
<1>3. n \in Nat /\ n <= Len(s) /\ n <= Len(t) /\ (n = Len(s) \/ n = Len(t) \/ s[n + 1] # t[n + 1])
  BY <1>1, <1>2
<1>4. \A i \in 1..n : s[i] = t[i]
  <2> TAKE i \in 1..n
  <2>1. i - 1 \in Nat /\ i - 1 \notin N /\ (i - 1) + 1 = i
    BY <1>2, <1>3
  <2> QED
    BY <2>1
<1>5. SubSeq(s, 1, n) = SubSeq(t, 1, n)
  <2>1. n \in 0..Len(s) /\ n \in 0..Len(t)
    BY <1>1, <1>3
  <2>2. /\ SubSeq(s, 1, n) \in Seq(S) /\ Len(SubSeq(s, 1, n)) = n
        /\ \A i \in 1..n : SubSeq(s, 1, n)[i] = s[i]
    BY <2>1, CutAt
  <2>3. /\ SubSeq(t, 1, n) \in Seq(S) /\ Len(SubSeq(t, 1, n)) = n
        /\ \A i \in 1..n : SubSeq(t, 1, n)[i] = t[i]
    BY <2>1, CutAt
  <2> DEFINE a == SubSeq(s, 1, n)  b == SubSeq(t, 1, n)
  <2>4. a \in Seq(S) /\ b \in Seq(S) /\ Len(a) = n /\ Len(b) = n /\ \A i \in 1..n : a[i] = b[i]
    BY <1>4, <2>2, <2>3
  <2> HIDE DEF a, b
  <2>5. a = b
    BY <2>4, SeqEqual
  <2> QED
    BY <2>5 DEF a, b
<1>6. n \in 0..Len(s) /\ P(n)
  BY <1>1, <1>3, <1>5
<1> HIDE DEF P
<1>7. CommonPrefix(s, t) = CHOOSE k \in 0..Len(s) : P(k)
  BY DEF CommonPrefix, P
<1>8. CommonPrefix(s, t) \in 0..Len(s) /\ P(CommonPrefix(s, t))
  BY <1>6, <1>7
<1> DEFINE c == CommonPrefix(s, t)
<1>9. c \in 0..Len(s) /\ P(c)
  BY <1>8
<1> HIDE DEF c
<1>10. c <= Len(t) /\ SubSeq(s, 1, c) = SubSeq(t, 1, c) /\ (c = Len(s) \/ c = Len(t) \/ s[c + 1] # t[c + 1])
  BY <1>9 DEF P
<1>11. \A i \in 1..c : s[i] = t[i]
  <2>1. c \in 0..Len(s) /\ c \in 0..Len(t)
    BY <1>1, <1>9, <1>10
  <2>2. /\ \A i \in 1..c : SubSeq(s, 1, c)[i] = s[i]
        /\ \A i \in 1..c : SubSeq(t, 1, c)[i] = t[i]
    BY <2>1, CutAt
  <2> QED
    BY <1>10, <2>2
<1> QED
  BY <1>9, <1>10, <1>11 DEF c

(* What is written behind a text changes nothing of it.                    *)
LEMMA CommonOfBeginning ==
  ASSUME NEW S, NEW s \in Seq(S), NEW u \in Seq(S)
  PROVE  CommonPrefix(s, s \o u) = Len(s)
<1> DEFINE t == s \o u  c == CommonPrefix(s, t)
<1>1. t \in Seq(S) /\ Len(t) = Len(s) + Len(u) /\ Len(s) \in Nat /\ Len(u) \in Nat
      /\ \A i \in 1..Len(s) : t[i] = s[i]
  BY JoinedPlaces
<1> HIDE DEF t
<1>2. /\ c \in 0..Len(s) /\ c <= Len(t)
      /\ c = Len(s) \/ c = Len(t) \/ s[c + 1] # t[c + 1]
  BY <1>1, CommonIs
<1> HIDE DEF c
<1>3. SUFFICES ASSUME c # Len(s) PROVE FALSE
  BY DEF c, t
<1>4. c + 1 \in 1..Len(s) /\ c # Len(t)
  BY <1>1, <1>2, <1>3
<1> QED
  BY <1>1, <1>2, <1>3, <1>4

(* The reverse of a text.                                                  *)
LEMMA ReverseIs ==
  ASSUME NEW S, NEW a \in Seq(S), NEW b \in Seq(S)
  PROVE  /\ Reverse(a) \in Seq(S) /\ Len(Reverse(a)) = Len(a)
         /\ Reverse(a \o b) = Reverse(b) \o Reverse(a)
<1>1. \A s \in Seq(S) : Reverse(s) \in Seq(S) /\ Len(Reverse(s)) = Len(s)
        /\ \A i \in 1..Len(s) : Reverse(s)[i] = s[(Len(s) - i) + 1]
  <2> TAKE s \in Seq(S)
  <2>1. Len(s) \in Nat /\ \A i \in 1..Len(s) : (Len(s) - i) + 1 \in 1..Len(s)
    OBVIOUS
  <2>2. \A i \in 1..Len(s) : s[(Len(s) - i) + 1] \in S
    BY <2>1
  <2>3. Reverse(s) \in [1..Len(s) -> S] /\ \A i \in 1..Len(s) : Reverse(s)[i] = s[(Len(s) - i) + 1]
    BY <2>2 DEF Reverse
  <2> QED
    BY <2>1, <2>3, SMTT(60)
<1> DEFINE v == a \o b  n == Len(a)  m == Len(b)
<1>2. /\ v \in Seq(S) /\ Len(v) = n + m /\ n \in Nat /\ m \in Nat
      /\ \A i \in 1..n : v[i] = a[i]
      /\ \A i \in 1..m : v[i + n] = b[i]
  BY JoinedPlaces
<1> DEFINE p == Reverse(v)  q == Reverse(a)  r == Reverse(b)
<1>3. /\ q \in Seq(S) /\ Len(q) = n /\ \A i \in 1..n : q[i] = a[(n - i) + 1]
      /\ r \in Seq(S) /\ Len(r) = m /\ \A i \in 1..m : r[i] = b[(m - i) + 1]
  BY <1>1
<1> HIDE DEF v
<1>4. p \in Seq(S) /\ Len(p) = n + m /\ \A i \in 1..(n + m) : p[i] = v[((n + m) - i) + 1]
  <2>1. p \in Seq(S) /\ Len(p) = Len(v) /\ \A i \in 1..Len(v) : p[i] = v[(Len(v) - i) + 1]
    BY <1>1, <1>2
  <2> HIDE DEF p
  <2> QED
    BY <1>2, <2>1
<1> HIDE DEF n, m, p, q, r
<1>5. /\ r \o q \in Seq(S) /\ Len(r \o q) = m + n
      /\ \A i \in 1..m : (r \o q)[i] = r[i]
      /\ \A i \in 1..n : (r \o q)[i + m] = q[i]
  <2>1. q \in Seq(S) /\ r \in Seq(S) /\ Len(q) = n /\ Len(r) = m
    BY <1>3
  <2>2. /\ r \o q \in Seq(S) /\ Len(r \o q) = Len(r) + Len(q)
        /\ \A i \in 1..Len(r) : (r \o q)[i] = r[i]
        /\ \A i \in 1..Len(q) : (r \o q)[i + Len(r)] = q[i]
    <3>1. q \in Seq(S) /\ r \in Seq(S)
      BY <2>1
    <3> QED
      BY <3>1, JoinedPlaces
  <2> QED
    BY <2>1, <2>2
<1>6. ASSUME NEW i \in 1..(n + m) PROVE p[i] = (r \o q)[i]
  <2>1. CASE i \in 1..m
    <3>1. (m - i) + 1 \in 1..m /\ ((m - i) + 1) + n = ((n + m) - i) + 1
      BY <1>2, <2>1
    <3>2. (r \o q)[i] = r[i] /\ r[i] = b[(m - i) + 1]
      BY <1>3, <1>5, <2>1
    <3>3. v[((m - i) + 1) + n] = b[(m - i) + 1]
      BY <1>2, <3>1
    <3>4. p[i] = v[((n + m) - i) + 1]
      BY <1>4
    <3> QED
      BY <3>1, <3>2, <3>3, <3>4
  <2>2. CASE i \notin 1..m
    <3>1. i - m \in 1..n /\ (i - m) + m = i /\ (n - (i - m)) + 1 = ((n + m) - i) + 1
          /\ ((n + m) - i) + 1 \in 1..n
      BY <1>2, <2>2
    <3>2. (r \o q)[i] = q[i - m]
      BY <1>5, <3>1
    <3>3. q[i - m] = a[(n - (i - m)) + 1]
      BY <1>3, <3>1
    <3>4. p[i] = v[((n + m) - i) + 1] /\ v[((n + m) - i) + 1] = a[((n + m) - i) + 1]
      BY <1>2, <1>4, <3>1
    <3> QED
      BY <3>1, <3>2, <3>3, <3>4
  <2> QED
    BY <2>1, <2>2
<1>7. p = r \o q
  <2>1. Len(p) = Len(r \o q)
    BY <1>2, <1>4, <1>5
  <2> QED
    BY <1>4, <1>5, <1>6, <2>1, SeqEqual
<1> QED
  BY <1>1, <1>7 DEF p, q, r, v

(* The place that is found for a pasted text is where it was put.          *)
LEMMA InsertedIs ==
  ASSUME NEW pre \in Seq(Characters), NEW mid \in Seq(Characters), NEW suf \in Seq(Characters),
         CommonPrefix(pre \o suf, pre \o (mid \o suf)) = Len(pre)
  PROVE  InsertedAt(pre \o suf, pre \o (mid \o suf)) = <<Len(pre) + 1, Len(pre) + Len(mid)>>
<1> DEFINE old == pre \o suf  w == mid \o suf  new == pre \o w
<1>1. /\ w \in Seq(Characters) /\ Len(w) = Len(mid) + Len(suf)
      /\ Len(pre) \in Nat /\ Len(mid) \in Nat /\ Len(suf) \in Nat
  BY JoinedPlaces
<1>2. SubSeq(old, Len(pre) + 1, Len(old)) = suf
  BY PutTogether
<1>3. Reverse(w) = Reverse(suf) \o Reverse(mid)
      /\ Reverse(suf) \in Seq(Characters) /\ Reverse(mid) \in Seq(Characters)
      /\ Len(Reverse(suf)) = Len(suf)
  BY ReverseIs
<1>4. CommonPrefix(Reverse(suf), Reverse(w)) = Len(suf)
  <2> DEFINE a == Reverse(suf)  b == Reverse(mid)
  <2>1. a \in Seq(Characters) /\ b \in Seq(Characters)
    BY <1>3
  <2> HIDE DEF a, b
  <2>2. CommonPrefix(a, a \o b) = Len(a)
    BY <2>1, CommonOfBeginning
  <2> QED
    BY <1>3, <2>2 DEF a, b
<1>5. CommonPrefix(old, new) = Len(pre)
  OBVIOUS
<1> HIDE DEF old, w
<1>6. SubSeq(new, Len(pre) + 1, Len(new)) = w /\ Len(new) = Len(pre) + Len(w)
  <2>1. w \in Seq(Characters)
    BY <1>1
  <2>2. SubSeq(new, Len(pre) + 1, Len(new)) = w
    BY <2>1, PutTogether
  <2>3. Len(new) = Len(pre) + Len(w)
    BY <2>1, JoinedPlaces
  <2> QED
    BY <2>2, <2>3
<1> HIDE DEF new
<1>7. InsertedAt(old, new) = <<Len(pre) + 1, Len(new) - Len(suf)>>
  BY <1>2, <1>4, <1>5, <1>6 DEF InsertedAt
<1>8. Len(new) - Len(suf) = Len(pre) + Len(mid)
  BY <1>1, <1>6
<1> QED
  BY <1>7, <1>8 DEF old, new, w

(* What is found of a text that was pasted in front of a draft.            *)
LEMMA PastedInFront ==
  ASSUME NEW s \in Seq(Characters), NEW text \in Seq(Characters)
  PROVE  \E pre, mid, suf \in Seq(Characters) :
           /\ s = pre \o suf /\ text \o s = pre \o (mid \o suf) /\ pre \o mid = text \o pre
           /\ CommonPrefix(s, text \o s) = Len(pre)
<1> DEFINE new == text \o s  p == CommonPrefix(s, new)
           pre == SubSeq(s, 1, p)  suf == SubSeq(s, p + 1, Len(s))  u == text \o pre
<1>1. /\ new \in Seq(Characters) /\ Len(new) = Len(text) + Len(s)
      /\ Len(text) \in Nat /\ Len(s) \in Nat
  BY JoinedPlaces
<1> HIDE DEF new
<1>2. p \in 0..Len(s) /\ p <= Len(new) /\ \A i \in 1..p : s[i] = new[i]
  BY <1>1, CommonIs
<1> HIDE DEF p
<1>3. /\ pre \in Seq(Characters) /\ Len(pre) = p /\ suf \in Seq(Characters)
      /\ s = pre \o suf /\ \A i \in 1..p : pre[i] = s[i]
  BY <1>2, CutAt
<1> HIDE DEF pre, suf
<1>4. /\ u \in Seq(Characters) /\ Len(u) = Len(text) + p
  BY <1>3, JoinedPlaces
<1>5. new = u \o suf
  <2>1. (text \o pre) \o suf = text \o (pre \o suf)
    BY <1>3, ConcatAssociative
  <2> QED
    BY <1>3, <2>1 DEF new
<1> HIDE DEF u
<1>6. \A i \in 1..Len(u) : new[i] = u[i]
  BY <1>3, <1>4, <1>5, JoinedPlaces
<1> DEFINE a == SubSeq(u, 1, p)  mid == SubSeq(u, p + 1, Len(u))
<1>7. p \in 0..Len(u) /\ p \in Nat
  BY <1>1, <1>2, <1>4
<1>8. /\ a \in Seq(Characters) /\ Len(a) = p /\ mid \in Seq(Characters)
      /\ u = a \o mid /\ \A i \in 1..p : a[i] = u[i]
  BY <1>4, <1>7, CutAt
<1> HIDE DEF a, mid
<1>9. a = pre
  <2>1. \A i \in 1..p : i \in 1..Len(u)
    BY <1>7
  <2>2. \A i \in 1..p : a[i] = pre[i]
    BY <1>2, <1>3, <1>6, <1>8, <2>1
  <2> QED
    BY <1>3, <1>8, <2>2, SeqEqual
<1>10. new = pre \o (mid \o suf)
  BY <1>3, <1>5, <1>8, <1>9, ConcatAssociative, SMTT(60)
<1>11. pre \o mid = text \o pre
  BY <1>8, <1>9 DEF u
<1> QED
  BY <1>3, <1>8, <1>10, <1>11 DEF new, p

(* A text that is pasted behind another stands there.                      *)
LEMMA PastedBehind ==
  ASSUME NEW s \in Seq(Characters), NEW text \in Seq(Characters)
  PROVE  LET none == <<>> IN
         /\ none \in Seq(Characters) /\ s = s \o none /\ s \o text = s \o (text \o none)
         /\ CommonPrefix(s, s \o text) = Len(s)
<1>1. <<>> \in Seq(Characters)
  BY EmptySeq
<1>2. s = s \o <<>> /\ text = text \o <<>>
  BY ConcatEmptySeq
<1>3. CommonPrefix(s, s \o text) = Len(s)
  BY CommonOfBeginning
<1> QED
  BY <1>1, <1>2, <1>3

----------------------------------------------------------------------------

(* A letter, a hash and a digit begin a placeholder.                       *)
LEMMA TokenStarts ==
  ASSUME NEW s \in Seq(Characters), NEW i \in 1..Len(s),
         i + 2 <= Len(s), s[i] = "P", s[i + 1] = "#", IsDigit(s[i + 2])
  PROVE  \E t \in Tokens(s) : t[1] = i
<1> DEFINE n == Len(s)
           K == {k \in Nat : i + 2 < k /\ (k = n + 1 \/ ~IsDigit(s[k]))}
<1>1. n \in Nat /\ i \in Nat
  OBVIOUS
<1>2. PICK j \in K : \A k \in K : j <= k
  <2>1. K \in SUBSET Nat /\ n + 1 \in K
    BY <1>1
  <2>2. K # {}
    BY <2>1
  <2> HIDE DEF K
  <2> QED
    BY <2>1, <2>2, LeastExists
<1>3. n + 1 \in K
  BY <1>1
<1>4. j \in Nat /\ i + 2 < j /\ j <= n + 1 /\ (j = n + 1 \/ ~IsDigit(s[j]))
  BY <1>1, <1>2, <1>3
<1>5. \A k \in (i + 2)..(j - 1) : IsDigit(s[k])
  <2> TAKE k \in (i + 2)..(j - 1)
  <2>1. CASE k = i + 2
    BY <2>1
  <2>2. CASE k # i + 2
    <3>1. k \in Nat /\ i + 2 < k /\ k < j
      BY <1>1, <1>4, <2>2
    <3>2. k \notin K
      BY <1>2, <3>1
    <3> QED
      BY <3>1, <3>2
  <2> QED
    BY <2>1, <2>2
<1>6. TokenAt(s, i, j)
  BY <1>4, <1>5 DEF TokenAt
<1>7. <<i, j>> \in Tokens(s)
  BY <1>4, <1>6, TokensAre
<1> QED
  BY <1>7

(* No placeholder begins in what a draft has in common with a text that was *)
(* pasted in front of it, if its placeholders are found behind the new one.*)
LEMMA FrontTokens ==
  ASSUME NEW pre \in Seq(Characters), NEW suf \in Seq(Characters), NEW id \in 1..9,
         Tokens(pre \o (PasteToken(id) \o suf))
           = Moved(Tokens(pre \o suf), 3) \cup {<<Len(pre) + 1, (Len(pre) + 1) + 3>>}
  PROVE  /\ Tokens(pre) = {}
         /\ {t \in Tokens(pre \o suf) : t[1] <= Len(pre)} = {}
         /\ {t \in Tokens(pre \o (PasteToken(id) \o suf)) : t[1] <= Len(pre)} = {}
         /\ {t \in Tokens(PasteToken(id) \o suf) : t[1] <= 3} = {<<1, 4>>}
<1> DEFINE p == Len(pre)  tok == PasteToken(id)  w == tok \o suf  v == pre \o w  s == pre \o suf
<1>1. tok \in Seq(Characters) /\ Len(tok) = 3 /\ tok[1] = "P" /\ tok[2] = "#" /\ tok[3] = Digits[id]
  <2>1. tok \in Seq(Characters) /\ Len(tok) = 3
    <3>1. <<>> \in Seq(Block)
      BY EmptySeq
    <3> QED
      BY <3>1, PlaceholderIs
  <2> QED
    BY <2>1 DEF PasteToken
<1> HIDE DEF tok
<1>2. /\ w \in Seq(Characters) /\ Len(w) = 3 + Len(suf)
      /\ \A i \in 1..3 : w[i] = tok[i]
  <2>1. /\ w \in Seq(Characters) /\ Len(w) = Len(tok) + Len(suf)
        /\ \A i \in 1..Len(tok) : w[i] = tok[i]
    <3>1. tok \in Seq(Characters)
      BY <1>1
    <3> QED
      BY <3>1, JoinedPlaces
  <2> HIDE DEF w
  <2> QED
    BY <1>1, <2>1
<1> HIDE DEF w
<1>3. /\ v \in Seq(Characters) /\ Len(v) = p + Len(w) /\ p \in Nat /\ Len(w) \in Nat
      /\ \A i \in 1..p : v[i] = pre[i]
      /\ \A i \in 1..Len(w) : v[i + p] = w[i]
  <2>1. w \in Seq(Characters)
    BY <1>2
  <2> QED
    BY <2>1, JoinedPlaces
<1>4. /\ s \in Seq(Characters) /\ Len(s) = p + Len(suf) /\ Len(suf) \in Nat
      /\ \A i \in 1..p : s[i] = pre[i]
  BY JoinedPlaces
<1>5. Tokens(v) = Moved(Tokens(s), 3) \cup {<<p + 1, (p + 1) + 3>>}
  BY DEF w, tok
<1> HIDE DEF v, s, p
<1>6. Len(v) = Len(s) + 3 /\ p + 3 <= Len(v) /\ p <= Len(s)
  BY <1>2, <1>3, <1>4
<1>7. v[p + 1] = "P" /\ v[p + 2] = "#" /\ v[p + 3] = Digits[id]
  <2>1. 1 \in 1..Len(w) /\ 2 \in 1..Len(w) /\ 3 \in 1..Len(w)
    BY <1>2, <1>4
  <2>2. v[1 + p] = w[1] /\ v[2 + p] = w[2] /\ v[3 + p] = w[3]
    BY <1>3, <2>1
  <2>3. w[1] = "P" /\ w[2] = "#" /\ w[3] = Digits[id]
    BY <1>1, <1>2
  <2>4. 1 + p = p + 1 /\ 2 + p = p + 2 /\ 3 + p = p + 3
    BY <1>3
  <2> QED
    BY <2>2, <2>3, <2>4
<1>8. \A t \in Tokens(v) : t = <<p + 1, (p + 1) + 3>> \/ \E u \in Tokens(s) : t = <<u[1] + 3, u[2] + 3>>
  BY <1>5 DEF Moved
<1>9. \A u \in Tokens(s) : <<u[1] + 3, u[2] + 3>> \in Tokens(v)
  BY <1>5 DEF Moved
<1> DEFINE early == {i \in 1..p : \E t \in Tokens(s) : t[1] = i}
<1>10. early = {}
  <2> SUFFICES ASSUME early # {} PROVE FALSE
    OBVIOUS
  <2>1. early \in SUBSET Nat
    BY <1>3
  <2> HIDE DEF early
  <2>2. PICK i \in early : \A j \in early : i <= j
    BY <2>1, LeastExists
  <2>3. i \in 1..p /\ \E t \in Tokens(s) : t[1] = i
    BY <2>2 DEF early
  <2>4. PICK t \in Tokens(s) : t[1] = i
    BY <2>3
  <2>5. /\ t[2] \in 1..(Len(s) + 1) /\ i + 2 < t[2] /\ s[i] = "P" /\ s[i + 1] = "#"
        /\ \A k \in (i + 2)..(t[2] - 1) : IsDigit(s[k])
    <3>1. t[2] \in 1..(Len(s) + 1) /\ TokenAt(s, t[1], t[2])
      BY <1>4, TokensAre
    <3> QED
      BY <2>4, <3>1 DEF TokenAt
  <2>6. v[i + 3] = "P"
    <3> DEFINE u == <<t[1] + 3, t[2] + 3>>
    <3>1. u \in Tokens(v) /\ u[1] = i + 3
      BY <1>9, <2>4
    <3> HIDE DEF u
    <3>2. TokenAt(v, u[1], u[2])
      BY <1>3, <3>1, TokensAre
    <3> QED
      BY <3>1, <3>2 DEF TokenAt
  <2>7. i # p
    <3>1. Digits[id] # "P"
      BY DigitsDiffer, NoDigits
    <3> QED
      BY <1>7, <2>6, <3>1
  <2>8. i # p - 1
    <3>1. (p - 1) + 3 = p + 2
      BY <1>3
    <3> QED
      BY <1>7, <2>6, <3>1
  <2>9. i + 2 \in 1..p /\ i + 1 \in 1..p
    BY <1>3, <2>3, <2>7, <2>8
  <2>10. v[i] = "P" /\ v[i + 1] = "#" /\ IsDigit(v[i + 2])
    <3>1. i + 2 \in (i + 2)..(t[2] - 1)
      BY <1>4, <2>3, <2>5
    <3>2. IsDigit(s[i + 2])
      BY <2>5, <3>1
    <3>3. v[i] = s[i] /\ v[i + 1] = s[i + 1] /\ v[i + 2] = s[i + 2]
      BY <1>3, <1>4, <2>3, <2>9
    <3> QED
      BY <2>5, <3>2, <3>3
  <2>11. i \in 1..Len(v) /\ i + 2 <= Len(v)
    BY <1>3, <1>6, <2>3, <2>9
  <2>12. PICK x \in Tokens(v) : x[1] = i
    BY <1>3, <2>10, <2>11, TokenStarts
  <2>13. x # <<p + 1, (p + 1) + 3>>
    BY <1>3, <2>3, <2>12
  <2>14. PICK y \in Tokens(s) : x = <<y[1] + 3, y[2] + 3>>
    BY <1>8, <2>12, <2>13
  <2>15. y[1] \in 1..Len(s)
    BY <1>4, TokensAre
  <2>16. y[1] + 3 = i
    BY <2>12, <2>14
  <2>17. y[1] \in 1..p /\ y[1] < i
    BY <1>3, <1>4, <2>3, <2>15, <2>16
  <2>18. y[1] \in early
    BY <2>17 DEF early
  <2> QED
    BY <2>1, <2>2, <2>17, <2>18
<1>11. \A t \in Tokens(s) : t[1] \in Nat /\ t[1] > p
  <2> TAKE t \in Tokens(s)
  <2>1. t[1] \in 1..Len(s)
    BY <1>4, TokensAre
  <2>2. t[1] \notin 1..p
    BY <1>10
  <2> QED
    BY <1>3, <1>4, <2>1, <2>2
<1>12. Tokens(pre) = {}
  <2> SUFFICES ASSUME NEW t \in Tokens(pre) PROVE FALSE
    OBVIOUS
  <2>1. t[1] \in 1..p /\ t[2] \in 1..(p + 1) /\ TokenAt(pre, t[1], t[2]) /\ t[1] + 2 < t[2]
    BY TokensAre DEF p
  <2> DEFINE i == t[1]
  <2>2. i \in 1..p /\ i + 1 \in 1..p /\ i + 2 \in 1..p /\ i + 2 \in (i + 2)..(t[2] - 1)
    BY <1>3, <2>1, SMTT(60)
  <2>3. pre[i] = "P" /\ pre[i + 1] = "#" /\ IsDigit(pre[i + 2])
    BY <2>1, <2>2 DEF TokenAt
  <2> HIDE DEF i
  <2>4. s[i] = "P" /\ s[i + 1] = "#" /\ IsDigit(s[i + 2])
    BY <1>4, <2>2, <2>3
  <2>5. i \in 1..Len(s) /\ i + 2 <= Len(s)
    BY <1>3, <1>4, <2>2
  <2>6. \E x \in Tokens(s) : x[1] = i
    BY <1>4, <2>4, <2>5, TokenStarts
  <2> QED
    BY <1>3, <1>11, <2>2, <2>6
<1>13. {t \in Tokens(s) : t[1] <= p} = {}
  BY <1>3, <1>11
<1>14. {t \in Tokens(v) : t[1] <= p} = {}
  <2> SUFFICES ASSUME NEW t \in Tokens(v), t[1] <= p PROVE FALSE
    OBVIOUS
  <2>1. t # <<p + 1, (p + 1) + 3>>
    BY <1>3
  <2>2. PICK u \in Tokens(s) : t = <<u[1] + 3, u[2] + 3>>
    BY <1>8, <2>1
  <2>3. t[1] = u[1] + 3
    BY <2>2
  <2> QED
    BY <1>3, <1>11, <2>3
<1>15. {t \in Tokens(w) : t[1] <= 3} = {<<1, 4>>}
  <2>1. /\ \A t \in Tokens(w) : <<t[1] + p, t[2] + p>> \in Tokens(v)
        /\ \A t \in Tokens(v) : t[1] > p => <<t[1] - p, t[2] - p>> \in Tokens(w)
    BY <1>2, JoinedTokens DEF v, p
  <2>2. <<1, 4>> \in Tokens(w)
    <3> DEFINE u == <<p + 1, (p + 1) + 3>>
    <3>1. u \in Tokens(v) /\ u[1] = p + 1 /\ u[2] = (p + 1) + 3
      BY <1>5
    <3> HIDE DEF u
    <3>2. u[1] > p /\ u[1] - p = 1 /\ u[2] - p = 4
      BY <1>3, <3>1
    <3>3. <<u[1] - p, u[2] - p>> \in Tokens(w)
      BY <2>1, <3>1, <3>2
    <3> QED
      BY <3>2, <3>3
  <2>3. ASSUME NEW t \in Tokens(w), t[1] <= 3 PROVE t = <<1, 4>>
    <3>1. t = <<t[1], t[2]>> /\ t[1] \in 1..Len(w) /\ t[2] \in 1..(Len(w) + 1)
      BY <1>2, TokensAre
    <3> DEFINE x == <<t[1] + p, t[2] + p>>
    <3>2. x \in Tokens(v) /\ x[1] = t[1] + p /\ x[2] = t[2] + p
      BY <2>1
    <3> HIDE DEF x
    <3>3. CASE x = <<p + 1, (p + 1) + 3>>
      <4>1. x[1] = p + 1 /\ x[2] = (p + 1) + 3
        BY <3>3
      <4>2. t[1] = 1 /\ t[2] = 4
        BY <1>3, <3>1, <3>2, <4>1
      <4> QED
        BY <3>1, <4>2
    <3>4. CASE x # <<p + 1, (p + 1) + 3>>
      <4>1. PICK u \in Tokens(s) : x = <<u[1] + 3, u[2] + 3>>
        BY <1>8, <3>2, <3>4
      <4>2. t[1] + p = u[1] + 3
        BY <3>2, <4>1
      <4> QED
        BY <1>3, <1>11, <2>3, <3>1, <4>2
    <3> QED
      BY <3>3, <3>4
  <2> QED
    BY <2>2, <2>3
<1> QED
  BY <1>12, <1>13, <1>14, <1>15 DEF p, tok, w, v, s

----------------------------------------------------------------------------
(* The invariant of the draft, and what each step makes of it.             *)

(* A text between two parts of a draft, put aside with a new number.       *)
LEMMA PutAside ==
  ASSUME NEW pre \in Seq(Characters), NEW mid \in Seq(Characters), NEW suf \in Seq(Characters),
         NEW id \in 1..9, NEW blocks \in Seq(Block), IdsBelow(blocks, id), Known(pre \o suf, id),
         {t \in Tokens(pre \o suf) : t[1] <= Len(pre)} = Tokens(pre),
         {t \in Tokens(pre \o (PasteToken(id) \o suf)) : t[1] <= Len(pre)} = Tokens(pre),
         {t \in Tokens(PasteToken(id) \o suf) : t[1] <= 3} = {<<1, 4>>}
  PROVE  LET more == Append(blocks, [id |-> id, text |-> mid]) IN
         /\ Expand(pre \o (PasteToken(id) \o suf), more)
              = Expand(pre, blocks) \o (mid \o Expand(suf, blocks))
         /\ Known(pre \o (PasteToken(id) \o suf), id + 1)
         /\ Expand(pre \o suf, blocks) = Expand(pre, blocks) \o Expand(suf, blocks)
         /\ Expand(pre, blocks) \in Seq(Characters) /\ Expand(suf, blocks) \in Seq(Characters)
<1> DEFINE more == Append(blocks, [id |-> id, text |-> mid])
           tok == PasteToken(id)  w == tok \o suf  v == pre \o w
<1>1. /\ more \in Seq(Block) /\ TextOf(<<Digits[id]>>, more) = mid
      /\ \A k \in 1..9 : k < id => TextOf(<<Digits[k]>>, more) = TextOf(<<Digits[k]>>, blocks)
  BY NewText
<1> HIDE DEF more
<1>2. /\ tok \in Seq(Characters) /\ Len(tok) = 3 /\ Tokens(tok) = {<<1, 4>>}
      /\ SubSeq(tok, 3, 3) = <<Digits[id]>> /\ Expand(tok, more) = mid
  BY <1>1, PlaceholderIs
<1>3. Known(tok, id + 1)
  <2> SUFFICES ASSUME NEW t \in Tokens(tok)
               PROVE  \E k \in 1..9 : k < id + 1 /\ Number(tok, t) = <<Digits[k]>>
    BY DEF Known
  <2> HIDE DEF tok
  <2>1. t = <<1, 4>>
    BY <1>2
  <2>2. Number(tok, t) = SubSeq(tok, 3, 3)
    BY <2>1 DEF Number
  <2>3. id < id + 1
    OBVIOUS
  <2> QED
    BY <1>2, <2>2, <2>3
<1>4. {t \in Tokens(w) : t[1] <= Len(tok)} = Tokens(tok)
  BY <1>2
<1>5. {t \in Tokens(v) : t[1] <= Len(pre)} = Tokens(pre)
  OBVIOUS
<1>6. /\ Expand(pre \o suf, blocks) = Expand(pre, blocks) \o Expand(suf, blocks)
      /\ Expand(pre, blocks) \in Seq(Characters) /\ Expand(suf, blocks) \in Seq(Characters)
  BY JoinedExpands
<1>7. Known(pre, id) /\ Known(suf, id)
  BY JoinedKnown
<1> HIDE DEF tok
<1>8. Expand(pre, more) = Expand(pre, blocks) /\ Expand(suf, more) = Expand(suf, blocks)
  BY <1>1, <1>7, KnownExpands
<1>9. w \in Seq(Characters)
  BY <1>2, JoinedPlaces
<1>10. Expand(w, more) = mid \o Expand(suf, blocks)
  <2>1. Expand(w, more) = Expand(tok, more) \o Expand(suf, more)
    BY <1>1, <1>2, <1>4, JoinedExpands
  <2> QED
    BY <1>2, <1>8, <2>1
<1>11. Known(w, id + 1)
  <2>1. Known(suf, id + 1)
    BY <1>7 DEF Known
  <2> QED
    BY <1>2, <1>3, <1>4, <2>1, JoinedKnown
<1> HIDE DEF w
<1>12. Expand(v, more) = Expand(pre, blocks) \o (mid \o Expand(suf, blocks))
  <2>1. Expand(v, more) = Expand(pre, more) \o Expand(w, more)
    BY <1>1, <1>5, <1>9, JoinedExpands
  <2> QED
    BY <1>8, <1>10, <2>1
<1>13. Known(v, id + 1)
  <2>1. Known(pre, id + 1)
    BY <1>7 DEF Known
  <2> QED
    BY <1>5, <1>9, <1>11, <2>1, JoinedKnown
<1> QED
  BY <1>6, <1>12, <1>13 DEF v, w, tok, more

----------------------------------------------------------------------------
(* The invariant of the drafts, of the one at hand and of those kept.      *)
Drafted(draft, blocks, full, broken, n) ==
  /\ draft \in Seq(Characters) /\ full \in Seq(Characters) /\ blocks \in Seq(Block)
  /\ IdsBelow(blocks, n)
  /\ ~broken => Known(draft, n) /\ Expand(draft, blocks) = full

(* The drafts of the history and the one that is kept when the history is  *)
(* opened.                                                                 *)
Kept(n) ==
  {item \in [draft : Seq(Characters), blocks : Seq(Block), meant : Seq(Characters),
             touched : BOOLEAN] :
     Drafted(item.draft, item.blocks, item.meant, item.touched, n)}

(* The invariant of the draft: what is on the screen, in the history and   *)
(* set aside is what was meant, unless a placeholder was touched.          *)
ComposerInv ==
  /\ nextPasteId \in Nat \ {0} /\ touched \in BOOLEAN
  /\ Drafted(value, pasteBlocks, meant, touched, nextPasteId)
  /\ history \in Seq(Kept(nextPasteId)) /\ historyIdx \in 0..Len(history)
  /\ savedDraft \in Seq(Kept(nextPasteId))

(* Placeholders that are moved by nothing stay.                            *)
LEMMA MovedTokens ==
  ASSUME NEW s \in Seq(Characters)
  PROVE  Moved(Tokens(s), 0) = Tokens(s)
<1>1. \A t \in Tokens(s) : <<t[1] + 0, t[2] + 0>> = t
  <2> TAKE t \in Tokens(s)
  <2>1. t = <<t[1], t[2]>> /\ t[1] \in 1..Len(s) /\ t[2] \in 1..(Len(s) + 1) /\ Len(s) \in Nat
    BY TokensAre
  <2>2. t[1] + 0 = t[1] /\ t[2] + 0 = t[2]
    BY <2>1
  <2> QED
    BY <2>1, <2>2
<1> QED
  BY <1>1 DEF Moved

(* A key in front of a draft, when the placeholders only move.             *)
LEMMA KeyInFront ==
  ASSUME NEW s \in Seq(Characters), NEW c \in Characters, NEW blocks \in Seq(Block), NEW n,
         Tokens(<<c>> \o s) = Moved(Tokens(s), 1), Known(s, n)
  PROVE  Expand(<<c>> \o s, blocks) = <<c>> \o Expand(s, blocks) /\ Known(<<c>> \o s, n)
<1> DEFINE a == <<c>>  v == a \o s
<1>1. a \in Seq(Characters) /\ Len(a) = 1 /\ Tokens(a) = {} /\ Expand(a, blocks) = a
  BY OneCharacter
<1>2. Tokens(v) = Moved(Tokens(s), 1)
  OBVIOUS
<1> HIDE DEF a
<1>3. {t \in Tokens(v) : t[1] <= Len(a)} = {}
  <2> SUFFICES ASSUME NEW t \in Tokens(v), t[1] <= 1 PROVE FALSE
    BY <1>1
  <2>1. PICK u \in Tokens(s) : t = <<u[1] + 1, u[2] + 1>>
    BY <1>2 DEF Moved
  <2>2. u[1] \in 1..Len(s) /\ t[1] = u[1] + 1
    BY <2>1, TokensAre
  <2> QED
    BY <2>2
<1>4. {t \in Tokens(a \o s) : t[1] <= Len(a)} = Tokens(a)
  BY <1>1, <1>3
<1>5. Expand(v, blocks) = Expand(a, blocks) \o Expand(s, blocks)
  BY <1>1, <1>4, JoinedExpands
<1>6. Known(a, n)
  BY <1>1 DEF Known
<1>7. Known(v, n)
  BY <1>1, <1>4, <1>6, JoinedKnown
<1> QED
  BY <1>1, <1>5, <1>7 DEF a

(* A key at the end, read forward for a key and backward for a backspace.  *)
LEMMA KeyBehind ==
  ASSUME NEW s \in Seq(Characters), NEW c \in Characters, NEW blocks \in Seq(Block), NEW n,
         Tokens(Append(s, c)) = Tokens(s)
  PROVE  /\ Expand(Append(s, c), blocks) = Append(Expand(s, blocks), c)
         /\ Known(Append(s, c), n) <=> Known(s, n)
         /\ Expand(s, blocks) \in Seq(Characters)
<1> DEFINE b == <<c>>  v == s \o b
<1>1. b \in Seq(Characters) /\ Len(b) = 1 /\ Tokens(b) = {} /\ Expand(b, blocks) = b
  BY OneCharacter
<1>2. Append(s, c) = v
  BY AppendIsConcat
<1>3. Tokens(v) = Tokens(s)
  BY <1>2
<1> HIDE DEF b
<1>4. {t \in Tokens(s \o b) : t[1] <= Len(s)} = Tokens(s)
  <2>1. \A t \in Tokens(s) : t[1] <= Len(s)
    <3> TAKE t \in Tokens(s)
    <3>1. t[1] \in 1..Len(s)
      BY TokensAre
    <3> QED
      BY <3>1
  <2> QED
    BY <1>3, <2>1
<1>5. Expand(v, blocks) = Expand(s, blocks) \o Expand(b, blocks) /\ Expand(s, blocks) \in Seq(Characters)
  BY <1>1, <1>4, JoinedExpands
<1>6. Known(b, n)
  BY <1>1 DEF Known
<1>7. Known(v, n) <=> Known(s, n)
  BY <1>1, <1>4, <1>6, JoinedKnown
<1>8. Append(Expand(s, blocks), c) = Expand(s, blocks) \o <<c>>
  BY <1>5, AppendIsConcat
<1> QED
  BY <1>1, <1>2, <1>5, <1>7, <1>8 DEF b

(* A text with another in front of it or behind it.                        *)
With(s, text, front) == IF front THEN text \o s ELSE s \o text

(* What handleChange makes of a pasted text: its placeholder where it was  *)
(* found.                                                                  *)
Around(new, at, id) ==
  SubSeq(new, 1, at[1] - 1) \o PasteToken(id) \o SubSeq(new, at[2] + 1, Len(new))

(* What stands before the place and after it.                              *)
PartedBy(s, text, front, id, new, at, pre, mid, suf) ==
  /\ s = pre \o suf /\ at[1] = Len(pre) + 1 /\ SubSeq(new, at[1], at[2]) = mid
  /\ Around(new, at, id) = pre \o (PasteToken(id) \o suf)
  /\ front => pre \o mid = text \o pre
  /\ ~front => pre = s /\ mid = text /\ suf = <<>>

(* There are such parts, for every text that is pasted.                    *)
LEMMA PasteIs ==
  ASSUME NEW s \in Seq(Characters), NEW text \in Seq(Characters), NEW front \in BOOLEAN,
         NEW id \in 1..9, NEW new, NEW at, new = With(s, text, front), at = InsertedAt(s, new)
  PROVE  \E pre, mid, suf \in Seq(Characters) : PartedBy(s, text, front, id, new, at, pre, mid, suf)
<1>1. \E pre, mid, suf \in Seq(Characters) :
        /\ s = pre \o suf /\ new = pre \o (mid \o suf) /\ CommonPrefix(s, new) = Len(pre)
        /\ front => pre \o mid = text \o pre
        /\ ~front => pre = s /\ mid = text /\ suf = <<>>
  <2>1. CASE front
    <3>1. new = text \o s
      BY <2>1 DEF With
    <3>2. \E pre, mid, suf \in Seq(Characters) :
            /\ s = pre \o suf /\ text \o s = pre \o (mid \o suf) /\ pre \o mid = text \o pre
            /\ CommonPrefix(s, text \o s) = Len(pre)
      BY PastedInFront
    <3> QED
      BY <2>1, <3>1, <3>2
  <2>2. CASE ~front
    <3> DEFINE none == <<>>
    <3>1. new = s \o text
      BY <2>2 DEF With
    <3>2. none \in Seq(Characters) /\ s = s \o none /\ s \o text = s \o (text \o none)
          /\ CommonPrefix(s, s \o text) = Len(s)
      BY PastedBehind
    <3>3. /\ s = s \o none /\ new = s \o (text \o none) /\ CommonPrefix(s, new) = Len(s)
          /\ front => s \o text = text \o s
          /\ ~front => s = s /\ text = text /\ none = <<>>
      BY <2>2, <3>1, <3>2
    <3> HIDE DEF none
    <3> QED
      BY <3>2, <3>3
  <2> QED
    BY <2>1, <2>2
<1>2. PICK pre \in Seq(Characters), mid \in Seq(Characters), suf \in Seq(Characters) :
        /\ s = pre \o suf /\ new = pre \o (mid \o suf) /\ CommonPrefix(s, new) = Len(pre)
        /\ front => pre \o mid = text \o pre
        /\ ~front => pre = s /\ mid = text /\ suf = <<>>
  BY <1>1
<1> DEFINE tok == PasteToken(id)
<1>3. at = <<Len(pre) + 1, Len(pre) + Len(mid)>>
  <2>1. CommonPrefix(pre \o suf, pre \o (mid \o suf)) = Len(pre)
    BY <1>2
  <2>2. InsertedAt(pre \o suf, pre \o (mid \o suf)) = <<Len(pre) + 1, Len(pre) + Len(mid)>>
    BY <2>1, InsertedIs
  <2> QED
    BY <1>2, <2>2
<1>4. at[1] = Len(pre) + 1 /\ at[2] = Len(pre) + Len(mid) /\ at[1] - 1 = Len(pre)
  <2>1. at[1] = Len(pre) + 1 /\ at[2] = Len(pre) + Len(mid) /\ Len(pre) \in Nat
    BY <1>3
  <2> QED
    BY <2>1
<1>5. /\ SubSeq(new, 1, Len(pre)) = pre
      /\ SubSeq(new, Len(pre) + 1, Len(pre) + Len(mid)) = mid
      /\ SubSeq(new, Len(pre) + Len(mid) + 1, Len(new)) = suf
  <2> DEFINE w == pre \o (mid \o suf)
  <2>1. /\ SubSeq(w, 1, Len(pre)) = pre
        /\ SubSeq(w, Len(pre) + 1, Len(pre) + Len(mid)) = mid
        /\ SubSeq(w, Len(pre) + Len(mid) + 1, Len(w)) = suf
    BY PutBetween
  <2>2. new = w
    BY <1>2
  <2> HIDE DEF w
  <2> QED
    BY <2>1, <2>2
<1>6. tok \in Seq(Characters)
  <2>1. <<>> \in Seq(Block)
    BY EmptySeq
  <2> QED
    BY <2>1, PlaceholderIs
<1> HIDE DEF tok
<1>7. (pre \o tok) \o suf = pre \o (tok \o suf)
  BY <1>6, ConcatAssociative
<1>8. Around(new, at, id) = pre \o (tok \o suf)
  BY <1>4, <1>5, <1>7 DEF Around, tok
<1>9. SubSeq(new, at[1], at[2]) = mid
  BY <1>4, <1>5
<1>10. /\ s = pre \o suf /\ at[1] = Len(pre) + 1 /\ SubSeq(new, at[1], at[2]) = mid
       /\ Around(new, at, id) = pre \o (PasteToken(id) \o suf)
       /\ front => pre \o mid = text \o pre
       /\ ~front => pre = s /\ mid = text /\ suf = <<>>
  BY <1>2, <1>4, <1>8, <1>9 DEF tok
<1> QED
  BY <1>10 DEF PartedBy

(* Three texts are joined in any order.                                    *)
LEMMA JoinedThrice ==
  \A a, b, c \in Seq(Characters) : (a \o b) \o c = a \o (b \o c)
BY ConcatAssociative

(* The draft after a text was pasted, and the block it was put aside in.   *)
PastedWell(s, text, front, id, blocks, v, place, mid) ==
  LET more == Append(blocks, [id |-> id, text |-> mid]) IN
  /\ v \in Seq(Characters) /\ more \in Seq(Block) /\ IdsBelow(more, id + 1)
  /\ /\ Known(s, id)
     /\ Tokens(v) = Moved(Tokens(s), IF front THEN 3 ELSE 0) \cup {<<place, place + 3>>}
     => Known(v, id + 1) /\ Expand(v, more) = With(Expand(s, blocks), text, front)

(* A pasted text is expanded again to where it was pasted.                 *)
LEMMA PasteExpands ==
  ASSUME NEW s \in Seq(Characters), NEW text \in Seq(Characters), NEW front \in BOOLEAN,
         NEW id \in 1..9, NEW blocks \in Seq(Block), IdsBelow(blocks, id), NEW new, NEW at,
         new = With(s, text, front), at = InsertedAt(s, new)
  PROVE  PastedWell(s, text, front, id, blocks, Around(new, at, id), at[1], SubSeq(new, at[1], at[2]))
<1> DEFINE tok == PasteToken(id)
<1>0. PICK pre \in Seq(Characters), mid \in Seq(Characters), suf \in Seq(Characters) :
        PartedBy(s, text, front, id, new, at, pre, mid, suf)
  BY PasteIs
<1>1. /\ s = pre \o suf /\ at[1] = Len(pre) + 1 /\ SubSeq(new, at[1], at[2]) = mid
      /\ Around(new, at, id) = pre \o (tok \o suf)
      /\ front => pre \o mid = text \o pre
      /\ ~front => pre = s /\ mid = text /\ suf = <<>>
  BY <1>0 DEF PartedBy
<1> DEFINE v == pre \o (tok \o suf)  block == [id |-> id, text |-> mid]
           more == Append(blocks, block)
<1>2. tok \in Seq(Characters) /\ Len(tok) = 3 /\ Tokens(tok) = {<<1, 4>>}
  BY PlaceholderIs
<1>3. v \in Seq(Characters)
  <2> HIDE DEF tok
  <2>1. tok \o suf \in Seq(Characters)
    BY <1>2, JoinedPlaces
  <2> QED
    BY <2>1, JoinedPlaces
<1>4. more \in Seq(Block) /\ IdsBelow(more, id + 1)
  BY NewText
<1>5. ASSUME Known(s, id),
             Tokens(v) = Moved(Tokens(s), IF front THEN 3 ELSE 0) \cup {<<at[1], at[1] + 3>>}
      PROVE  Known(v, id + 1) /\ Expand(v, more) = With(Expand(s, blocks), text, front)
  <2>1. /\ {t \in Tokens(pre \o suf) : t[1] <= Len(pre)} = Tokens(pre)
        /\ {t \in Tokens(v) : t[1] <= Len(pre)} = Tokens(pre)
        /\ {t \in Tokens(tok \o suf) : t[1] <= 3} = {<<1, 4>>}
        /\ front => Tokens(pre) = {}
    <3>1. CASE front
      <4>1. Tokens(v) = Moved(Tokens(pre \o suf), 3) \cup {<<Len(pre) + 1, (Len(pre) + 1) + 3>>}
        BY <1>1, <1>5, <3>1
      <4> QED
        BY <4>1, FrontTokens, ZenonT(60)
    <3>2. CASE ~front
      <4> HIDE DEF tok
      <4>1. pre = s /\ suf = <<>> /\ tok \o suf = tok /\ pre \o suf = s
        BY <1>1, <1>2, <3>2, ConcatEmptySeq
      <4>2. \A t \in Tokens(s) : t[1] <= Len(s)
        <5> TAKE t \in Tokens(s)
        <5>1. t[1] \in 1..Len(s)
          BY TokensAre
        <5> QED
          BY <5>1
      <4>3. {t \in Tokens(tok \o suf) : t[1] <= 3} = {<<1, 4>>}
        BY <1>2, <4>1
      <4>4. Tokens(v) = Tokens(s) \cup {<<Len(s) + 1, at[1] + 3>>}
        BY <1>1, <1>5, <3>2, <4>1, MovedTokens
      <4>5. {t \in Tokens(v) : t[1] <= Len(s)} = Tokens(s)
        <5>1. ~ (Len(s) + 1 <= Len(s))
          OBVIOUS
        <5> HIDE DEF v
        <5> QED
          BY <4>2, <4>4, <5>1
      <4>6. {t \in Tokens(s) : t[1] <= Len(s)} = Tokens(s)
        BY <4>2
      <4> HIDE DEF v
      <4> QED
        BY <3>2, <4>1, <4>3, <4>5, <4>6
    <3> QED
      BY <3>1, <3>2
  <2>2. Known(pre \o suf, id)
    BY <1>1, <1>5
  <2>3. /\ Expand(v, more) = Expand(pre, blocks) \o (mid \o Expand(suf, blocks))
        /\ Known(v, id + 1)
        /\ Expand(pre \o suf, blocks) = Expand(pre, blocks) \o Expand(suf, blocks)
        /\ Expand(pre, blocks) \in Seq(Characters) /\ Expand(suf, blocks) \in Seq(Characters)
    BY <2>1, <2>2, PutAside
  <2> HIDE DEF v, more
  <2>4. CASE front
    <3> DEFINE e == Expand(suf, blocks)
    <3>1. Expand(pre, blocks) = pre
      BY <2>1, <2>4, NoneExpands
    <3> HIDE DEF e
    <3>2. e \in Seq(Characters) /\ Expand(v, more) = pre \o (mid \o e) /\ Expand(s, blocks) = pre \o e
      <4>1. s = pre \o suf
        BY <1>1
      <4>2. Expand(v, more) = pre \o (mid \o Expand(suf, blocks))
        BY <2>3, <3>1, Zenon
      <4>3. Expand(s, blocks) = pre \o Expand(suf, blocks)
        BY <2>3, <3>1, <4>1, Zenon
      <4>4. e \in Seq(Characters)
        BY <2>3 DEF e
      <4>5. Expand(v, more) = pre \o (mid \o e)
        BY <4>2, Zenon DEF e
      <4>6. Expand(s, blocks) = pre \o e
        BY <4>3, Zenon DEF e
      <4> QED
        BY <4>4, <4>5, <4>6, Zenon
    <3>3. pre \o (mid \o e) = (pre \o mid) \o e /\ (text \o pre) \o e = text \o (pre \o e)
      <4>1. e \in Seq(Characters)
        BY <3>2
      <4>2. (pre \o mid) \o e = pre \o (mid \o e)
        BY <4>1, JoinedThrice, ZenonT(60)
      <4>3. (text \o pre) \o e = text \o (pre \o e)
        BY <4>1, JoinedThrice, ZenonT(60)
      <4> QED
        BY <4>2, <4>3
    <3>4. Expand(v, more) = text \o Expand(s, blocks)
      BY <1>1, <2>4, <3>2, <3>3
    <3> QED
      BY <2>3, <2>4, <3>4 DEF With
  <2>5. CASE ~front
    <3> DEFINE none == <<>>
    <3>1. none \in Seq(Characters) /\ Tokens(none) = {} /\ Expand(none, blocks) = none
      <4>1. none \in Seq(Characters) /\ Len(none) < 3
        BY EmptySeq
      <4> HIDE DEF none
      <4>2. Tokens(none) = {}
        BY <4>1, ShortHasNone
      <4> QED
        BY <4>1, <4>2, NoneExpands
    <3>2. suf = none /\ pre = s /\ mid = text
      BY <1>1, <2>5
    <3>3. text \o none = text
      BY ConcatEmptySeq
    <3> HIDE DEF none
    <3>4. Expand(v, more) = Expand(s, blocks) \o (text \o none)
      BY <2>3, <3>1, <3>2
    <3> QED
      BY <2>3, <2>5, <3>3, <3>4 DEF With
  <2> QED
    BY <2>4, <2>5
<1>6. PastedWell(s, text, front, id, blocks, v, at[1], mid)
  BY <1>3, <1>4, <1>5 DEF PastedWell
<1> QED
  BY <1>1, <1>6

(* A draft keeps its meaning when a number is given out.                   *)
LEMMA DraftedLater ==
  ASSUME NEW d, NEW b, NEW f, NEW t, NEW n \in Nat, Drafted(d, b, f, t, n)
  PROVE  Drafted(d, b, f, t, n + 1)
<1>1. d \in Seq(Characters) /\ f \in Seq(Characters) /\ b \in Seq(Block) /\ IdsBelow(b, n)
      /\ (~t => Known(d, n) /\ Expand(d, b) = f)
  BY DEF Drafted
<1>2. \A i \in DOMAIN b : b[i].id \in 1..9 /\ b[i].id < n
  <2>1. \A i \in DOMAIN b : b[i] \in Block
    BY <1>1
  <2>2. \A i \in DOMAIN b : b[i].id \in 1..9
    BY <2>1 DEF Block
  <2> QED
    BY <1>1, <2>2 DEF IdsBelow
<1>3. IdsBelow(b, n + 1)
  BY <1>2 DEF IdsBelow
<1>4. Known(d, n) => Known(d, n + 1)
  BY DEF Known
<1> QED
  BY <1>1, <1>3, <1>4 DEF Drafted

(* So do the drafts of the history.                                        *)
LEMMA KeptLater ==
  ASSUME NEW n \in Nat
  PROVE  Kept(n) \subseteq Kept(n + 1) /\ \A s \in Seq(Kept(n)) : s \in Seq(Kept(n + 1))
<1>1. Kept(n) \subseteq Kept(n + 1)
  BY DraftedLater DEF Kept
<1> QED
  BY <1>1, SeqMonotonic

(* An empty draft means nothing.                                           *)
LEMMA EmptyDrafted ==
  ASSUME NEW n \in Nat
  PROVE  Drafted(<<>>, <<>>, <<>>, FALSE, n)
<1> DEFINE none == <<>>
<1>1. none \in Seq(Characters) /\ Len(none) < 3 /\ none \in Seq(Block) /\ DOMAIN none = {}
  BY EmptySeq
<1> HIDE DEF none
<1>2. Tokens(none) = {}
  BY <1>1, ShortHasNone
<1>3. Expand(none, none) = none
  BY <1>1, <1>2, NoneExpands
<1>4. Known(none, n) /\ IdsBelow(none, n)
  BY <1>1, <1>2 DEF Known, IdsBelow
<1>5. Drafted(none, none, none, FALSE, n)
  BY <1>1, <1>3, <1>4 DEF Drafted
<1> QED
  BY <1>5 DEF none

(* A key that is typed.                                                    *)
LEMMA TypeLetterKeeps ==
  ASSUME ComposerInv, NEW c \in Letters, NEW front \in BOOLEAN, TypeLetter(c, front)
  PROVE  ComposerInv'
<1> DEFINE s == value  v == value'  bs == pasteBlocks  n == nextPasteId
<1>1. /\ n \in Nat \ {0} /\ touched \in BOOLEAN /\ s \in Seq(Characters)
      /\ meant \in Seq(Characters) /\ bs \in Seq(Block) /\ IdsBelow(bs, n)
      /\ ~touched => Known(s, n) /\ Expand(s, bs) = meant
  BY DEF ComposerInv, Drafted
<1>2. c \in Characters
  BY DEF Characters
<1>3. /\ v = IF front THEN <<c>> \o s ELSE Append(s, c)
      /\ meant' = IF front THEN <<c>> \o meant ELSE Append(meant, c)
      /\ touched' = (touched \/ Tokens(v) # Moved(Tokens(s), IF front THEN 1 ELSE 0))
      /\ UNCHANGED <<pasteBlocks, nextPasteId, history, savedDraft>> /\ historyIdx' = 0
  BY DEF TypeLetter, Show
<1>4. v \in Seq(Characters) /\ meant' \in Seq(Characters)
  BY <1>1, <1>2, <1>3
<1>5. ASSUME ~touched' PROVE Known(v, n) /\ Expand(v, bs) = meant'
  <2>1. Known(s, n) /\ Expand(s, bs) = meant /\ Tokens(v) = Moved(Tokens(s), IF front THEN 1 ELSE 0)
    BY <1>1, <1>3, <1>5
  <2>2. CASE front
    <3>1. v = <<c>> \o s /\ Tokens(v) = Moved(Tokens(s), 1) /\ meant' = <<c>> \o meant
      BY <1>3, <2>1, <2>2
    <3>2. Tokens(<<c>> \o s) = Moved(Tokens(s), 1)
      BY <3>1
    <3> HIDE DEF s, v, bs, n
    <3>3. Expand(<<c>> \o s, bs) = <<c>> \o Expand(s, bs) /\ Known(<<c>> \o s, n)
      BY <1>1, <1>2, <2>1, <3>2, KeyInFront
    <3> QED
      BY <2>1, <3>1, <3>3
  <2>3. CASE ~front
    <3>1. v = Append(s, c) /\ Tokens(v) = Tokens(s) /\ meant' = Append(meant, c)
      BY <1>1, <1>3, <2>1, <2>3, MovedTokens
    <3>2. Tokens(Append(s, c)) = Tokens(s)
      BY <3>1
    <3> HIDE DEF s, v, bs, n
    <3>3. Expand(Append(s, c), bs) = Append(Expand(s, bs), c) /\ (Known(Append(s, c), n) <=> Known(s, n))
      BY <1>1, <1>2, <3>2, KeyBehind
    <3> QED
      BY <2>1, <3>1, <3>3
  <2> QED
    BY <2>2, <2>3
<1>6. touched' \in BOOLEAN
  BY <1>1, <1>3
<1>7. Drafted(value, pasteBlocks, meant, touched, nextPasteId)'
  BY <1>1, <1>3, <1>4, <1>5 DEF Drafted
<1>8. 0 \in 0..Len(history) /\ history \in Seq(Kept(nextPasteId)) /\ savedDraft \in Seq(Kept(nextPasteId))
  BY DEF ComposerInv
<1> QED
  BY <1>1, <1>3, <1>6, <1>7, <1>8 DEF ComposerInv

(* A character that is taken away.                                         *)
LEMMA BackspaceKeeps ==
  ASSUME ComposerInv, Backspace
  PROVE  ComposerInv'
<1> DEFINE s == value  v == value'  bs == pasteBlocks  n == nextPasteId
<1>1. /\ n \in Nat \ {0} /\ touched \in BOOLEAN /\ s \in Seq(Characters)
      /\ meant \in Seq(Characters) /\ bs \in Seq(Block) /\ IdsBelow(bs, n)
      /\ ~touched => Known(s, n) /\ Expand(s, bs) = meant
  BY DEF ComposerInv, Drafted
<1>2. /\ s # <<>> /\ v = Front(s) /\ meant' = IF meant = <<>> THEN <<>> ELSE Front(meant)
      /\ touched' = (touched \/ Tokens(v) # Tokens(s))
      /\ UNCHANGED <<pasteBlocks, nextPasteId, history, savedDraft>> /\ historyIdx' = 0
  BY DEF Backspace, Show
<1>3. ASSUME NEW e \in Seq(Characters), NEW c \in Characters
      PROVE  Front(Append(e, c)) = e
  <2>1. Append(e, c) = e \o <<c>> /\ <<c>> \in Seq(Characters) /\ Len(Append(e, c)) - 1 = Len(e)
    BY AppendIsConcat
  <2>2. SubSeq(e \o <<c>>, 1, Len(e)) = e
    <3> DEFINE b == <<c>>
    <3>1. b \in Seq(Characters)
      BY <2>1
    <3> HIDE DEF b
    <3>2. SubSeq(e \o b, 1, Len(e)) = e
      BY <3>1, PutTogether
    <3> QED
      BY <3>2 DEF b
  <2> QED
    BY <2>1, <2>2 DEF Front
<1>4. \A e \in Seq(Characters) : e # <<>> => \E h \in Seq(Characters), c \in Characters : e = Append(h, c)
  BY SequenceEmptyOrAppend
<1>5. PICK h \in Seq(Characters), c \in Characters : s = Append(h, c)
  BY <1>1, <1>2, <1>4
<1>6. v = h
  BY <1>2, <1>3, <1>5
<1>7. meant' \in Seq(Characters)
  <2>1. CASE meant = <<>>
    BY <1>1, <1>2, <2>1
  <2>2. CASE meant # <<>>
    <3>1. PICK e \in Seq(Characters), d \in Characters : meant = Append(e, d)
      BY <1>1, <1>4, <2>2
    <3> QED
      BY <1>2, <1>3, <2>2, <3>1
  <2> QED
    BY <2>1, <2>2
<1>8. ASSUME ~touched' PROVE Known(v, n) /\ Expand(v, bs) = meant'
  <2>1. Known(s, n) /\ Expand(s, bs) = meant /\ Tokens(Append(h, c)) = Tokens(h)
    BY <1>1, <1>2, <1>5, <1>6, <1>8
  <2> HIDE DEF s, v, bs, n
  <2>2. /\ Expand(Append(h, c), bs) = Append(Expand(h, bs), c) /\ Expand(h, bs) \in Seq(Characters)
        /\ Known(Append(h, c), n) <=> Known(h, n)
    BY <1>1, <2>1, KeyBehind
  <2>3. meant = Append(Expand(h, bs), c)
    BY <1>5, <2>1, <2>2
  <2>4. meant # <<>> /\ Front(meant) = Expand(h, bs)
    <3> DEFINE e == Expand(h, bs)
    <3>1. e \in Seq(Characters) /\ meant = Append(e, c)
      BY <2>2, <2>3
    <3> HIDE DEF e
    <3>2. Append(e, c) # <<>> /\ Front(Append(e, c)) = e
      BY <1>3, <3>1, AppendProperties
    <3> QED
      BY <3>1, <3>2 DEF e
  <2> QED
    BY <1>2, <1>5, <1>6, <2>1, <2>2, <2>4
<1>9. touched' \in BOOLEAN
  BY <1>1, <1>2
<1>10. Drafted(value, pasteBlocks, meant, touched, nextPasteId)'
  BY <1>1, <1>2, <1>6, <1>7, <1>8 DEF Drafted
<1>11. 0 \in 0..Len(history) /\ history \in Seq(Kept(nextPasteId)) /\ savedDraft \in Seq(Kept(nextPasteId))
  BY DEF ComposerInv
<1> QED
  BY <1>1, <1>2, <1>9, <1>10, <1>11 DEF ComposerInv

(* A text that is pasted.                                                  *)
LEMMA PasteKeeps ==
  ASSUME ComposerInv, NEW text \in Texts, NEW front \in BOOLEAN, Paste(text, front)
  PROVE  ComposerInv'
<1> DEFINE s == value  v == value'  bs == pasteBlocks  n == nextPasteId
           new == With(s, text, front)  at == InsertedAt(s, new)
           block == [id |-> n, text |-> SubSeq(new, at[1], at[2])]
<1>1. /\ n \in Nat \ {0} /\ touched \in BOOLEAN /\ s \in Seq(Characters)
      /\ meant \in Seq(Characters) /\ bs \in Seq(Block) /\ IdsBelow(bs, n)
      /\ ~touched => Known(s, n) /\ Expand(s, bs) = meant
  BY DEF ComposerInv, Drafted
<1>2. /\ n <= MaxPastes /\ v = Around(new, at, n) /\ pasteBlocks' = Append(bs, block)
      /\ meant' = With(meant, text, front)
      /\ touched' = (touched \/ Tokens(v) # Moved(Tokens(s), IF front THEN 3 ELSE 0) \cup {<<at[1], at[1] + 3>>})
      /\ nextPasteId' = n + 1 /\ UNCHANGED <<history, savedDraft>> /\ historyIdx' = 0
  BY DEF Paste, Show, With, Around
<1>3. n \in 1..9 /\ text \in Seq(Characters)
  BY <1>1, <1>2, ComposerAssumption
<1> HIDE DEF s, v, bs, n, new, at
<1>4. PastedWell(s, text, front, n, bs, Around(new, at, n), at[1], SubSeq(new, at[1], at[2]))
  <2>1. new = With(s, text, front) /\ at = InsertedAt(s, new)
    BY DEF new, at
  <2> QED
    BY <1>1, <1>3, <2>1, PasteExpands
<1>11. /\ v \in Seq(Characters) /\ pasteBlocks' \in Seq(Block) /\ IdsBelow(pasteBlocks', n + 1)
       /\ /\ Known(s, n)
          /\ Tokens(v) = Moved(Tokens(s), IF front THEN 3 ELSE 0) \cup {<<at[1], at[1] + 3>>}
          => Known(v, n + 1) /\ Expand(v, pasteBlocks') = With(Expand(s, bs), text, front)
  BY <1>2, <1>4 DEF PastedWell
<1> HIDE DEF block
<1>5. meant' \in Seq(Characters)
  BY <1>1, <1>2, <1>3 DEF With
<1>6. ~touched' => Known(v, n + 1) /\ Expand(v, pasteBlocks') = meant'
  BY <1>1, <1>2, <1>11
<1>7. touched' \in BOOLEAN
  BY <1>1, <1>2
<1>8. Drafted(value, pasteBlocks, meant, touched, nextPasteId)'
  <2>1. v \in Seq(Characters) /\ pasteBlocks' \in Seq(Block) /\ IdsBelow(pasteBlocks', n + 1)
    BY <1>11
  <2> QED
    BY <1>2, <1>5, <1>6, <2>1 DEF Drafted, v
<1>9. n \in Nat /\ 0 \in 0..Len(history) /\ history \in Seq(Kept(n)) /\ savedDraft \in Seq(Kept(n))
  BY <1>1 DEF ComposerInv, n
<1>10. history \in Seq(Kept(n + 1)) /\ savedDraft \in Seq(Kept(n + 1)) /\ n + 1 \in Nat \ {0}
  BY <1>9, KeptLater
<1> QED
  BY <1>2, <1>7, <1>8, <1>9, <1>10 DEF ComposerInv

(* A draft that is sent.                                                   *)
LEMMA SubmitKeeps ==
  ASSUME ComposerInv, SubmitDraft
  PROVE  ComposerInv'
<1> DEFINE n == nextPasteId
           item == [draft |-> value, blocks |-> pasteBlocks, meant |-> meant, touched |-> touched]
           from == IF Len(history) > HistoryLimit THEN Len(history) - HistoryLimit + 1 ELSE 1
           kept == SubSeq(history, from, Len(history))
<1>1. /\ n \in Nat \ {0} /\ touched \in BOOLEAN
      /\ Drafted(value, pasteBlocks, meant, touched, n) /\ history \in Seq(Kept(n))
  BY DEF ComposerInv
<1>2. /\ history' = Append(kept, item) /\ historyIdx' = 0 /\ savedDraft' = <<>>
      /\ value' = <<>> /\ pasteBlocks' = <<>> /\ meant' = <<>> /\ touched' = FALSE
      /\ nextPasteId' = n
  BY DEF SubmitDraft, Show, NumberAfterSubmit
<1>3. item \in Kept(n)
  BY <1>1 DEF Kept, Drafted
<1>4. kept \in Seq(Kept(n))
  <2>1. Len(history) \in Nat /\ \A i \in 1..Len(history) : history[i] \in Kept(n)
    BY <1>1
  <2>2. from \in Nat /\ from >= 1
    BY <2>1, ComposerAssumption
  <2> HIDE DEF from, n
  <2>3. \A i \in from..Len(history) : history[i] \in Kept(n)
    BY <2>1, <2>2
  <2>4. from \in Int /\ Len(history) \in Int
    BY <2>1, <2>2
  <2> QED
    BY <2>3, <2>4, SubSeqProperties
<1> HIDE DEF kept, item, n
<1>5. history' \in Seq(Kept(n)) /\ Len(history') \in Nat
  BY <1>2, <1>3, <1>4
<1>6. savedDraft' \in Seq(Kept(n)) /\ historyIdx' \in 0..Len(history')
  BY <1>2, <1>5, EmptySeq
<1>7. Drafted(value', pasteBlocks', meant', touched', n)
  BY <1>1, <1>2, EmptyDrafted
<1> QED
  BY <1>1, <1>2, <1>5, <1>6, <1>7 DEF ComposerInv, Drafted

(* A draft that is taken from the history.                                 *)
LEMMA RecallKeeps ==
  ASSUME ComposerInv, NEW item \in Kept(nextPasteId), Recall(item), UNCHANGED nextPasteId
  PROVE  touched' \in BOOLEAN /\ Drafted(value', pasteBlocks', meant', touched', nextPasteId')
BY DEF Recall, Show, Kept

(* A move in the history.                                                  *)
LEMMA LinesKeep ==
  ASSUME ComposerInv, FirstLineUp \/ LastLineDown
  PROVE  ComposerInv'
<1> DEFINE n == nextPasteId
           item == [draft |-> value, blocks |-> pasteBlocks, meant |-> meant, touched |-> touched]
<1>1. /\ n \in Nat \ {0} /\ touched \in BOOLEAN /\ historyIdx \in 0..Len(history)
      /\ Drafted(value, pasteBlocks, meant, touched, n) /\ history \in Seq(Kept(n))
      /\ savedDraft \in Seq(Kept(n)) /\ Len(history) \in Nat
      /\ \A i \in 1..Len(history) : history[i] \in Kept(n)
  BY DEF ComposerInv
<1>2. item \in Kept(n)
  BY <1>1 DEF Kept, Drafted
<1>3. CASE FirstLineUp
  <2>1. /\ history # <<>> /\ UNCHANGED <<nextPasteId, history>>
        /\ historyIdx' = IF historyIdx = 0 THEN Len(history)
                         ELSE IF historyIdx = 1 THEN 1 ELSE historyIdx - 1
        /\ savedDraft' = IF historyIdx = 0 THEN <<item>> ELSE savedDraft
        /\ Recall(history[historyIdx'])
    BY <1>3 DEF FirstLineUp
  <2>2. Len(history) # 0
    BY <1>1, <2>1
  <2>3. historyIdx' \in 1..Len(history)
    BY <1>1, <2>1, <2>2
  <2>4. touched' \in BOOLEAN /\ Drafted(value', pasteBlocks', meant', touched', nextPasteId')
    <3>1. history[historyIdx'] \in Kept(nextPasteId)
      BY <1>1, <2>3
    <3> QED
      BY <2>1, <3>1, RecallKeeps
  <2> HIDE DEF item
  <2>5. savedDraft' \in Seq(Kept(n))
    BY <1>1, <1>2, <2>1
  <2>6. historyIdx' \in 0..Len(history')
    BY <2>1, <2>3
  <2> QED
    BY <1>1, <2>1, <2>4, <2>5, <2>6 DEF ComposerInv, Drafted
<1>4. CASE LastLineDown
  <2>1. historyIdx > 0 /\ UNCHANGED <<nextPasteId, history>>
    BY <1>4 DEF LastLineDown
  <2>2. CASE historyIdx = Len(history)
    <3>1. /\ historyIdx' = 0 /\ savedDraft' = <<>>
          /\ IF savedDraft # <<>> THEN Recall(savedDraft[1])
             ELSE Show(<<>>, <<>>, <<>>) /\ touched' = FALSE
      BY <1>4, <2>2 DEF LastLineDown
    <3>2. touched' \in BOOLEAN /\ Drafted(value', pasteBlocks', meant', touched', nextPasteId')
      <4>1. CASE savedDraft # <<>>
        <5>1. savedDraft[1] \in Kept(nextPasteId)
          BY <1>1, <4>1
        <5> QED
          BY <2>1, <3>1, <4>1, <5>1, RecallKeeps
      <4>2. CASE savedDraft = <<>>
        <5>1. value' = <<>> /\ pasteBlocks' = <<>> /\ meant' = <<>> /\ touched' = FALSE
          BY <3>1, <4>2 DEF Show
        <5> QED
          BY <1>1, <2>1, <5>1, EmptyDrafted
      <4> QED
        BY <4>1, <4>2
    <3>3. savedDraft' \in Seq(Kept(n)) /\ historyIdx' \in 0..Len(history')
      BY <1>1, <2>1, <3>1, EmptySeq
    <3> QED
      BY <1>1, <2>1, <3>2, <3>3 DEF ComposerInv, Drafted
  <2>3. CASE historyIdx # Len(history)
    <3>1. historyIdx' = historyIdx + 1 /\ Recall(history[historyIdx + 1]) /\ UNCHANGED savedDraft
      BY <1>4, <2>3 DEF LastLineDown
    <3>2. historyIdx + 1 \in 1..Len(history)
      BY <1>1, <2>1, <2>3
    <3>3. touched' \in BOOLEAN /\ Drafted(value', pasteBlocks', meant', touched', nextPasteId')
      <4>1. history[historyIdx + 1] \in Kept(nextPasteId)
        BY <1>1, <3>2
      <4> QED
        BY <2>1, <3>1, <4>1, RecallKeeps
    <3> QED
      BY <1>1, <2>1, <3>1, <3>2, <3>3 DEF ComposerInv, Drafted
  <2> QED
    BY <2>2, <2>3
<1> QED
  BY <1>3, <1>4

(* The menu of commands.                                                   *)
LEMMA MenuKeeps ==
  ASSUME ComposerInv, CloseMenu \/ CompleteCommand
  PROVE  ComposerInv'
<1>1. CASE CloseMenu
  BY <1>1 DEF CloseMenu, ComposerInv, Drafted
<1>2. CASE CompleteCommand
  <2> DEFINE d == <<"/", "c">>
  <2>1. /\ value' = d /\ meant' = d /\ pasteBlocks' = pasteBlocks /\ touched' = FALSE
        /\ UNCHANGED <<nextPasteId, history, historyIdx, savedDraft>>
    BY <1>2 DEF CompleteCommand, Show
  <2>2. d \in Seq(Characters) /\ Len(d) < 3
    BY DEF Characters
  <2> HIDE DEF d
  <2>3. Tokens(d) = {}
    BY <2>2, ShortHasNone
  <2>4. pasteBlocks \in Seq(Block) /\ IdsBelow(pasteBlocks, nextPasteId)
    BY DEF ComposerInv, Drafted
  <2>5. Expand(d, pasteBlocks) = d
    BY <2>2, <2>3, <2>4, NoneExpands
  <2>6. Known(d, nextPasteId)
    BY <2>3 DEF Known
  <2>7. Drafted(d, pasteBlocks, d, FALSE, nextPasteId)
    BY <2>2, <2>4, <2>5, <2>6 DEF Drafted
  <2> QED
    BY <2>1, <2>7 DEF ComposerInv
<1> QED
  BY <1>1, <1>2

(* The draft is what was meant at first,                                   *)
LEMMA ComposerStarts == ComposerInit => ComposerInv
<1> SUFFICES ASSUME ComposerInit PROVE ComposerInv
  OBVIOUS
<1>1. /\ value = <<>> /\ pasteBlocks = <<>> /\ nextPasteId = 1 /\ history = <<>>
      /\ historyIdx = 0 /\ savedDraft = <<>> /\ meant = <<>> /\ touched = FALSE
  BY DEF ComposerInit
<1>2. Drafted(<<>>, <<>>, <<>>, FALSE, 1)
  BY EmptyDrafted
<1>3. Drafted(value, pasteBlocks, meant, touched, nextPasteId)
  BY <1>1, <1>2
<1>4. history \in Seq(Kept(nextPasteId)) /\ savedDraft \in Seq(Kept(nextPasteId)) /\ historyIdx \in 0..Len(history)
  <2>1. history = <<>> /\ savedDraft = <<>> /\ historyIdx = 0
    BY <1>1
  <2>2. 0 \in 0..Len(<<>>)
    OBVIOUS
  <2> QED
    BY <2>1, <2>2, EmptySeq
<1>5. nextPasteId \in Nat \ {0} /\ touched \in BOOLEAN
  <2>1. nextPasteId = 1 /\ touched = FALSE
    BY <1>1
  <2>2. 1 \in Nat \ {0} /\ FALSE \in BOOLEAN
    OBVIOUS
  <2> QED
    BY <2>1, <2>2, Zenon
<1> QED
  BY <1>3, <1>4, <1>5 DEF ComposerInv

(* it stays so with every step,                                            *)
LEMMA ComposerKeeps == ComposerInv /\ [ComposerNext]_composerVars => ComposerInv'
<1> SUFFICES ASSUME ComposerInv, [ComposerNext]_composerVars PROVE ComposerInv'
  OBVIOUS
<1>1. CASE \E front \in BOOLEAN, c \in Letters : TypeLetter(c, front)
  BY <1>1, TypeLetterKeeps
<1>2. CASE \E front \in BOOLEAN, text \in Texts : Paste(text, front)
  BY <1>2, PasteKeeps
<1>3. CASE Backspace
  BY <1>3, BackspaceKeeps
<1>4. CASE SubmitDraft
  BY <1>4, SubmitKeeps
<1>5. CASE FirstLineUp \/ LastLineDown
  BY <1>5, LinesKeep
<1>6. CASE CloseMenu \/ CompleteCommand
  BY <1>6, MenuKeeps
<1>7. CASE UNCHANGED composerVars
  BY <1>7 DEF composerVars, ComposerInv, Drafted
<1> QED
  BY <1>1, <1>2, <1>3, <1>4, <1>5, <1>6, <1>7 DEF ComposerNext

(* and what is sent is then what was meant.                                *)
LEMMA ComposerMeans == ComposerInv => DraftIsMeant
BY DEF ComposerInv, Drafted, DraftIsMeant

----------------------------------------------------------------------------
(* The stream of the terminal.  A mouse sequence is a body, and the escape *)
(* character before it; what is left of the stream without them is what    *)
(* the user has typed.                                                     *)

(* What is left outside of some places.                                    *)
Gaps(s, places) == [i \in DOMAIN s |-> IF i \in places THEN <<>> ELSE <<s[i]>>]

(* What is outside of some places is made up of these pieces.              *)
LEMMA GapsAre ==
  ASSUME NEW S, NEW s \in Seq(S), NEW places
  PROVE  /\ Gaps(s, places) \in Seq(Seq(S)) /\ Len(Gaps(s, places)) = Len(s)
         /\ \A i \in 1..Len(s) : Gaps(s, places)[i] = IF i \in places THEN <<>> ELSE <<s[i]>>
         /\ Outside(s, places) = FlattenSeq(Gaps(s, places))
         /\ Outside(s, places) \in Seq(S)
<1>1. DOMAIN s = 1..Len(s) /\ Len(s) \in Nat /\ \A i \in 1..Len(s) : s[i] \in S
  OBVIOUS
<1>2. ASSUME NEW i \in 1..Len(s)
      PROVE  (IF i \in places THEN <<>> ELSE <<s[i]>>) \in Seq(S)
  <2>1. <<>> \in Seq(S) /\ <<s[i]>> \in Seq(S)
    BY <1>1, EmptySeq
  <2> QED
    BY <2>1
<1>3. Gaps(s, places) \in [1..Len(s) -> Seq(S)]
  BY <1>1, <1>2 DEF Gaps
<1>4. Gaps(s, places) \in Seq(Seq(S)) /\ Len(Gaps(s, places)) = Len(s)
  BY <1>1, <1>3
<1>5. Outside(s, places) = FlattenSeq(Gaps(s, places))
  BY DEF Outside, Gaps
<1>6. FlattenSeq(Gaps(s, places)) \in Seq(S)
  BY <1>4, FlattenJoins
<1> QED
  BY <1>1, <1>4, <1>5, <1>6 DEF Gaps

(* Only the places of the text count.                                      *)
LEMMA SameOutside ==
  ASSUME NEW S, NEW s \in Seq(S), NEW places, NEW others,
         \A i \in 1..Len(s) : i \in places <=> i \in others
  PROVE  Outside(s, places) = Outside(s, others)
<1>1. DOMAIN s = 1..Len(s)
  OBVIOUS
<1>2. Gaps(s, places) = Gaps(s, others)
  BY <1>1 DEF Gaps
<1> QED
  BY <1>2, GapsAre

(* Everything is outside of no place.                                      *)
LEMMA AllOutside ==
  ASSUME NEW S, NEW s \in Seq(S), NEW places, \A i \in 1..Len(s) : i \notin places
  PROVE  Outside(s, places) = s
<1>1. DOMAIN s = 1..Len(s)
  OBVIOUS
<1>2. Gaps(s, places) = [i \in DOMAIN s |-> <<s[i]>>]
  BY <1>1 DEF Gaps
<1>3. FlattenSeq([i \in DOMAIN s |-> <<s[i]>>]) = s
  BY FlattenSingles
<1> QED
  BY <1>2, <1>3, GapsAre

(* Nothing is outside of all places.                                       *)
LEMMA NothingOutside ==
  ASSUME NEW S, NEW s \in Seq(S), NEW places, \A i \in 1..Len(s) : i \in places
  PROVE  Outside(s, places) = <<>>
<1> DEFINE parts == Gaps(s, places)  n == Len(s)
<1>1. /\ parts \in Seq(Seq(S)) /\ Len(parts) = n /\ n \in Nat /\ DOMAIN parts = 1..n
      /\ \A i \in 1..n : parts[i] = <<>>
  <2>1. /\ parts \in Seq(Seq(S)) /\ Len(parts) = n
        /\ \A i \in 1..n : parts[i] = IF i \in places THEN <<>> ELSE <<s[i]>>
    BY GapsAre
  <2>2. n \in Nat /\ \A i \in 1..n : i \in places
    OBVIOUS
  <2> HIDE DEF parts, n
  <2>3. DOMAIN parts = 1..n
    BY <2>1
  <2> QED
    BY <2>1, <2>2, <2>3
<1>2. Outside(s, places) = FlattenSeq(parts)
  BY GapsAre
<1> HIDE DEF parts, n
<1>3. PICK g \in [0..n -> Seq(S)] : Flattens(parts, g) /\ FlattenSeq(parts) = g[n]
  <2>1. \E g \in [0..Len(parts) -> Seq(S)] : Flattens(parts, g) /\ FlattenSeq(parts) = g[Len(parts)]
    BY <1>1, FlattenUnfolds
  <2> QED
    BY <1>1, <2>1
<1> DEFINE off == {i \in 0..n : g[i] # <<>>}
<1>4. off = {}
  <2> SUFFICES ASSUME off # {} PROVE FALSE
    OBVIOUS
  <2>1. off \in SUBSET Nat
    BY <1>1
  <2> HIDE DEF off
  <2>2. PICK i \in off : \A j \in off : i <= j
    BY <2>1, LeastExists
  <2>3. i \in 0..n /\ g[i] # <<>>
    BY <2>2 DEF off
  <2>4. i # 0
    BY <1>3, <2>3 DEF Flattens
  <2>5. i \in 1..n /\ i - 1 \in 0..n /\ i - 1 \notin off
    BY <1>1, <2>2, <2>3, <2>4
  <2>6. g[i - 1] = <<>>
    BY <2>5 DEF off
  <2>7. g[i] = g[i - 1] \o parts[i]
    <3>1. i \in DOMAIN parts
      BY <1>1, <2>5
    <3> QED
      BY <1>3, <3>1 DEF Flattens
  <2>8. g[i] = <<>> \o <<>>
    BY <1>1, <2>5, <2>6, <2>7
  <2>9. <<>> \o <<>> = <<>>
    BY EmptySeq, ConcatEmptySeq
  <2> QED
    BY <2>3, <2>8, <2>9
<1>5. n \in 0..n
  BY <1>1
<1> QED
  BY <1>2, <1>3, <1>4, <1>5

(* Places of two texts that are joined, and their places in each.          *)
ApartFrom(places, n, first, second, length) ==
  /\ \A i \in 1..n : i \in places <=> i \in first
  /\ \A i \in 1..length : i + n \in places <=> i \in second

(* What is outside in two texts is outside in what they are joined to.     *)
LEMMA JoinedOutside ==
  ASSUME NEW S, NEW a \in Seq(S), NEW b \in Seq(S), NEW places, NEW first, NEW second,
         ApartFrom(places, Len(a), first, second, Len(b))
  PROVE  /\ Outside(a \o b, places) = Outside(a, first) \o Outside(b, second)
         /\ Outside(a, first) \in Seq(S) /\ Outside(b, second) \in Seq(S)
<1> DEFINE v == a \o b  n == Len(a)  m == Len(b)
           p == Gaps(v, places)  q == Gaps(a, first)  r == Gaps(b, second)
<1>1. /\ v \in Seq(S) /\ Len(v) = n + m /\ n \in Nat /\ m \in Nat
      /\ \A i \in 1..n : v[i] = a[i]
      /\ \A i \in 1..m : v[i + n] = b[i]
  BY JoinedPlaces
<1>2. (\A i \in 1..n : i \in places <=> i \in first) /\ (\A i \in 1..m : i + n \in places <=> i \in second)
  BY DEF ApartFrom
<1> HIDE DEF v
<1>3. /\ p \in Seq(Seq(S)) /\ Len(p) = Len(v)
      /\ \A i \in 1..Len(v) : p[i] = IF i \in places THEN <<>> ELSE <<v[i]>>
      /\ Outside(v, places) = FlattenSeq(p)
  BY <1>1, GapsAre
<1>4. /\ q \in Seq(Seq(S)) /\ Len(q) = n
      /\ \A i \in 1..n : q[i] = IF i \in first THEN <<>> ELSE <<a[i]>>
      /\ Outside(a, first) = FlattenSeq(q)
  BY GapsAre
<1>5. /\ r \in Seq(Seq(S)) /\ Len(r) = m
      /\ \A i \in 1..m : r[i] = IF i \in second THEN <<>> ELSE <<b[i]>>
      /\ Outside(b, second) = FlattenSeq(r)
  BY GapsAre
<1> HIDE DEF n, m, p, q, r
<1>6. /\ q \o r \in Seq(Seq(S)) /\ Len(q \o r) = n + m
      /\ \A i \in 1..n : (q \o r)[i] = q[i]
      /\ \A i \in 1..m : (q \o r)[i + n] = r[i]
  <2>1. q \in Seq(Seq(S)) /\ r \in Seq(Seq(S))
    BY <1>4, <1>5
  <2>2. /\ q \o r \in Seq(Seq(S)) /\ Len(q \o r) = Len(q) + Len(r)
        /\ \A i \in 1..Len(q) : (q \o r)[i] = q[i]
        /\ \A i \in 1..Len(r) : (q \o r)[i + Len(q)] = r[i]
    BY <2>1, JoinedPlaces
  <2>3. Len(q) = n /\ Len(r) = m
    BY <1>4, <1>5
  <2> QED
    BY <2>2, <2>3
<1>7. ASSUME NEW i \in 1..(n + m) PROVE p[i] = (q \o r)[i]
  <2>1. CASE i \in 1..n
    <3>1. p[i] = IF i \in places THEN <<>> ELSE <<v[i]>>
      BY <1>1, <1>3
    <3>2. q[i] = IF i \in first THEN <<>> ELSE <<a[i]>>
      BY <1>4, <2>1
    <3>3. (q \o r)[i] = q[i] /\ v[i] = a[i] /\ (i \in places <=> i \in first)
      BY <1>1, <1>2, <1>6, <2>1
    <3> QED
      BY <3>1, <3>2, <3>3
  <2>2. CASE i \notin 1..n
    <3> DEFINE j == i - n
    <3>1. j \in 1..m /\ i = j + n
      BY <1>1, <2>2
    <3>2. p[i] = IF i \in places THEN <<>> ELSE <<v[i]>>
      BY <1>1, <1>3
    <3> HIDE DEF j
    <3>3. r[j] = IF j \in second THEN <<>> ELSE <<b[j]>>
      BY <1>5, <3>1
    <3>4. (q \o r)[i] = r[j] /\ v[i] = b[j] /\ (i \in places <=> j \in second)
      BY <1>1, <1>2, <1>6, <3>1
    <3> QED
      BY <3>2, <3>3, <3>4
  <2> QED
    BY <2>1, <2>2
<1>8. p = q \o r
  <2>1. Len(p) = Len(q \o r)
    BY <1>1, <1>3, <1>6
  <2>2. p \in Seq(Seq(S)) /\ q \o r \in Seq(Seq(S)) /\ Len(p) = n + m
    BY <1>1, <1>3, <1>6
  <2> QED
    BY <1>7, <2>1, <2>2, SeqEqual
<1>9. /\ FlattenSeq(q) \in Seq(S) /\ FlattenSeq(r) \in Seq(S)
      /\ FlattenSeq(q \o r) = FlattenSeq(q) \o FlattenSeq(r)
  BY <1>4, <1>5, FlattenJoins
<1> QED
  BY <1>3, <1>4, <1>5, <1>8, <1>9 DEF v

----------------------------------------------------------------------------
(* Occurrences of a mouse sequence without its escape character.           *)
Mice(s) == Occurrences(s, Body)

(* A mouse sequence, without its escape character, at a place.             *)
BodyAt(s, i) == i \in 1..Len(s) /\ i + 7 <= Len(s) /\ \A k \in 1..8 : s[i + k - 1] = Body[k]

(* A body begins with the only bracket it has and ends with the only M.    *)
LEMMA BodyIs ==
  /\ Len(Body) = 8 /\ Body[1] = "[" /\ Body[8] = "M" /\ DOMAIN Body = 1..8
  /\ \A k \in 2..8 : Body[k] # "["
  /\ \A k \in 1..7 : Body[k] # "M"
  /\ \A k \in 1..8 : Body[k] # "E"
BY DEF Body

(* The sequences of a stream are where they stand.                         *)
LEMMA MiceAre ==
  ASSUME NEW S, NEW s \in Seq(S)
  PROVE  /\ \A i : i \in Mice(s) <=> BodyAt(s, i)
         /\ Mice(s) \in SUBSET (1..Len(s)) /\ Mice(s) \in SUBSET Nat
<1>1. DOMAIN s = 1..Len(s) /\ Len(s) \in Nat /\ \A i \in 1..Len(s) : s[i] \in S
  OBVIOUS
<1>2. ASSUME NEW i \in 1..Len(s), i + 7 <= Len(s)
      PROVE  SubSeq(s, i, i + 7) = Body <=> \A k \in 1..8 : s[i + k - 1] = Body[k]
  <2> DEFINE p == SubSeq(s, i, i + 7)
  <2>1. i \in Int /\ i + 7 \in Int /\ (\A j \in i..(i + 7) : s[j] \in S)
    BY <1>1, <1>2
  <2>2. /\ p \in Seq(S) /\ Len(p) = IF i <= i + 7 THEN (i + 7) - i + 1 ELSE 0
        /\ \A k \in 1..((i + 7) - i + 1) : p[k] = s[i + k - 1]
    BY <2>1, SubSeqProperties
  <2> HIDE DEF p
  <2>3. p \in Seq(S) /\ Len(p) = 8 /\ \A k \in 1..8 : p[k] = s[i + k - 1]
    BY <2>2
  <2>4. DOMAIN p = 1..8
    BY <2>3
  <2>5. p = Body <=> \A k \in 1..8 : p[k] = Body[k]
    <3>1. p = [k \in 1..8 |-> p[k]]
      BY <2>3, <2>4
    <3>2. Body = [k \in 1..8 |-> Body[k]]
      BY DEF Body
    <3> QED
      BY <3>1, <3>2
  <2> QED
    BY <2>3, <2>5 DEF p
<1>3. Len(Body) = 8
  BY BodyIs
<1>4. \A i \in 1..Len(s) : i + Len(Body) - 1 = i + 7
  BY <1>3
<1>5. \A i : i \in Mice(s) <=> i \in 1..Len(s) /\ i + 7 <= Len(s) /\ SubSeq(s, i, i + 7) = Body
  BY <1>1, <1>4 DEF Mice, Occurrences, StartsWith
<1>6. \A i : i \in Mice(s) <=> BodyAt(s, i)
  BY <1>2, <1>5 DEF BodyAt
<1> QED
  BY <1>1, <1>6 DEF BodyAt

(* The characters of the stream.                                           *)
Signs ==
  (UNION {{key[i] : i \in DOMAIN key} : key \in Typed}) \cup {"E", "[", "<", "n", ";", "M"}

(* What the terminal may send.                                             *)
Stream == Seq(Signs)

(* What is written out has the characters it is written with.              *)
LEMMA TupleTypes ==
  \A S : \A c, d, e, f, h \in S :
    /\ <<c>> \in Seq(S) /\ <<c, d, e, f, e, f, e, h>> \in Seq(S) /\ <<>> \in Seq(S)
OBVIOUS

(* So has one character.                                                   *)
LEMMA SingleTypes == \A S : \A c \in S : <<c>> \in Seq(S) /\ <<>> \in Seq(S)
OBVIOUS

(* A sequence is part of a stream.                                         *)
LEMMA SequenceTypes ==
  /\ Body \in Stream /\ SgrMouse \in Stream /\ <<"E">> \in Stream /\ <<>> \in Stream
  /\ Len(SgrMouse) = 9 /\ SgrMouse[1] = "E" /\ Len(<<"E">>) = 1
  /\ \A k \in 1..8 : SgrMouse[k + 1] = Body[k]
<1>1. "E" \in Signs /\ "[" \in Signs /\ "<" \in Signs /\ "n" \in Signs /\ ";" \in Signs /\ "M" \in Signs
  BY Zenon DEF Signs
<1>2. Body \in Stream /\ <<"E">> \in Stream /\ <<>> \in Stream
  <2>1. <<"[", "<", "n", ";", "n", ";", "n", "M">> \in Seq(Signs)
    BY <1>1, TupleTypes, Zenon
  <2>2. <<"E">> \in Seq(Signs) /\ <<>> \in Seq(Signs)
    BY <1>1, SingleTypes, Zenon
  <2> QED
    BY <2>1, <2>2 DEF Stream, Body
<1>3. Len(<<"E">>) = 1 /\ <<"E">>[1] = "E"
  OBVIOUS
<1>4. /\ SgrMouse \in Stream /\ Len(SgrMouse) = 1 + Len(Body) /\ SgrMouse[1] = "E"
      /\ \A k \in 1..Len(Body) : SgrMouse[k + 1] = Body[k]
  BY <1>2, <1>3, JoinedPlaces DEF Stream, SgrMouse
<1>5. Len(Body) = 8
  BY BodyIs
<1> QED
  BY <1>2, <1>3, <1>4, <1>5

(* Two sequences do not share a place.                                     *)
LEMMA BodiesApart ==
  ASSUME NEW s \in Stream, NEW i \in Mice(s), NEW j \in Mice(s), i < j
  PROVE  j >= i + 8
<1>1. BodyAt(s, i) /\ BodyAt(s, j) /\ i \in Nat /\ j \in Nat
  BY MiceAre DEF Stream
<1> SUFFICES ASSUME j < i + 8 PROVE FALSE
  BY <1>1
<1> DEFINE k == j - i + 1
<1>2. k \in 2..8 /\ i + k - 1 = j
  BY <1>1
<1>3. s[j + 1 - 1] = Body[1]
  BY <1>1 DEF BodyAt
<1>4. j + 1 - 1 = j
  BY <1>1
<1>5. s[j] = "["
  BY <1>3, <1>4, BodyIs
<1> HIDE DEF k
<1>6. k \in 1..8 /\ s[i + k - 1] = Body[k]
  <2>1. \A c \in 1..8 : s[i + c - 1] = Body[c]
    BY <1>1 DEF BodyAt
  <2> QED
    BY <1>2, <2>1
<1> QED
  BY <1>2, <1>5, <1>6, BodyIs

(* What is left of a stream without its mouse sequences.                   *)
Covered(s) == UNION {(i - 1)..(i + 7) : i \in Mice(s)}

(* What is left of a stream when every sequence is taken out with the      *)
(* character before it.                                                    *)
Left(s) == Outside(s, Covered(s))

(* The places a sequence covers.                                           *)
LEMMA CoveredIs ==
  ASSUME NEW s \in Stream
  PROVE  \A j \in Int : j \in Covered(s) <=> \E i \in Mice(s) : i - 1 <= j /\ j <= i + 7
<1>1. Mice(s) \in SUBSET Nat
  BY MiceAre DEF Stream
<1> QED
  BY <1>1 DEF Covered

(* What is left is a stream, the same when it has no sequence.             *)
LEMMA LeftIs ==
  ASSUME NEW s \in Stream
  PROVE  Left(s) \in Stream /\ (Mice(s) = {} => Left(s) = s)
<1>1. Left(s) \in Stream
  BY GapsAre DEF Stream, Left
<1>2. ASSUME Mice(s) = {} PROVE Left(s) = s
  <2>1. Covered(s) = {}
    BY <1>2 DEF Covered
  <2> QED
    BY <2>1, AllOutside DEF Left, Stream
<1> QED
  BY <1>1, <1>2

(* No mouse sequence, with its escape character, stands in both of two     *)
(* parts.                                                                  *)
NoneAcross(a, b) == \A i \in Mice(a \o b) : ~(i <= Len(a) + 1 /\ i + 7 > Len(a))

(* The sequences of two parts are sequences of the whole.                  *)
LEMMA MiceOfParts ==
  ASSUME NEW a \in Stream, NEW b \in Stream
  PROVE  /\ \A i \in 1..(Len(a) - 7) : i \in Mice(a \o b) <=> i \in Mice(a)
         /\ \A i \in 1..Len(b) : i + Len(a) \in Mice(a \o b) <=> i \in Mice(b)
         /\ \A i \in Mice(a) : i \in Mice(a \o b) /\ i \in 1..(Len(a) - 7)
         /\ \A i \in Mice(b) : i + Len(a) \in Mice(a \o b) /\ i \in 1..Len(b)
<1> DEFINE v == a \o b  n == Len(a)  m == Len(b)
<1>1. /\ v \in Stream /\ Len(v) = n + m /\ n \in Nat /\ m \in Nat
      /\ \A i \in 1..n : v[i] = a[i]
      /\ \A i \in 1..m : v[i + n] = b[i]
  BY JoinedPlaces DEF Stream
<1>2. /\ \A i : i \in Mice(v) <=> BodyAt(v, i)
      /\ \A i : i \in Mice(a) <=> BodyAt(a, i)
      /\ \A i : i \in Mice(b) <=> BodyAt(b, i)
  BY <1>1, MiceAre DEF Stream
<1> HIDE DEF v
<1>3. ASSUME NEW i \in 1..(n - 7) PROVE BodyAt(v, i) <=> BodyAt(a, i)
  <2>1. \A k \in 1..8 : i + k - 1 \in 1..n
    BY <1>1
  <2>2. \A k \in 1..8 : v[i + k - 1] = a[i + k - 1]
    BY <1>1, <2>1
  <2>3. i \in 1..Len(v) /\ i + 7 <= Len(v) /\ i \in 1..Len(a) /\ i + 7 <= Len(a)
    BY <1>1
  <2> QED
    BY <2>2, <2>3 DEF BodyAt
<1>4. ASSUME NEW i \in 1..m PROVE BodyAt(v, i + n) <=> BodyAt(b, i)
  <2>1. i + n \in 1..Len(v) /\ (i + n + 7 <= Len(v) <=> i + 7 <= Len(b)) /\ i \in 1..Len(b)
    BY <1>1
  <2>2. ASSUME i + 7 <= Len(b), NEW k \in 1..8 PROVE v[i + n + k - 1] = b[i + k - 1]
    <3>1. i + k - 1 \in 1..m /\ i + n + k - 1 = (i + k - 1) + n
      BY <1>1, <2>2
    <3> QED
      BY <1>1, <3>1
  <2> QED
    BY <2>1, <2>2 DEF BodyAt
<1>5. ASSUME NEW i \in Mice(a) PROVE i \in 1..(n - 7)
  BY <1>1, <1>2, <1>5 DEF BodyAt
<1>6. ASSUME NEW i \in Mice(b) PROVE i \in 1..m
  BY <1>1, <1>2, <1>6 DEF BodyAt
<1> QED
  BY <1>2, <1>3, <1>4, <1>5, <1>6 DEF v

(* When none stands across the end of the first, the whole has no others.  *)
LEMMA MiceJoin ==
  ASSUME NEW a \in Stream, NEW b \in Stream, NoneAcross(a, b)
  PROVE  /\ \A i : i \in Mice(a \o b) <=> i \in Mice(a) \/ \E j \in Mice(b) : i = j + Len(a)
         /\ 1 \notin Mice(b)
<1> DEFINE v == a \o b  n == Len(a)  m == Len(b)
<1>1. n \in Nat /\ m \in Nat /\ Len(v) = n + m /\ v \in Stream
  BY JoinedPlaces DEF Stream
<1>2. Mice(v) \in SUBSET (1..Len(v))
  BY <1>1, MiceAre DEF Stream
<1>3. ASSUME NEW i \in Mice(v) PROVE i \in Mice(a) \/ \E j \in Mice(b) : i = j + n
  <2>1. i \in 1..(n + m) /\ (i > n + 1 \/ i + 7 <= n)
    BY <1>1, <1>2 DEF NoneAcross
  <2>2. CASE i + 7 <= n
    <3>1. i \in 1..(n - 7)
      BY <1>1, <2>1, <2>2
    <3> QED
      BY <3>1, MiceOfParts
  <2>3. CASE i > n + 1
    <3>1. i - n \in 1..m /\ i = (i - n) + n
      BY <1>1, <2>1, <2>3
    <3>2. i - n \in Mice(b)
      BY <3>1, MiceOfParts
    <3> QED
      BY <3>1, <3>2
  <2> QED
    BY <2>1, <2>2, <2>3
<1>4. ASSUME 1 \in Mice(b) PROVE FALSE
  <2>1. 1 + n \in Mice(v)
    BY <1>4, MiceOfParts
  <2> QED
    BY <1>1, <2>1 DEF NoneAcross
<1> QED
  BY <1>3, <1>4, MiceOfParts

(* What is added to two numbers alike leaves them apart.                   *)
LEMMA SumsCancel == \A a, b, d \in Int : a + d = b + d => a = b
OBVIOUS

(* As many sequences are there when all are moved.                         *)
LEMMA ShiftCount ==
  ASSUME NEW A \in SUBSET Int, IsFiniteSet(A), NEW k \in Int, NEW B, 
         B = {i + k : i \in A}
  PROVE  IsFiniteSet(B) /\ Cardinality(B) = Cardinality(A)
<1> DEFINE f == [i \in A |-> i + k]
<1>1. f \in Surjection(A, B)
  BY DEF Surjection
<1>2. f \in Injection(A, B)
  <2>1. f \in [A -> B]
    OBVIOUS
  <2>2. ASSUME NEW i \in A, NEW j \in A, i + k = j + k PROVE i = j
    <3>1. i \in Int /\ j \in Int
      OBVIOUS
    <3> QED
      BY <2>2, <3>1, SumsCancel, Zenon
  <2>3. \A i, j \in A : f[i] = f[j] => i = j
    BY <2>2
  <2> QED
    BY <2>1, <2>3 DEF Injection, IsInjective
<1> HIDE DEF f
<1> QED
  BY <1>1, <1>2, FS_Surjection

(* Two sets that share nothing are counted one after the other.            *)
LEMMA JoinedCount ==
  ASSUME NEW A, NEW B, IsFiniteSet(A), IsFiniteSet(B), \A i \in A : i \notin B
  PROVE  IsFiniteSet(A \cup B) /\ Cardinality(A \cup B) = Cardinality(A) + Cardinality(B)
<1>1. A \cap B = {}
  OBVIOUS
<1>2. Cardinality(A) \in Nat /\ Cardinality(B) \in Nat /\ Cardinality({}) = 0
  BY FS_CardinalityType, FS_EmptySet
<1>3. IsFiniteSet(A \cup B)
      /\ Cardinality(A \cup B) = Cardinality(A) + Cardinality(B) - Cardinality(A \cap B)
  BY FS_Union
<1>4. Cardinality(A \cap B) = 0
  BY <1>1, <1>2
<1> QED
  BY <1>2, <1>3, <1>4

(* How many mouse sequences there are.                                     *)
Sequences(s) == Cardinality(Mice(s))

(* A stream has finitely many sequences.                                   *)
LEMMA SequencesAre ==
  ASSUME NEW s \in Stream
  PROVE  IsFiniteSet(Mice(s)) /\ Sequences(s) \in Nat
<1>1. Len(s) \in Nat /\ Mice(s) \in SUBSET (1..Len(s))
  BY MiceAre DEF Stream
<1>2. IsFiniteSet(1..Len(s))
  BY <1>1, FS_Interval
<1> QED
  BY <1>1, <1>2, FS_Subset, FS_CardinalityType DEF Sequences

(* When no sequence stands across, what is left of the parts is left of    *)
(* the whole.                                                              *)
LEMMA LeftJoins ==
  ASSUME NEW a \in Stream, NEW b \in Stream, NoneAcross(a, b)
  PROVE  /\ Left(a \o b) = Left(a) \o Left(b)
         /\ Sequences(a \o b) = Sequences(a) + Sequences(b)
<1> DEFINE v == a \o b  n == Len(a)  m == Len(b)  moved == {j + n : j \in Mice(b)}
<1>1. n \in Nat /\ m \in Nat /\ Len(v) = n + m /\ v \in Stream
  BY JoinedPlaces DEF Stream
<1>2. /\ Mice(v) \in SUBSET Nat
      /\ Mice(a) \in SUBSET (1..n) /\ Mice(b) \in SUBSET (1..m)
      /\ \A i \in Mice(a) : i + 7 <= n
  BY <1>1, MiceAre DEF Stream, BodyAt
<1>3. /\ \A i : i \in Mice(v) <=> i \in Mice(a) \/ \E j \in Mice(b) : i = j + n
      /\ 1 \notin Mice(b)
  BY MiceJoin
<1>4. ApartFrom(Covered(v), n, Covered(a), Covered(b), m)
  <2> HIDE DEF v, n, m
  <2>1. ASSUME NEW i \in 1..n PROVE i \in Covered(v) <=> i \in Covered(a)
    <3>1. \A j \in Mice(b) : ~((j + n) - 1 <= i)
      BY <1>1, <1>2, <1>3, <2>1
    <3>2. (\E j \in Mice(v) : j - 1 <= i /\ i <= j + 7)
          <=> (\E j \in Mice(a) : j - 1 <= i /\ i <= j + 7)
      BY <1>1, <1>2, <1>3, <3>1
    <3> QED
      BY <1>1, <3>2, CoveredIs
  <2>2. ASSUME NEW i \in 1..m PROVE i + n \in Covered(v) <=> i \in Covered(b)
    <3>1. \A j \in Mice(a) : ~(i + n <= j + 7)
      BY <1>1, <1>2, <2>2
    <3>2. \A j \in Mice(b) : ((j + n) - 1 <= i + n <=> j - 1 <= i) /\ (i + n <= (j + n) + 7 <=> i <= j + 7)
      BY <1>1, <1>2, <2>2
    <3>3. (\E j \in Mice(v) : j - 1 <= i + n /\ i + n <= j + 7)
          <=> (\E j \in Mice(b) : j - 1 <= i /\ i <= j + 7)
      BY <1>3, <3>1, <3>2
    <3> QED
      BY <1>1, <3>3, CoveredIs
  <2> QED
    BY <2>1, <2>2 DEF ApartFrom
<1>5. Left(v) = Left(a) \o Left(b)
  BY <1>4, JoinedOutside DEF Left, Stream
<1>6. Mice(v) = Mice(a) \cup moved
  BY <1>3
<1>7. \A i \in Mice(a) : i \notin moved
  BY <1>1, <1>2
<1>8. IsFiniteSet(moved) /\ Cardinality(moved) = Cardinality(Mice(b))
  <2>1. IsFiniteSet(Mice(b)) /\ Mice(b) \in SUBSET Int /\ n \in Int
    BY <1>1, <1>2, SequencesAre
  <2> QED
    BY <2>1, ShiftCount
<1>9. IsFiniteSet(Mice(a))
  BY SequencesAre
<1> HIDE DEF moved
<1>10. Cardinality(Mice(a) \cup moved) = Cardinality(Mice(a)) + Cardinality(moved)
  BY <1>7, <1>8, <1>9, JoinedCount
<1> QED
  BY <1>5, <1>6, <1>8, <1>10 DEF Sequences

(* Streams that are joined.                                                *)
LEMMA StreamJoins ==
  /\ \A a, b \in Stream : a \o b \in Stream
  /\ \A a, b, c \in Stream : (a \o b) \o c = a \o (b \o c)
  /\ \A a \in Stream : a \o <<>> = a /\ <<>> \o a = a
BY ConcatProperties, ConcatAssociative, ConcatEmptySeq DEF Stream

(* A part of a stream without sequences has none.                          *)
LEMMA PiecesFree ==
  ASSUME NEW a \in Stream, NEW b \in Stream, Mice(a \o b) = {}
  PROVE  Mice(a) = {} /\ Mice(b) = {}
BY MiceOfParts

(* What is too short for a sequence has none.                              *)
LEMMA ShortFree ==
  ASSUME NEW s \in Stream, Len(s) < 8 \/ (Len(s) < 9 /\ s[1] # "[")
  PROVE  Mice(s) = {}
<1> SUFFICES ASSUME NEW i \in Mice(s) PROVE FALSE
  OBVIOUS
<1>1. BodyAt(s, i) /\ Len(s) \in Nat
  BY MiceAre DEF Stream
<1>2. i \in 1..Len(s) /\ i + 7 <= Len(s) /\ s[i + 1 - 1] = Body[1]
  BY <1>1 DEF BodyAt
<1>3. i = 1 /\ i + 1 - 1 = 1
  BY <1>1, <1>2
<1>4. s[1] = "[" /\ ~(Len(s) < 8)
  BY <1>1, <1>2, <1>3, BodyIs
<1> QED
  BY <1>4

(* No sequence stands across a place before an escape character.           *)
LEMMA BeforeEscape ==
  ASSUME NEW a \in Stream, NEW b \in Stream, Len(b) > 0, b[1] = "E"
  PROVE  NoneAcross(a, b)
<1> DEFINE v == a \o b  n == Len(a)
<1>1. n \in Nat /\ v \in Stream /\ v[1 + n] = "E"
  BY JoinedPlaces DEF Stream
<1> SUFFICES ASSUME NEW i \in Mice(v), i <= n + 1, i + 7 > n PROVE FALSE
  BY DEF NoneAcross
<1> HIDE DEF v, n
<1>2. BodyAt(v, i) /\ i \in Nat
  BY <1>1, MiceAre DEF Stream
<1>3. \A c \in 1..8 : v[i + c - 1] = Body[c]
  BY <1>2 DEF BodyAt
<1> DEFINE k == n + 2 - i
<1>4. k \in 1..8 /\ i + k - 1 = 1 + n
  BY <1>1, <1>2
<1> HIDE DEF k
<1>5. v[1 + n] = Body[k]
  BY <1>3, <1>4
<1> QED
  BY <1>1, <1>4, <1>5, BodyIs

(* A body within a stream is one of its sequences.                         *)
LEMMA Within ==
  ASSUME NEW x \in Stream, NEW y \in Stream
  PROVE  1 + Len(x) \in Mice(x \o (Body \o y)) /\ 1 \in Mice(Body \o y)
<1>1. Body \in Stream /\ Body \o y \in Stream /\ Len(Body) = 8
  BY SequenceTypes, StreamJoins, BodyIs
<1>2. 1 \in Mice(Body)
  <2>1. BodyAt(Body, 1)
    <3>1. \A k \in 1..8 : 1 + k - 1 = k
      OBVIOUS
    <3> QED
      BY <1>1, <3>1 DEF BodyAt
  <2> QED
    BY <1>1, <2>1, MiceAre DEF Stream
<1>3. 1 \in Mice(Body \o y)
  BY <1>1, <1>2, MiceOfParts
<1> QED
  BY <1>1, <1>3, MiceOfParts

(* Nothing is left of a body,                                              *)
LEMMA BodyLeft ==
  /\ Mice(Body) = {1} /\ Left(Body) = <<>> /\ Sequences(Body) = 1
<1>1. Body \in Stream /\ Len(Body) = 8 /\ <<>> \in Stream
  BY SequenceTypes, BodyIs
<1>2. 1 \in Mice(Body)
  <2>1. 1 \in Mice(Body \o <<>>)
    BY <1>1, Within
  <2> QED
    BY <1>1, <2>1, StreamJoins
<1>3. ASSUME NEW i \in Mice(Body) PROVE i = 1
  <2>1. i \in 1..8 /\ i + 7 <= 8
    BY <1>1, <1>3, MiceAre DEF Stream, BodyAt
  <2> QED
    BY <2>1
<1>4. Mice(Body) = {1}
  BY <1>2, <1>3
<1>5. Sequences(Body) = 1
  BY <1>4, FS_Singleton DEF Sequences
<1>6. \A j \in 1..8 : j \in Covered(Body)
  <2>1. \A j \in 1..8 : 1 - 1 <= j /\ j <= 1 + 7 /\ j \in Int
    OBVIOUS
  <2> QED
    BY <1>1, <1>2, <2>1, CoveredIs
<1>7. Left(Body) = <<>>
  BY <1>1, <1>6, NothingOutside DEF Left, Stream
<1> QED
  BY <1>4, <1>5, <1>7

(* nor of a whole sequence.                                                *)
LEMMA MouseLeft ==
  /\ Mice(SgrMouse) = {2} /\ Left(SgrMouse) = <<>> /\ Sequences(SgrMouse) = 1
<1>1. /\ Body \in Stream /\ Len(Body) = 8 /\ <<"E">> \in Stream /\ Len(<<"E">>) = 1
      /\ SgrMouse \in Stream /\ Len(SgrMouse) = 9 /\ SgrMouse = <<"E">> \o Body /\ <<>> \in Stream
  BY SequenceTypes, BodyIs DEF SgrMouse
<1>2. 2 \in Mice(SgrMouse)
  <2>1. 1 \in Mice(Body)
    BY BodyLeft
  <2>2. 1 + Len(<<"E">>) \in Mice(<<"E">> \o Body)
    BY <1>1, <2>1, MiceOfParts
  <2> QED
    BY <1>1, <2>2
<1>3. ASSUME NEW i \in Mice(SgrMouse) PROVE i = 2
  <2>1. i \in 1..9 /\ i + 7 <= 9 /\ BodyAt(SgrMouse, i)
    BY <1>1, <1>3, MiceAre, ZenonT(60) DEF Stream, BodyAt
  <2>2. i # 1
    <3> SUFFICES ASSUME i = 1 PROVE FALSE
      OBVIOUS
    <3>1. SgrMouse[1 + 1 - 1] = Body[1] /\ 1 + 1 - 1 = 1
      BY <2>1 DEF BodyAt
    <3> QED
      BY <3>1, BodyIs, SequenceTypes
  <2> QED
    BY <2>1, <2>2
<1>4. Mice(SgrMouse) = {2}
  BY <1>2, <1>3
<1>5. Sequences(SgrMouse) = 1
  BY <1>4, FS_Singleton DEF Sequences
<1>6. \A j \in 1..9 : j \in Covered(SgrMouse)
  <2>1. \A j \in 1..9 : 2 - 1 <= j /\ j <= 2 + 7 /\ j \in Int
    OBVIOUS
  <2> QED
    BY <1>1, <1>2, <2>1, CoveredIs
<1>7. Left(SgrMouse) = <<>>
  BY <1>1, <1>6, NothingOutside DEF Left, Stream
<1> QED
  BY <1>4, <1>5, <1>7

(* Every mouse sequence but one at the front has its escape character.     *)
Escaped(s) == \A i \in Mice(s) : i > 1 => s[i - 1] = "E"

(* Parts of a stream whose sequences have their escape characters are such *)
(* streams.                                                                *)
LEMMA EscapedParts ==
  ASSUME NEW a \in Stream, NEW b \in Stream, Escaped(a \o b)
  PROVE  Escaped(a) /\ Escaped(b)
<1> DEFINE v == a \o b  n == Len(a)  m == Len(b)
<1>1. /\ n \in Nat /\ m \in Nat /\ \A i \in 1..n : v[i] = a[i]
      /\ \A i \in 1..m : v[i + n] = b[i]
  BY JoinedPlaces DEF Stream
<1>2. /\ \A i \in Mice(a) : i \in Mice(v) /\ i \in 1..(n - 7)
      /\ \A i \in Mice(b) : i + n \in Mice(v) /\ i \in 1..m
  BY MiceOfParts
<1>3. \A i \in Mice(v) : i > 1 => v[i - 1] = "E"
  BY DEF Escaped
<1> HIDE DEF v, n, m
<1>4. ASSUME NEW i \in Mice(a), i > 1 PROVE a[i - 1] = "E"
  <2>1. i \in Mice(v) /\ i - 1 \in 1..n
    BY <1>1, <1>2, <1>4
  <2> QED
    BY <1>1, <1>3, <1>4, <2>1
<1>5. ASSUME NEW i \in Mice(b), i > 1 PROVE b[i - 1] = "E"
  <2>1. i + n \in Mice(v) /\ i - 1 \in 1..m /\ i + n > 1 /\ (i + n) - 1 = (i - 1) + n
    BY <1>1, <1>2, <1>5
  <2>2. v[(i + n) - 1] = "E"
    BY <1>3, <2>1
  <2>3. v[(i - 1) + n] = b[i - 1]
    BY <1>1, <2>1
  <2> QED
    BY <2>1, <2>2, <2>3
<1> QED
  BY <1>4, <1>5 DEF Escaped

----------------------------------------------------------------------------
(* What was handed on and what is still to be read make up no sequence: if *)
(* they did, it would stand in what the user typed.                        *)

(* Two parts whose ends would make up a mouse sequence between them keep   *)
(* these ends when the sequences in them are taken out.                    *)
LEMMA CrossingStays ==
  ASSUME NEW a \in Stream, NEW b \in Stream, NEW i \in Mice(a \o b),
         i <= Len(a), i + 7 > Len(a), Escaped(b)
  PROVE  \E x, y \in Stream : Left(a) \o Left(b) = x \o (Body \o y)
<1> DEFINE v == a \o b  n == Len(a)  m == Len(b)  p == i - 1  q == i + 7 - n
<1>1. /\ v \in Stream /\ Len(v) = n + m /\ n \in Nat /\ m \in Nat
      /\ \A k \in 1..n : v[k] = a[k]
      /\ \A k \in 1..m : v[k + n] = b[k]
  BY JoinedPlaces DEF Stream
<1>2. /\ \A k \in Mice(a) : k \in Mice(v) /\ k \in 1..(n - 7)
      /\ \A k \in Mice(b) : k + n \in Mice(v) /\ k \in 1..m
  BY MiceOfParts
<1> HIDE DEF v
<1>3. BodyAt(v, i) /\ i \in Nat
  BY <1>1, MiceAre DEF Stream, v
<1>4. i \in 1..n /\ i + 7 <= n + m /\ \A k \in 1..8 : v[i + k - 1] = Body[k]
  BY <1>1, <1>3 DEF BodyAt
<1>5. p \in 0..n /\ q \in 0..m /\ q \in 1..7 /\ (n - p) + q = 8 /\ n - p \in 1..7
  <2>1. n \in Nat /\ m \in Nat /\ i \in 1..n /\ i + 7 <= n + m /\ i + 7 > n
    BY <1>1, <1>4
  <2> HIDE DEF n, m
  <2> QED
    BY <2>1
<1> HIDE DEF n, m
<1> DEFINE a1 == SubSeq(a, 1, p)  t == SubSeq(a, p + 1, n)
           h == SubSeq(b, 1, q)  b2 == SubSeq(b, q + 1, m)
<1>6. /\ a1 \in Stream /\ Len(a1) = p /\ t \in Stream /\ Len(t) = n - p /\ a = a1 \o t
      /\ \A k \in 1..(n - p) : t[k] = a[p + k]
  BY <1>5, CutAt DEF Stream, n
<1>7. /\ h \in Stream /\ Len(h) = q /\ b2 \in Stream /\ b = h \o b2
      /\ \A k \in 1..q : h[k] = b[k]
  BY <1>5, CutAt, ZenonT(60) DEF Stream, m
<1> HIDE DEF a1, t, h, b2
<1>8. \A k \in 1..(n - p) : t[k] = Body[k]
  <2> SUFFICES ASSUME NEW k \in 1..(n - p) PROVE t[k] = Body[k]
    OBVIOUS
  <2>1. p + k \in 1..n /\ p + k = i + k - 1 /\ k \in 1..8
    BY <1>1, <1>4, <1>5
  <2>2. v[i + k - 1] = Body[k]
    BY <1>4, <2>1
  <2> QED
    BY <1>1, <1>6, <2>1, <2>2
<1>9. \A k \in 1..q : h[k] = Body[k + (n - p)]
  <2> SUFFICES ASSUME NEW k \in 1..q PROVE h[k] = Body[k + (n - p)]
    OBVIOUS
  <2> DEFINE c == k + (n - p)
  <2>1. k \in 1..m /\ c \in 1..8 /\ k + n = i + c - 1
    BY <1>1, <1>4, <1>5
  <2> HIDE DEF c
  <2>2. v[i + c - 1] = Body[c]
    BY <1>4, <2>1
  <2>3. h[k] = Body[c]
    BY <1>1, <1>7, <2>1, <2>2
  <2> QED
    BY <2>3 DEF c
<1>10. t \o h = Body
  <2> DEFINE w == t \o h
  <2>1. /\ w \in Seq(Signs) /\ Len(w) = Len(t) + Len(h) /\ \A k \in 1..Len(t) : w[k] = t[k]
        /\ \A k \in 1..Len(h) : w[k + Len(t)] = h[k]
    BY <1>6, <1>7, JoinedPlaces, SMTT(60) DEF Stream
  <2> HIDE DEF w
  <2>2. Len(w) = 8 /\ Body \in Seq(Signs) /\ Len(Body) = 8
    BY <1>5, <1>6, <1>7, <2>1, SequenceTypes, BodyIs DEF Stream
  <2>3. ASSUME NEW k \in 1..8 PROVE w[k] = Body[k]
    <3>1. CASE k \in 1..(n - p)
      BY <1>6, <1>8, <2>1, <3>1
    <3>2. CASE k \notin 1..(n - p)
      <4> DEFINE c == k - (n - p)
      <4>1. c \in 1..q /\ k = c + (n - p)
        BY <1>5, <3>2
      <4> HIDE DEF c
      <4>2. w[c + (n - p)] = h[c]
        BY <1>6, <1>7, <2>1, <4>1
      <4>3. h[c] = Body[c + (n - p)]
        BY <1>9, <4>1
      <4> QED
        BY <4>1, <4>2, <4>3
    <3> QED
      BY <3>1, <3>2
  <2>4. w = Body
    BY <2>1, <2>2, <2>3, SeqEqual
  <2> QED
    BY <2>4 DEF w
<1>11. Mice(t) = {} /\ Mice(h) = {}
  <2>1. Len(t) < 8 /\ Len(h) < 8
    BY <1>5, <1>6, <1>7
  <2> QED
    BY <1>6, <1>7, <2>1, ShortFree
<1>12. NoneAcross(a1, t)
  <2> SUFFICES ASSUME NEW j \in Mice(a), j <= p + 1, j + 7 > p PROVE FALSE
    BY <1>6 DEF NoneAcross
  <2>1. j \in Mice(v) /\ j \in 1..(n - 7)
    BY <1>2
  <2>2. j < i /\ ~(i >= j + 8)
    BY <1>1, <1>4, <2>1 DEF n
  <2>3. i \in Mice(v) /\ v \in Stream
    BY <1>1 DEF v
  <2> QED
    BY <2>1, <2>2, <2>3, BodiesApart
<1>13. NoneAcross(h, b2)
  <2> SUFFICES ASSUME NEW j \in Mice(b), j <= q + 1, j + 7 > q PROVE FALSE
    BY <1>7 DEF NoneAcross
  <2>1. j + n \in Mice(v) /\ j \in 1..m
    BY <1>2
  <2>2. i \in Mice(v) /\ v \in Stream
    BY <1>1 DEF v
  <2>3. i < j + n
    BY <1>1, <1>4, <2>1
  <2>4. j + n >= i + 8
    BY <2>1, <2>2, <2>3, BodiesApart
  <2>5. j > 1 /\ j - 1 = q /\ q \in 1..q
    <3>1. q = i + 7 - n /\ n \in Nat /\ i \in Nat /\ j \in Nat /\ q \in 1..7
      BY <1>1, <1>4, <1>5, <2>1
    <3> HIDE DEF q
    <3>2. j = q + 1
      BY <2>4, <3>1
    <3> QED
      BY <3>1, <3>2
  <2>6. b[q] = "E"
    BY <2>5 DEF Escaped
  <2>7. h[q] = Body[q + (n - p)] /\ q + (n - p) = 8 /\ h[q] = b[q]
    BY <1>5, <1>7, <1>9, <2>5
  <2> QED
    BY <2>6, <2>7, BodyIs
<1>14. Left(a) = Left(a1) \o t /\ Left(a1) \in Stream
  <2>1. Left(a1 \o t) = Left(a1) \o Left(t)
    BY <1>6, <1>12, LeftJoins
  <2>2. Left(t) = t /\ Left(a1) \in Stream
    BY <1>6, <1>11, LeftIs
  <2> QED
    BY <1>6, <2>1, <2>2
<1>15. Left(b) = h \o Left(b2) /\ Left(b2) \in Stream
  <2>1. Left(h \o b2) = Left(h) \o Left(b2)
    BY <1>7, <1>13, LeftJoins
  <2>2. Left(h) = h /\ Left(b2) \in Stream
    BY <1>7, <1>11, LeftIs
  <2> QED
    BY <1>7, <2>1, <2>2
<1>16. t \in Stream /\ h \in Stream
  BY <1>6, <1>7
<1> DEFINE x == Left(a1)  y == Left(b2)
<1>17. x \in Stream /\ y \in Stream /\ Left(a) = x \o t /\ Left(b) = h \o y
  BY <1>14, <1>15
<1> HIDE DEF x, y
<1>18. (x \o t) \o (h \o y) = x \o (t \o (h \o y))
  <2>1. x \in Stream /\ t \in Stream /\ h \o y \in Stream
    BY <1>16, <1>17, StreamJoins
  <2> QED
    BY <2>1, StreamJoins, Zenon
<1>19. t \o (h \o y) = (t \o h) \o y
  BY <1>16, <1>17, StreamJoins
<1>20. Left(a) \o Left(b) = x \o (Body \o y)
  BY <1>10, <1>17, <1>18, <1>19
<1> QED
  BY <1>17, <1>20

(* Nothing that is handed on makes up a sequence with what is still to be  *)
(* read, as the user types none.                                           *)
LEMMA NoneArises ==
  ASSUME NEW before \in Stream, NEW a \in Stream, NEW b \in Stream,
         Mice(before \o (Left(a) \o Left(b))) = {}, 1 \notin Mice(b), Escaped(b)
  PROVE  NoneAcross(a, b)
<1> DEFINE v == a \o b  n == Len(a)
<1>1. n \in Nat /\ Len(b) \in Nat /\ v \in Stream /\ Len(v) = n + Len(b)
  BY JoinedPlaces DEF Stream
<1> SUFFICES ASSUME NEW i \in Mice(v), i <= n + 1, i + 7 > n PROVE FALSE
  BY DEF NoneAcross
<1>2. i \in 1..Len(v) /\ i + 7 <= Len(v)
  <2> HIDE DEF v
  <2> QED
    BY <1>1, MiceAre DEF BodyAt, Stream
<1>3. i # 1 + n
  <2>1. 1 + n \in Mice(v) => 1 \notin 1..Len(b)
    BY MiceOfParts
  <2> HIDE DEF v, n
  <2> QED
    BY <1>1, <1>2, <2>1
<1>4. i <= n
  <2> HIDE DEF v, n
  <2> QED
    BY <1>1, <1>2, <1>3
<1>5. PICK x, y \in Stream : Left(a) \o Left(b) = x \o (Body \o y)
  BY <1>4, CrossingStays
<1>6. Left(a) \o Left(b) \in Stream
  BY LeftIs, StreamJoins
<1>7. Mice(Left(a) \o Left(b)) = {}
  BY <1>6, PiecesFree
<1>8. 1 + Len(x) \in Mice(x \o (Body \o y))
  BY Within
<1> QED
  BY <1>5, <1>7, <1>8

----------------------------------------------------------------------------
(* What the filter does to one read: it takes out what Left takes out.     *)

(* The sequences with their escape characters.                             *)
Whole(s) == Occurrences(s, SgrMouse)

(* They are all of them but perhaps the first.                             *)
LEMMA WholeAre ==
  ASSUME NEW s \in Stream, Escaped(s)
  PROVE  /\ \A i : i \in Whole(s) <=> i \in Nat \ {0} /\ i + 1 \in Mice(s)
         /\ Whole(s) = {j + (-1) : j \in {k \in Mice(s) : k > 1}}
<1>1. DOMAIN s = 1..Len(s) /\ Len(s) \in Nat /\ s \in Seq(Signs)
  BY DEF Stream
<1>2. /\ SgrMouse \in Seq(Signs) /\ Len(SgrMouse) = 9 /\ SgrMouse[1] = "E"
      /\ \A k \in 1..8 : SgrMouse[k + 1] = Body[k]
  BY SequenceTypes DEF Stream
<1>3. /\ \A i : i \in Mice(s) <=> BodyAt(s, i)
      /\ \A i \in Mice(s) : i > 1 => s[i - 1] = "E"
      /\ Mice(s) \in SUBSET (1..Len(s))
  BY MiceAre DEF Escaped, Stream
<1>4. ASSUME NEW i \in 1..Len(s), i + 8 <= Len(s)
      PROVE  SubSeq(s, i, i + 8) = SgrMouse <=> s[i] = "E" /\ BodyAt(s, i + 1)
  <2> DEFINE p == SubSeq(s, i, i + 8)
  <2>1. i \in Int /\ i + 8 \in Int /\ (\A j \in i..(i + 8) : s[j] \in Signs)
    BY <1>1, <1>4
  <2>2. /\ p \in Seq(Signs) /\ Len(p) = IF i <= i + 8 THEN (i + 8) - i + 1 ELSE 0
        /\ \A k \in 1..((i + 8) - i + 1) : p[k] = s[i + k - 1]
    BY <2>1, SubSeqProperties
  <2> HIDE DEF p
  <2>3. p \in Seq(Signs) /\ Len(p) = 9 /\ \A k \in 1..9 : p[k] = s[i + k - 1]
    <3>1. (i + 8) - i + 1 = 9 /\ i <= i + 8
      BY <2>1
    <3> QED
      BY <2>2, <3>1
  <2>4. p[1] = s[i] /\ \A k \in 1..8 : p[k + 1] = s[i + 1 + k - 1]
    <3>1. i + 1 - 1 = i /\ \A k \in 1..8 : i + (k + 1) - 1 = i + 1 + k - 1 /\ k + 1 \in 1..9
      BY <2>1
    <3> QED
      BY <2>3, <3>1
  <2>5. BodyAt(s, i + 1) <=> \A k \in 1..8 : s[i + 1 + k - 1] = Body[k]
    <3>1. i + 1 \in 1..Len(s) /\ i + 1 + 7 <= Len(s)
      BY <1>1, <1>4
    <3> QED
      BY <3>1 DEF BodyAt
  <2>6. p = SgrMouse <=> p[1] = "E" /\ \A k \in 1..8 : p[k + 1] = Body[k]
    <3>1. ASSUME p[1] = "E", \A k \in 1..8 : p[k + 1] = Body[k] PROVE p = SgrMouse
      <4>1. ASSUME NEW k \in 1..9 PROVE p[k] = SgrMouse[k]
        <5>1. CASE k = 1
          BY <1>2, <3>1, <5>1
        <5>2. CASE k # 1
          <6>1. k - 1 \in 1..8 /\ k = (k - 1) + 1
            BY <5>2
          <6> QED
            BY <1>2, <3>1, <6>1
        <5> QED
          BY <5>1, <5>2
      <4> QED
        BY <1>2, <2>3, <4>1, SeqEqual
    <3> QED
      BY <1>2, <3>1
  <2> QED
    BY <2>4, <2>5, <2>6 DEF p
<1>5. \A i : i \in Whole(s) <=> i \in 1..Len(s) /\ i + 8 <= Len(s) /\ SubSeq(s, i, i + 8) = SgrMouse
  <2>1. \A i \in 1..Len(s) : i + Len(SgrMouse) - 1 = i + 8
    BY <1>1, <1>2
  <2> QED
    BY <1>1, <2>1 DEF Whole, Occurrences, StartsWith
<1>6. \A i : i \in Whole(s) <=> i \in 1..Len(s) /\ i + 8 <= Len(s) /\ s[i] = "E" /\ i + 1 \in Mice(s)
  BY <1>3, <1>4, <1>5
<1>7. ASSUME NEW i \in Nat \ {0}, i + 1 \in Mice(s)
      PROVE  i \in 1..Len(s) /\ i + 8 <= Len(s) /\ s[i] = "E"
  <2>1. i + 1 \in 1..Len(s) /\ i + 1 + 7 <= Len(s)
    BY <1>3, <1>7 DEF BodyAt
  <2>2. i + 1 > 1 /\ (i + 1) - 1 = i
    OBVIOUS
  <2> QED
    BY <1>1, <1>3, <1>7, <2>1, <2>2
<1>8. \A i : i \in Whole(s) <=> i \in Nat \ {0} /\ i + 1 \in Mice(s)
  BY <1>1, <1>6, <1>7
<1>9. Whole(s) = {j + (-1) : j \in {k \in Mice(s) : k > 1}}
  <2>1. ASSUME NEW i \in Whole(s) PROVE i \in {j + (-1) : j \in {k \in Mice(s) : k > 1}}
    <3>1. i + 1 \in Mice(s) /\ i + 1 > 1 /\ i = (i + 1) + (-1)
      BY <1>8, <2>1
    <3> QED
      BY <3>1
  <2>2. ASSUME NEW j \in Mice(s), j > 1 PROVE j + (-1) \in Whole(s)
    <3>1. j + (-1) \in Nat \ {0} /\ (j + (-1)) + 1 = j
      BY <1>1, <1>3, <2>2
    <3> QED
      BY <1>8, <3>1
  <2> QED
    BY <2>1, <2>2
<1> QED
  BY <1>8, <1>9

(* The places they cover.                                                  *)
LEMMA WholeOutside ==
  ASSUME NEW s \in Stream, Escaped(s), NEW places,
         places = UNION {i..(i + Len(SgrMouse) - 1) : i \in Whole(s)}
  PROVE  \A j \in Int : j \in places <=> \E i \in Mice(s) : i > 1 /\ i - 1 <= j /\ j <= i + 7
<1>1. /\ \A i : i \in Whole(s) <=> i \in Nat \ {0} /\ i + 1 \in Mice(s)
      /\ Mice(s) \in SUBSET Nat /\ Len(SgrMouse) = 9
  BY WholeAre, MiceAre, SequenceTypes DEF Stream
<1>2. ASSUME NEW j \in Int, j \in places
      PROVE  \E i \in Mice(s) : i > 1 /\ i - 1 <= j /\ j <= i + 7
  <2>1. PICK i \in Whole(s) : j \in i..(i + Len(SgrMouse) - 1)
    BY <1>2
  <2>2. i + 1 \in Mice(s) /\ i + 1 > 1 /\ (i + 1) - 1 <= j /\ j <= (i + 1) + 7
    BY <1>1, <2>1
  <2> QED
    BY <2>2
<1>3. ASSUME NEW j \in Int, NEW i \in Mice(s), i > 1, i - 1 <= j, j <= i + 7
      PROVE  j \in places
  <2>1. i - 1 \in Nat \ {0} /\ (i - 1) + 1 = i /\ j \in (i - 1)..((i - 1) + 9 - 1)
    BY <1>1, <1>3
  <2>2. i - 1 \in Whole(s)
    BY <1>1, <2>1
  <2> QED
    BY <1>1, <2>1, <2>2
<1> QED
  BY <1>2, <1>3

(* The places the bodies without an escape character cover.                *)
LEMMA BodiesOutside ==
  ASSUME NEW s \in Stream
  PROVE  /\ Mice(s) = {} => Without(s, Body) = s
         /\ Mice(s) = {1} /\ Len(s) > 7 =>
              \A j \in Int : j \in UNION {i..(i + Len(Body) - 1) : i \in Mice(s)} <=> j \in 1..8
<1>1. ASSUME Mice(s) = {} PROVE Without(s, Body) = s
  <2>1. UNION {i..(i + Len(Body) - 1) : i \in Mice(s)} = {}
    BY <1>1
  <2>2. Outside(s, {}) = s
    BY AllOutside DEF Stream
  <2> QED
    BY <2>1, <2>2 DEF Without, Stretches, Mice
<1>2. ASSUME Mice(s) = {1}, NEW j \in Int
      PROVE  j \in UNION {i..(i + Len(Body) - 1) : i \in Mice(s)} <=> j \in 1..8
  <2>1. 1 + Len(Body) - 1 = 8
    BY BodyIs
  <2> QED
    BY <1>2, <2>1
<1> QED
  BY <1>1, <1>2

(* A read whose sequences have all their escape characters,                *)
LEMMA StripWhole ==
  ASSUME NEW raw \in Stream, Escaped(raw), 1 \notin Mice(raw)
  PROVE  /\ Without(raw, SgrMouse) = Left(raw)
         /\ Cardinality(Whole(raw)) = Sequences(raw)
<1> DEFINE places == UNION {i..(i + Len(SgrMouse) - 1) : i \in Whole(raw)}
<1>1. Mice(raw) \in SUBSET Nat /\ Mice(raw) \in SUBSET (1..Len(raw)) /\ Len(raw) \in Nat
  BY MiceAre DEF Stream
<1>2. \A j \in Int : j \in places <=> \E i \in Mice(raw) : i > 1 /\ i - 1 <= j /\ j <= i + 7
  <2> HIDE DEF places
  <2>1. places = UNION {i..(i + Len(SgrMouse) - 1) : i \in Whole(raw)}
    BY DEF places
  <2> QED
    BY <2>1, WholeOutside
<1>3. Without(raw, SgrMouse) = Outside(raw, places)
  BY DEF Without, Stretches, Whole
<1> HIDE DEF places
<1>4. \A i \in Mice(raw) : i > 1
  BY <1>1
<1>5. \A j \in 1..Len(raw) : j \in places <=> j \in Covered(raw)
  BY <1>1, <1>2, <1>4, CoveredIs
<1>6. Outside(raw, places) = Outside(raw, Covered(raw))
  BY <1>5, SameOutside DEF Stream
<1>7. {k \in Mice(raw) : k > 1} = Mice(raw)
  BY <1>4
<1>8. Whole(raw) = {j + (-1) : j \in Mice(raw)}
  BY <1>7, WholeAre
<1>9. IsFiniteSet(Mice(raw)) /\ Mice(raw) \in SUBSET Int /\ (-1) \in Int
  BY <1>1, SequencesAre
<1>10. Cardinality(Whole(raw)) = Cardinality(Mice(raw))
  BY <1>8, <1>9, ShiftCount
<1> QED
  BY <1>3, <1>6, <1>10 DEF Left, Sequences

(* and one of which the first lost it to an earlier read.                  *)
LEMMA StripFront ==
  ASSUME NEW b \in Stream, Escaped(Body \o b), Mice(Left(Body \o b)) = {}
  PROVE  /\ Without(Body \o b, SgrMouse) = Body \o Left(Body \o b)
         /\ Cardinality(Whole(Body \o b)) + 1 = Sequences(Body \o b)
         /\ Without(Body \o Left(Body \o b), Body) = Left(Body \o b)
         /\ Mice(Body \o Left(Body \o b)) = {1}
<1> DEFINE raw == Body \o b  places == UNION {i..(i + Len(SgrMouse) - 1) : i \in Whole(raw)}
           left == Left(raw)
<1>1. Body \in Stream /\ Len(Body) = 8 /\ Mice(Body) = {1} /\ Left(Body) = <<>> /\ Sequences(Body) = 1
  BY SequenceTypes, BodyIs, BodyLeft
<1>2. /\ raw \in Stream /\ Len(b) \in Nat /\ Len(raw) = 8 + Len(b)
      /\ \A k \in 1..8 : raw[k] = Body[k]
  <2>0. Body \in Seq(Signs) /\ b \in Seq(Signs)
    BY <1>1 DEF Stream
  <2>1. /\ raw \in Seq(Signs) /\ Len(raw) = Len(Body) + Len(b) /\ Len(b) \in Nat
        /\ \A k \in 1..Len(Body) : raw[k] = Body[k]
    BY <2>0, JoinedPlaces
  <2> HIDE DEF raw
  <2> QED
    BY <1>1, <2>1 DEF Stream
<1>3. 1 \in Mice(raw)
  BY Within
<1>4. Escaped(b) /\ Escaped(raw)
  BY <1>1, EscapedParts
<1>5. \A i \in Mice(raw) : i = 1 \/ i > 9
  <2> SUFFICES ASSUME NEW i \in Mice(raw), i # 1 PROVE i > 9
    OBVIOUS
  <2> HIDE DEF raw
  <2>1. Mice(raw) \in SUBSET Nat /\ Mice(raw) \in SUBSET (1..Len(raw))
    BY <1>2, MiceAre DEF Stream
  <2>2. i >= 9
    <3>1. 1 < i
      BY <1>2, <2>1
    <3>2. i >= 1 + 8
      BY <1>2, <1>3, <3>1, BodiesApart
    <3> QED
      BY <3>2
  <2>3. raw[i - 1] = "E" /\ i \in Nat
    BY <1>4, <2>1, <2>2 DEF Escaped
  <2>4. i # 9
    <3> SUFFICES ASSUME i = 9 PROVE FALSE
      OBVIOUS
    <3>1. raw[8] = "E" /\ raw[8] = Body[8]
      BY <1>2, <2>3
    <3> QED
      BY <3>1, BodyIs
  <2> QED
    BY <2>2, <2>3, <2>4
<1>6. NoneAcross(Body, b)
  <2>1. \A i \in Mice(Body \o b) : ~(i <= 8 + 1 /\ i + 7 > 8)
    <3>1. \A i \in Mice(raw) : i \in Nat
      <4> HIDE DEF raw
      <4> QED
        BY <1>2, MiceAre DEF Stream
    <3> QED
      BY <1>5, <3>1
  <2> QED
    BY <1>1, <2>1 DEF NoneAcross
<1>7. left = Left(b) /\ Sequences(raw) = 1 + Sequences(b) /\ left \in Stream
  <2>1. Left(Body \o b) = Left(Body) \o Left(b) /\ Sequences(Body \o b) = Sequences(Body) + Sequences(b)
    BY <1>1, <1>6, LeftJoins
  <2>2. Left(b) \in Stream /\ <<>> \o Left(b) = Left(b)
    BY LeftIs, StreamJoins
  <2> QED
    BY <1>1, <2>1, <2>2
<1>8. Without(raw, SgrMouse) = Outside(raw, places)
  BY DEF Without, Stretches, Whole
<1>9. \A j \in Int : j \in places <=> \E i \in Mice(raw) : i > 1 /\ i - 1 <= j /\ j <= i + 7
  <2> HIDE DEF places, raw
  <2>1. places = UNION {i..(i + Len(SgrMouse) - 1) : i \in Whole(raw)}
    BY DEF places
  <2> QED
    BY <1>2, <1>4, <2>1, WholeOutside
<1>10. /\ \A i : i \in Mice(raw) <=> i \in Mice(Body) \/ \E j \in Mice(b) : i = j + Len(Body)
       /\ 1 \notin Mice(b) /\ Mice(b) \in SUBSET (1..Len(b)) /\ Mice(b) \in SUBSET Nat
  BY <1>1, <1>6, MiceJoin, MiceAre DEF Stream
<1> HIDE DEF places
<1>11. ApartFrom(places, 8, {}, Covered(b), Len(b))
  <2> HIDE DEF raw
  <2>1. ASSUME NEW j \in 1..8 PROVE j \notin places
    <3>1. \A i \in Mice(raw) : i \in Nat
      BY <1>2, MiceAre DEF Stream
    <3>2. \A i \in Mice(raw) : ~(i > 1 /\ i - 1 <= j)
      BY <1>5, <2>1, <3>1
    <3> QED
      BY <1>9, <2>1, <3>2
  <2>2. ASSUME NEW j \in 1..Len(b) PROVE j + 8 \in places <=> j \in Covered(b)
    <3>1. \A i \in Mice(b) : /\ (i + 8) - 1 <= j + 8 <=> i - 1 <= j
                             /\ j + 8 <= (i + 8) + 7 <=> j <= i + 7
                             /\ i + 8 > 1
      <4>1. \A i, k \in Nat : /\ (i + 8) - 1 <= k + 8 <=> i - 1 <= k
                              /\ k + 8 <= (i + 8) + 7 <=> k <= i + 7
                              /\ i + 8 > 1
        OBVIOUS
      <4>2. j \in Nat /\ \A i \in Mice(b) : i \in Nat
        BY <1>2, <1>10, <2>2
      <4> QED
        BY <4>1, <4>2, Zenon
    <3>2. ~(1 > 1)
      OBVIOUS
    <3>3. \A i : i \in Mice(raw) /\ i > 1 <=> \E k \in Mice(b) : i = k + 8
      BY <1>1, <1>10, <3>1, <3>2
    <3>4. (\E i \in Mice(raw) : i > 1 /\ i - 1 <= j + 8 /\ j + 8 <= i + 7)
          <=> (\E k \in Mice(b) : k - 1 <= j /\ j <= k + 7)
      BY <3>1, <3>3
    <3> QED
      BY <1>2, <1>9, <3>4, CoveredIs
  <2> QED
    BY <2>1, <2>2 DEF ApartFrom
<1>12. Without(raw, SgrMouse) = Body \o left
  <2>1. Outside(Body \o b, places) = Outside(Body, {}) \o Outside(b, Covered(b))
    <3>1. ApartFrom(places, Len(Body), {}, Covered(b), Len(b))
      BY <1>1, <1>11
    <3>2. Body \in Seq(Signs) /\ b \in Seq(Signs)
      BY <1>1 DEF Stream
    <3> QED
      BY <3>1, <3>2, JoinedOutside
  <2>2. Outside(Body, {}) = Body
    BY <1>1, AllOutside DEF Stream
  <2> QED
    BY <1>7, <1>8, <2>1, <2>2 DEF Left
<1>13. Whole(raw) = {j + (-1) : j \in {k \in Mice(raw) : k > 1}}
  BY <1>2, <1>4, WholeAre
<1>14. Cardinality(Whole(raw)) = Sequences(b)
  <2>1. {k \in Mice(raw) : k > 1} = {k + 8 : k \in Mice(b)}
    <3>1. \A k \in Mice(b) : k + 8 > 1
      BY <1>10
    <3>2. ~(1 > 1)
      OBVIOUS
    <3> HIDE DEF raw
    <3> QED
      BY <1>1, <1>10, <3>1, <3>2
  <2>2. IsFiniteSet(Mice(b)) /\ Mice(b) \in SUBSET Int
    BY <1>10, SequencesAre
  <2> DEFINE moved == {k + 8 : k \in Mice(b)}
  <2>3. IsFiniteSet(moved) /\ Cardinality(moved) = Cardinality(Mice(b))
    <3>1. 8 \in Int /\ moved = {k + 8 : k \in Mice(b)}
      OBVIOUS
    <3> HIDE DEF moved
    <3> QED
      BY <2>2, <3>1, ShiftCount
  <2>4. moved \in SUBSET Int
    BY <2>2
  <2>5. Whole(raw) = {j + (-1) : j \in moved}
    BY <1>13, <2>1
  <2> HIDE DEF moved
  <2>6. Cardinality(Whole(raw)) = Cardinality(moved)
    <3>1. (-1) \in Int
      OBVIOUS
    <3> QED
      BY <2>3, <2>4, <2>5, <3>1, ShiftCount, ZenonT(60)
  <2> QED
    BY <2>3, <2>6 DEF Sequences
<1>15. Sequences(b) \in Nat
  BY SequencesAre
<1>16. Mice(left) = {}
  OBVIOUS
<1> HIDE DEF raw, left
<1> DEFINE cut == Body \o left
<1>17. /\ cut \in Stream /\ Len(left) \in Nat /\ Len(cut) = 8 + Len(left)
       /\ \A k \in 1..8 : cut[k] = Body[k]
       /\ \A k \in 1..Len(left) : cut[k + 8] = left[k]
  <2>1. /\ cut \in Seq(Signs) /\ Len(cut) = Len(Body) + Len(left) /\ Len(left) \in Nat
        /\ \A k \in 1..Len(Body) : cut[k] = Body[k]
        /\ \A k \in 1..Len(left) : cut[k + Len(Body)] = left[k]
    <3>1. Body \in Seq(Signs) /\ left \in Seq(Signs)
      BY <1>1, <1>7 DEF Stream
    <3> QED
      BY <3>1, JoinedPlaces
  <2> HIDE DEF cut
  <2> QED
    BY <1>1, <2>1 DEF Stream
<1>18. Mice(cut) = {1}
  <2>1. 1 \in Mice(cut)
    BY <1>7, Within
  <2>2. \A k \in 1..Len(left) : k + Len(Body) \in Mice(cut) <=> k \in Mice(left)
    BY <1>1, <1>7, MiceOfParts
  <2> HIDE DEF cut
  <2>3. ASSUME NEW i \in Mice(cut), i # 1 PROVE FALSE
    <3>1. i \in 1..(8 + Len(left))
      BY <1>17, MiceAre DEF Stream
    <3>2. i >= 1 + 8
      <4>1. 1 < i
        BY <1>17, <2>3, <3>1
      <4> QED
        BY <1>17, <2>1, <4>1, BodiesApart
    <3>3. i - 8 \in 1..Len(left) /\ i = (i - 8) + 8
      BY <1>17, <3>1, <3>2
    <3>4. i - 8 \in Mice(left)
      BY <1>1, <2>2, <3>3
    <3> QED
      BY <1>16, <3>4
  <2> QED
    BY <2>1, <2>3
<1>19. Without(cut, Body) = left
  <2> DEFINE gone == UNION {i..(i + Len(Body) - 1) : i \in Mice(cut)}
  <2>1. Without(cut, Body) = Outside(cut, gone)
    BY DEF Without, Stretches, Mice
  <2>2. \A j \in Int : j \in gone <=> j \in 1..8
    <3> HIDE DEF cut
    <3>1. Len(cut) > 7
      BY <1>17
    <3> QED
      BY <1>17, <1>18, <3>1, BodiesOutside
  <2> HIDE DEF gone
  <2>3. ApartFrom(gone, 8, 1..8, {}, Len(left))
    BY <1>17, <2>2 DEF ApartFrom
  <2>4. Outside(Body \o left, gone) = Outside(Body, 1..8) \o Outside(left, {})
    <3>1. ApartFrom(gone, Len(Body), 1..8, {}, Len(left))
      BY <1>1, <2>3
    <3>2. Body \in Seq(Signs) /\ left \in Seq(Signs)
      BY <1>1, <1>7 DEF Stream
    <3> QED
      BY <3>1, <3>2, JoinedOutside
  <2>5. Outside(Body, 1..8) = <<>> /\ Outside(left, {}) = left
    BY <1>1, <1>7, NothingOutside, AllOutside DEF Stream
  <2> QED
    BY <1>7, <2>1, <2>4, <2>5, StreamJoins
<1> QED
  BY <1>7, <1>12, <1>14, <1>15, <1>18, <1>19 DEF raw, left

(* The types of what is written out.                                       *)
LEMMA LedTuples ==
  ASSUME NEW S, NEW c \in S, NEW d \in S, NEW e \in S, NEW f \in S, NEW g \in S
  PROVE  /\ <<c>> \in Seq(S) /\ <<c, d>> \in Seq(S) /\ <<c, d, e>> \in Seq(S)
         /\ <<c, d, e, f, g>> \in Seq(S)
         /\ <<c, d, e, f, g, f, g>> \in Seq(S)
         /\ <<c, d, e, f, g, f, g, f>> \in Seq(S)
OBVIOUS

(* The characters of a sequence differ.                                    *)
LEMMA LettersAre ==
  /\ "E" \in Signs /\ "[" \in Signs /\ "<" \in Signs /\ "n" \in Signs /\ ";" \in Signs
  /\ "M" \in Signs
  /\ "E" # "[" /\ "E" # "<" /\ "E" # "n" /\ "E" # ";" /\ "E" # "M"
  /\ "[" # "<" /\ "[" # "n" /\ "[" # ";" /\ "[" # "M"
BY Zenon DEF Signs

----------------------------------------------------------------------------
(* The other forms the filter knows.  A stream has them where what is left *)
(* of it has them, and a user who types none of them loses nothing.        *)

(* A text at a place of a stream.                                          *)
StandsAt(s, i, pattern) ==
  /\ i \in 1..Len(s) /\ i + Len(pattern) - 1 <= Len(s)
  /\ \A k \in 1..Len(pattern) : s[i + k - 1] = pattern[k]

(* It occurs where it stands.                                              *)
LEMMA OccursAt ==
  ASSUME NEW s \in Stream, NEW pattern \in Stream, Len(pattern) > 0
  PROVE  \A i : i \in Occurrences(s, pattern) <=> StandsAt(s, i, pattern)
<1> DEFINE m == Len(pattern)
<1>1. /\ DOMAIN s = 1..Len(s) /\ Len(s) \in Nat /\ (\A i \in 1..Len(s) : s[i] \in Signs)
      /\ s \in Seq(Signs) /\ pattern \in Seq(Signs) /\ m \in Nat \ {0}
  BY DEF Stream
<1> HIDE DEF m
<1>2. ASSUME NEW i \in 1..Len(s), i + m - 1 <= Len(s)
      PROVE  SubSeq(s, i, i + m - 1) = pattern <=> \A k \in 1..m : s[i + k - 1] = pattern[k]
  <2> DEFINE p == SubSeq(s, i, i + m - 1)
  <2>1. i \in Int /\ i + m - 1 \in Int /\ (\A j \in i..(i + m - 1) : s[j] \in Signs)
    BY <1>1, <1>2
  <2>2. /\ p \in Seq(Signs)
        /\ Len(p) = IF i <= i + m - 1 THEN (i + m - 1) - i + 1 ELSE 0
        /\ \A k \in 1..((i + m - 1) - i + 1) : p[k] = s[i + k - 1]
    BY <2>1, SubSeqProperties
  <2> HIDE DEF p
  <2>3. i <= i + m - 1 /\ (i + m - 1) - i + 1 = m
    BY <1>1
  <2>4. p \in Seq(Signs) /\ Len(p) = m /\ \A k \in 1..m : p[k] = s[i + k - 1]
    BY <2>2, <2>3
  <2>5. p = pattern <=> \A k \in 1..m : p[k] = pattern[k]
    <3>1. Len(p) = Len(pattern)
      BY <2>4 DEF m
    <3> QED
      BY <1>1, <2>4, <3>1, SeqEqual
  <2> QED
    BY <2>4, <2>5 DEF p
<1> QED
  BY <1>1, <1>2 DEF Occurrences, StartsWith, StandsAt, m

(* The old form, that of urxvt, and an old one without its escape          *)
(* character, at a place.                                                  *)
OldAt(s, i) ==
  /\ i \in 1..Len(s) /\ i + 5 <= Len(s)
  /\ s[i] = "E" /\ s[i + 1] = "[" /\ s[i + 2] = "M"
  /\ s[i + 3] # "E" /\ s[i + 4] # "E" /\ s[i + 5] # "E"

(* That of urxvt.                                                          *)
UrxvtAt(s, i) ==
  /\ i \in 1..Len(s) /\ i + 7 <= Len(s)
  /\ \A k \in 1..8 : s[i + k - 1] = UrxvtMouse[k]

(* An old one that has lost its escape character.                          *)
OddAt(s, i) ==
  /\ i \in 1..Len(s) /\ i + 4 <= Len(s)
  /\ s[i] = "[" /\ s[i + 1] = "M"
  /\ s[i + 2] \in OrphanButtons /\ s[i + 3] \in Columns /\ s[i + 4] \in Rows

(* Nothing of a stream looks like one of them,                             *)
Clean(s) == \A i : ~OldAt(s, i) /\ ~UrxvtAt(s, i) /\ ~OddAt(s, i)

(* nor like a sequence.                                                    *)
Silent(s) == Mice(s) = {} /\ Clean(s)

(* What they begin with.                                                   *)
LEMMA FormTypes ==
  /\ <<"E", "[", "M">> \in Stream /\ <<"[", "M">> \in Stream /\ UrxvtMouse \in Stream
  /\ Len(<<"E", "[", "M">>) = 3 /\ Len(<<"[", "M">>) = 2 /\ Len(UrxvtMouse) = 8
  /\ UrxvtMouse[1] = "E" /\ UrxvtMouse[3] = "n" /\ \A k \in 2..8 : UrxvtMouse[k] # "E"
<1>1. <<"E", "[", "M">> \in Stream /\ <<"[", "M">> \in Stream
  BY LettersAre, LedTuples, Zenon DEF Stream
<1>2. \A c, d, e, f, h \in Signs :
        <<c, d, e, f, e, f, e, h>> \in Stream /\ Len(<<c, d, e, f, e, f, e, h>>) = 8
  BY DEF Stream
<1>3. UrxvtMouse \in Stream /\ Len(UrxvtMouse) = 8
  BY <1>2, LettersAre, Zenon DEF UrxvtMouse
<1>4. \A c, d, e : Len(<<c, d, e>>) = 3 /\ Len(<<d, e>>) = 2
  OBVIOUS
<1>5. UrxvtMouse[1] = "E" /\ UrxvtMouse[3] = "n" /\ \A k \in 2..8 : UrxvtMouse[k] # "E"
  BY DEF UrxvtMouse
<1> QED
  BY <1>1, <1>3, <1>4, <1>5

(* The forms the filter finds are where they stand.                        *)
LEMMA FormsAre ==
  ASSUME NEW s \in Stream
  PROVE  /\ \A i : i \in OldMouse(s) <=> OldAt(s, i)
         /\ \A i : i \in Occurrences(s, UrxvtMouse) <=> UrxvtAt(s, i)
         /\ \A i : i \in OldBody(s) /\ Plausible(s, i + 3) <=> OddAt(s, i)
<1>1. Len(s) \in Nat
  BY DEF Stream
<1>2. \A i : i \in Occurrences(s, UrxvtMouse) <=> UrxvtAt(s, i)
  <2>1. \A i : i \in Occurrences(s, UrxvtMouse) <=>
          /\ i \in 1..Len(s) /\ i + 8 - 1 <= Len(s)
          /\ \A k \in 1..8 : s[i + k - 1] = UrxvtMouse[k]
    <3>1. Len(UrxvtMouse) = 8 /\ Len(UrxvtMouse) > 0 /\ UrxvtMouse \in Stream
      BY FormTypes
    <3>2. \A i : i \in Occurrences(s, UrxvtMouse) <=> StandsAt(s, i, UrxvtMouse)
      BY <3>1, OccursAt
    <3> QED
      BY <3>1, <3>2, Zenon DEF StandsAt
  <2>2. \A i \in 1..Len(s) : i + 8 - 1 = i + 7
    OBVIOUS
  <2> QED
    BY <2>1, <2>2 DEF UrxvtAt
<1>3. \A i : i \in OldMouse(s) <=> OldAt(s, i)
  <2> DEFINE p == <<"E", "[", "M">>
  <2>1. p \in Stream /\ Len(p) = 3 /\ p[1] = "E" /\ p[2] = "[" /\ p[3] = "M"
    BY FormTypes
  <2> HIDE DEF p
  <2>2. \A i : i \in Occurrences(s, p) <=>
          i \in 1..Len(s) /\ i + 3 - 1 <= Len(s) /\ \A k \in 1..3 : s[i + k - 1] = p[k]
    <3>1. Len(p) > 0
      BY <2>1
    <3>2. \A j : j \in Occurrences(s, p) <=> StandsAt(s, j, p)
      BY <2>1, <3>1, OccursAt
    <3> QED
      BY <2>1, <3>2, Zenon DEF StandsAt
  <2>3. ASSUME NEW i \in 1..Len(s)
        PROVE  (\A k \in 1..3 : s[i + k - 1] = p[k]) <=> s[i] = p[1] /\ s[i + 1] = p[2] /\ s[i + 2] = p[3]
    <3>1. i + 1 - 1 = i /\ i + 2 - 1 = i + 1 /\ i + 3 - 1 = i + 2 /\ i \in Int
      OBVIOUS
    <3>2. \A k \in 1..3 : k = 1 \/ k = 2 \/ k = 3
      OBVIOUS
    <3>3. 1 \in 1..3 /\ 2 \in 1..3 /\ 3 \in 1..3
      OBVIOUS
    <3> QED
      BY <3>1, <3>2, <3>3
  <2>4. ASSUME NEW i \in 1..Len(s)
        PROVE  Triple(s, i + 3) <=> i + 5 <= Len(s) /\ s[i + 3] # "E" /\ s[i + 4] # "E" /\ s[i + 5] # "E"
    <3>1. i + 3 + 2 = i + 5 /\ i \in Int
      OBVIOUS
    <3>2. \A j : j \in (i + 3)..(i + 5) <=> j = i + 3 \/ j = i + 4 \/ j = i + 5
      OBVIOUS
    <3> QED
      BY <3>1, <3>2 DEF Triple
  <2>5. \A i \in 1..Len(s) : i + 5 <= Len(s) => i + 3 - 1 <= Len(s)
    BY <1>1
  <2>6. \A i : i \in OldMouse(s) <=> i \in Occurrences(s, p) /\ Triple(s, i + 3)
    BY DEF OldMouse, p
  <2> QED
    BY <2>1, <2>2, <2>3, <2>4, <2>5, <2>6 DEF OldAt
<1>4. ASSUME NEW i PROVE i \in OldBody(s) /\ Plausible(s, i + 3) <=> OddAt(s, i)
  <2> DEFINE p == <<"[", "M">>
  <2>1. p \in Stream /\ Len(p) = 2 /\ p[1] = "[" /\ p[2] = "M"
    BY FormTypes
  <2> HIDE DEF p
  <2>2. i \in Occurrences(s, p) <=>
          i \in 1..Len(s) /\ i + 2 - 1 <= Len(s) /\ \A k \in 1..2 : s[i + k - 1] = p[k]
    <3>1. Len(p) > 0
      BY <2>1
    <3>2. \A j : j \in Occurrences(s, p) <=> StandsAt(s, j, p)
      BY <2>1, <3>1, OccursAt
    <3> QED
      BY <2>1, <3>2, Zenon DEF StandsAt
  <2>3. ASSUME i \in 1..Len(s)
        PROVE  (\A k \in 1..2 : s[i + k - 1] = p[k]) <=> s[i] = p[1] /\ s[i + 1] = p[2]
    <3>1. i + 1 - 1 = i /\ i + 2 - 1 = i + 1 /\ i \in Int
      BY <2>3
    <3>2. \A k \in 1..2 : k = 1 \/ k = 2
      OBVIOUS
    <3>3. 1 \in 1..2 /\ 2 \in 1..2
      OBVIOUS
    <3> QED
      BY <3>1, <3>2, <3>3
  <2>4. ASSUME i \in 1..Len(s)
        PROVE  Triple(s, i + 2) <=> i + 4 <= Len(s) /\ s[i + 2] # "E" /\ s[i + 3] # "E" /\ s[i + 4] # "E"
    <3>1. i + 2 + 2 = i + 4 /\ i \in Int
      BY <2>4
    <3>2. \A j : j \in (i + 2)..(i + 4) <=> j = i + 2 \/ j = i + 3 \/ j = i + 4
      BY <2>4
    <3> QED
      BY <3>1, <3>2 DEF Triple
  <2>5. i \in 1..Len(s) => (i + 4 <= Len(s) => i + 2 - 1 <= Len(s)) /\ i + 3 + 1 = i + 4
    BY <1>1
  <2>6. i \in OldBody(s) <=> i \in Occurrences(s, p) /\ Triple(s, i + 2) /\ s[i + 2] \in OrphanButtons
    BY DEF OldBody, p
  <2>7. "E" \notin OrphanButtons /\ "E" \notin Columns /\ "E" \notin Rows
    BY MouseAssumption
  <2> QED
    BY <2>1, <2>2, <2>3, <2>4, <2>5, <2>6, <2>7 DEF OddAt, Plausible
<1> QED
  BY <1>2, <1>3, <1>4

(* They are none when nothing looks like them.                             *)
LEMMA CleanFinds ==
  ASSUME NEW s \in Stream
  PROVE  Clean(s) <=> /\ OldMouse(s) = {} /\ Occurrences(s, UrxvtMouse) = {}
                      /\ \A i \in OldBody(s) : ~Plausible(s, i + 3)
<1>1. /\ \A i : i \in OldMouse(s) <=> OldAt(s, i)
      /\ \A i : i \in Occurrences(s, UrxvtMouse) <=> UrxvtAt(s, i)
      /\ \A i : i \in OldBody(s) /\ Plausible(s, i + 3) <=> OddAt(s, i)
  BY FormsAre
<1> QED
  BY <1>1 DEF Clean

(* What a stream looks like in two parts.                                  *)
LEMMA FormsOfParts ==
  ASSUME NEW a \in Stream, NEW b \in Stream, NEW v, v = a \o b
  PROVE  /\ \A i : OldAt(a, i) => OldAt(v, i)
         /\ \A i : UrxvtAt(a, i) => UrxvtAt(v, i)
         /\ \A i : OddAt(a, i) => OddAt(v, i)
         /\ \A i : OldAt(b, i) => OldAt(v, i + Len(a))
         /\ \A i : UrxvtAt(b, i) => UrxvtAt(v, i + Len(a))
         /\ \A i : OddAt(b, i) => OddAt(v, i + Len(a))
<1> DEFINE n == Len(a)  m == Len(b)
<1>1. /\ Len(v) = n + m /\ n \in Nat /\ m \in Nat
      /\ \A i \in 1..n : v[i] = a[i]
      /\ \A i \in 1..m : v[i + n] = b[i]
  BY JoinedPlaces DEF Stream
<1> HIDE DEF n, m
<1>2. ASSUME NEW i, OldAt(a, i) PROVE OldAt(v, i)
  <2>1. i \in 1..n /\ i + 5 <= n
    BY <1>2 DEF OldAt, n
  <2>2. \A j \in {i, i + 1, i + 2, i + 3, i + 4, i + 5} : j \in 1..n /\ v[j] = a[j]
    BY <1>1, <2>1
  <2>3. i \in 1..Len(v) /\ i + 5 <= Len(v)
    BY <1>1, <2>1
  <2> QED
    BY <1>2, <2>2, <2>3 DEF OldAt
<1>3. ASSUME NEW i, UrxvtAt(a, i) PROVE UrxvtAt(v, i)
  <2>1. i \in 1..n /\ i + 7 <= n
    BY <1>3 DEF UrxvtAt, n
  <2>2. \A k \in 1..8 : i + k - 1 \in 1..n
    BY <1>1, <2>1
  <2>3. i \in 1..Len(v) /\ i + 7 <= Len(v)
    BY <1>1, <2>1
  <2> QED
    BY <1>1, <1>3, <2>2, <2>3 DEF UrxvtAt
<1>4. ASSUME NEW i, OddAt(a, i) PROVE OddAt(v, i)
  <2>1. i \in 1..n /\ i + 4 <= n
    BY <1>4 DEF OddAt, n
  <2>2. \A j \in {i, i + 1, i + 2, i + 3, i + 4} : j \in 1..n /\ v[j] = a[j]
    BY <1>1, <2>1
  <2>3. i \in 1..Len(v) /\ i + 4 <= Len(v)
    BY <1>1, <2>1
  <2> QED
    BY <1>4, <2>2, <2>3 DEF OddAt
<1>5. ASSUME NEW i, OldAt(b, i) PROVE OldAt(v, i + n)
  <2>1. i \in 1..m /\ i + 5 <= m
    BY <1>5 DEF OldAt, m
  <2>2. \A j \in {i, i + 1, i + 2, i + 3, i + 4, i + 5} : j \in 1..m /\ v[j + n] = b[j]
    BY <1>1, <2>1
  <2>3. /\ i + n \in 1..Len(v) /\ (i + n) + 5 <= Len(v)
        /\ (i + n) + 1 = (i + 1) + n /\ (i + n) + 2 = (i + 2) + n /\ (i + n) + 3 = (i + 3) + n
        /\ (i + n) + 4 = (i + 4) + n /\ (i + n) + 5 = (i + 5) + n
    BY <1>1, <2>1
  <2> QED
    BY <1>5, <2>2, <2>3 DEF OldAt
<1>6. ASSUME NEW i, UrxvtAt(b, i) PROVE UrxvtAt(v, i + n)
  <2>1. i \in 1..m /\ i + 7 <= m
    BY <1>6 DEF UrxvtAt, m
  <2>2. \A k \in 1..8 : i + k - 1 \in 1..m /\ (i + n) + k - 1 = (i + k - 1) + n
    BY <1>1, <2>1
  <2>3. i + n \in 1..Len(v) /\ (i + n) + 7 <= Len(v)
    BY <1>1, <2>1
  <2>4. \A k \in 1..8 : v[(i + n) + k - 1] = UrxvtMouse[k]
    BY <1>1, <1>6, <2>2 DEF UrxvtAt
  <2> QED
    BY <2>3, <2>4 DEF UrxvtAt
<1>7. ASSUME NEW i, OddAt(b, i) PROVE OddAt(v, i + n)
  <2>1. i \in 1..m /\ i + 4 <= m
    BY <1>7 DEF OddAt, m
  <2>2. \A j \in {i, i + 1, i + 2, i + 3, i + 4} : j \in 1..m /\ v[j + n] = b[j]
    BY <1>1, <2>1
  <2>3. /\ i + n \in 1..Len(v) /\ (i + n) + 4 <= Len(v)
        /\ (i + n) + 1 = (i + 1) + n /\ (i + n) + 2 = (i + 2) + n /\ (i + n) + 3 = (i + 3) + n
        /\ (i + n) + 4 = (i + 4) + n
    BY <1>1, <2>1
  <2> QED
    BY <1>7, <2>2, <2>3 DEF OddAt
<1> QED
  BY <1>2, <1>3, <1>4, <1>5, <1>6, <1>7 DEF n

(* Parts of a stream in which nothing looks like a sequence are such       *)
(* streams.                                                                *)
LEMMA SilentParts ==
  ASSUME NEW a \in Stream, NEW b \in Stream, Silent(a \o b)
  PROVE  Silent(a) /\ Silent(b)
<1>1. Mice(a) = {} /\ Mice(b) = {}
  BY PiecesFree DEF Silent
<1>2. Clean(a \o b)
  BY DEF Silent
<1>3. Clean(a) /\ Clean(b)
  <2> DEFINE v == a \o b
  <2>1. Clean(v) /\ v = a \o b
    BY <1>2
  <2> HIDE DEF v
  <2>2. /\ \A i : OldAt(a, i) => OldAt(v, i)
        /\ \A i : UrxvtAt(a, i) => UrxvtAt(v, i)
        /\ \A i : OddAt(a, i) => OddAt(v, i)
        /\ \A i : OldAt(b, i) => OldAt(v, i + Len(a))
        /\ \A i : UrxvtAt(b, i) => UrxvtAt(v, i + Len(a))
        /\ \A i : OddAt(b, i) => OddAt(v, i + Len(a))
    BY <2>1, FormsOfParts
  <2> QED
    BY <2>1, <2>2, Zenon DEF Clean
<1> QED
  BY <1>1, <1>3 DEF Silent

(* A body, character by character.                                         *)
LEMMA BodyPlaces ==
  /\ Body[1] = "[" /\ Body[2] = "<" /\ Body[3] = "n" /\ Body[4] = ";" /\ Body[5] = "n"
  /\ Body[6] = ";" /\ Body[7] = "n" /\ Body[8] = "M"
BY DEF Body

(* A part of a read that begins with an escape character and is no         *)
(* sequence.                                                               *)
Foreign(s, i, l) ==
  /\ i \in 1..Len(s) /\ l \in 3..8 /\ i + l - 1 <= Len(s)
  /\ s[i] = "E" /\ s[i + 2] # "<" /\ \A k \in 2..l : s[i + k - 1] # "E"

(* What stands in a stream with other text around it.                      *)
Stands(v, s, i, l) ==
  \E x, q, y \in Stream :
    v = x \o (q \o y) /\ Len(q) = l /\ \A k \in 1..l : q[k] = s[i + k - 1]

(* Such a part is left whole.                                              *)
LEMMA ForeignStays ==
  ASSUME NEW s \in Stream, Escaped(s), NEW i, NEW l, Foreign(s, i, l)
  PROVE  Stands(Left(s), s, i, l)
<1> DEFINE n == Len(s)  p == i - 1  a == SubSeq(s, 1, p)  c == SubSeq(s, p + 1, n)
           q == SubSeq(c, 1, l)  b == SubSeq(c, l + 1, Len(c))
<1>1. /\ n \in Nat /\ i \in 1..n /\ l \in 3..8 /\ i + l - 1 <= n
      /\ s[i] = "E" /\ s[i + 2] # "<" /\ \A k \in 2..l : s[i + k - 1] # "E"
  BY DEF Foreign, Stream
<1>2. p \in 0..n /\ n - p >= l /\ p + 1 = i
  <2> HIDE DEF n
  <2> QED
    BY <1>1
<1>3. /\ a \in Stream /\ c \in Stream /\ Len(c) = n - p /\ s = a \o c
      /\ \A k \in 1..(n - p) : c[k] = s[p + k]
  <2> HIDE DEF p
  <2> QED
    BY <1>2, CutAt DEF Stream
<1> HIDE DEF n, a, c, p
<1>4. l \in 0..Len(c) /\ Len(c) \in Nat
  BY <1>1, <1>2, <1>3
<1>5. /\ q \in Stream /\ Len(q) = l /\ b \in Stream /\ c = q \o b
      /\ \A k \in 1..l : q[k] = c[k]
  BY <1>3, <1>4, CutAt DEF Stream
<1> HIDE DEF q, b
<1>6. \A k \in 1..l : c[k] = s[i + k - 1]
  <2>1. \A k \in 1..l : k \in 1..(n - p) /\ p + k = i + k - 1
    BY <1>1, <1>2
  <2> QED
    BY <1>3, <2>1
<1>7. /\ c[1] = "E" /\ c[3] # "<" /\ \A k \in 2..l : c[k] # "E"
  <2>1. 1 \in 1..l /\ 3 \in 1..l /\ i + 1 - 1 = i /\ i + 3 - 1 = i + 2 /\ \A k \in 2..l : k \in 1..l
    BY <1>1
  <2>2. c[1] = s[i + 1 - 1] /\ c[3] = s[i + 3 - 1] /\ \A k \in 2..l : c[k] = s[i + k - 1]
    BY <1>6, <2>1
  <2> QED
    BY <1>1, <2>1, <2>2
<1>8. Escaped(c)
  BY <1>3, EscapedParts
<1>9. \A j \in Mice(c) : j > l + 1
  <2> SUFFICES ASSUME NEW j \in Mice(c), ~(j > l + 1) PROVE FALSE
    OBVIOUS
  <2>1. BodyAt(c, j) /\ j \in Nat
    BY <1>3, MiceAre DEF Stream
  <2>2. j \in 1..(l + 1) /\ \A k \in 1..8 : c[j + k - 1] = Body[k]
    BY <1>1, <2>1 DEF BodyAt
  <2>3. c[j + 1 - 1] = Body[1] /\ c[j + 2 - 1] = Body[2]
    BY <2>2
  <2>4. j + 1 - 1 = j /\ j + 2 - 1 = j + 1
    BY <2>1
  <2>5. c[j] = "[" /\ c[j + 1] = "<"
    BY <2>3, <2>4, BodyPlaces, Zenon
  <2>6. j # 1
    BY <1>7, <2>5
  <2>7. c[j - 1] = "E" /\ j - 1 \in 1..l
    BY <1>1, <1>8, <2>2, <2>6 DEF Escaped
  <2>8. j - 1 = 1
    <3>1. \A k \in 1..l : k = 1 \/ k \in 2..l
      BY <1>1
    <3> QED
      BY <1>7, <2>7, <3>1, Zenon
  <2>9. j + 1 = 3
    BY <2>1, <2>8
  <2> QED
    BY <1>7, <2>5, <2>9
<1>10. NoneAcross(a, c)
  <2>1. Len(c) > 0
    BY <1>1, <1>2, <1>3
  <2> QED
    BY <1>3, <1>7, <2>1, BeforeEscape
<1>11. NoneAcross(q, b)
  <2>1. \A j \in Mice(q \o b) : ~(j <= Len(q) + 1)
    <3>1. \A j \in Mice(c) : j \in Nat /\ j > l + 1
      BY <1>3, <1>9, MiceAre DEF Stream
    <3> QED
      BY <1>1, <1>5, <3>1
  <2> QED
    BY <2>1 DEF NoneAcross
<1>12. Mice(q) = {}
  <2> SUFFICES ASSUME NEW j \in Mice(q) PROVE FALSE
    OBVIOUS
  <2>1. j \in Mice(c) /\ j \in 1..(l - 7)
    BY <1>5, MiceOfParts
  <2> QED
    BY <1>1, <1>9, <2>1
<1>13. Left(s) = Left(a) \o (q \o Left(b))
  <2>1. Left(s) = Left(a) \o Left(c)
    BY <1>3, <1>10, LeftJoins
  <2>2. Left(c) = Left(q) \o Left(b)
    BY <1>5, <1>11, LeftJoins
  <2>3. Left(q) = q
    BY <1>5, <1>12, LeftIs
  <2> QED
    BY <2>1, <2>2, <2>3
<1>14. \A k \in 1..l : q[k] = s[i + k - 1]
  BY <1>5, <1>6
<1>15. Left(a) \in Stream /\ Left(b) \in Stream /\ q \in Stream /\ Len(q) = l
  BY <1>3, <1>5, LeftIs
<1> DEFINE x == Left(a)  y == Left(b)
<1>16. x \in Stream /\ y \in Stream /\ Left(s) = x \o (q \o y)
  BY <1>13, <1>15
<1> HIDE DEF x, y
<1> QED
  BY <1>14, <1>15, <1>16 DEF Stands

(* So none of them begins with an escape character in a read that is left  *)
(* without one.                                                            *)
LEMMA ReadIsClean ==
  ASSUME NEW s \in Stream, Escaped(s), Clean(Left(s))
  PROVE  OldMouse(s) = {} /\ Occurrences(s, UrxvtMouse) = {}
<1>1. Len(s) \in Nat
  BY DEF Stream
<1>2. ASSUME NEW x \in Stream, NEW q \in Stream, NEW y \in Stream,
             Left(s) = x \o (q \o y), OldAt(q, 1) \/ UrxvtAt(q, 1)
      PROVE  FALSE
  <2> DEFINE z == q \o y  v == x \o z
  <2>1. z \in Stream /\ v = Left(s)
    BY <1>2, StreamJoins
  <2>2. OldAt(z, 1) \/ UrxvtAt(z, 1)
    BY <1>2, FormsOfParts
  <2> HIDE DEF z
  <2>3. OldAt(v, 1 + Len(x)) \/ UrxvtAt(v, 1 + Len(x))
    BY <2>1, <2>2, FormsOfParts
  <2> QED
    BY <2>1, <2>3 DEF Clean
<1>3. ASSUME NEW i, OldAt(s, i) PROVE FALSE
  <2>1. Foreign(s, i, 6)
    <3>1. i \in 1..Len(s) /\ i + 5 <= Len(s) /\ i + 6 - 1 = i + 5
      BY <1>3 DEF OldAt
    <3>2. \A k \in 2..6 : i + k - 1 \in {i + 1, i + 2, i + 3, i + 4, i + 5}
      BY <3>1
    <3>3. s[i] = "E" /\ s[i + 2] # "<" /\ \A j \in {i + 1, i + 2, i + 3, i + 4, i + 5} : s[j] # "E"
      BY <1>3 DEF OldAt
    <3>4. 6 \in 3..8
      OBVIOUS
    <3> QED
      BY <3>1, <3>2, <3>3, <3>4 DEF Foreign
  <2>2. PICK x, q, y \in Stream :
          Left(s) = x \o (q \o y) /\ Len(q) = 6 /\ \A k \in 1..6 : q[k] = s[i + k - 1]
    <3>1. Stands(Left(s), s, i, 6)
      BY <2>1, ForeignStays
    <3> QED
      BY <3>1 DEF Stands
  <2>3. /\ q[1] = s[i] /\ q[2] = s[i + 1] /\ q[3] = s[i + 2]
        /\ q[4] = s[i + 3] /\ q[5] = s[i + 4] /\ q[6] = s[i + 5]
    <3>1. /\ i + 1 - 1 = i /\ i + 2 - 1 = i + 1 /\ i + 3 - 1 = i + 2
          /\ i + 4 - 1 = i + 3 /\ i + 5 - 1 = i + 4 /\ i + 6 - 1 = i + 5
      BY <1>1, <1>3 DEF OldAt
    <3>2. /\ q[1] = s[i + 1 - 1] /\ q[2] = s[i + 2 - 1] /\ q[3] = s[i + 3 - 1]
          /\ q[4] = s[i + 4 - 1] /\ q[5] = s[i + 5 - 1] /\ q[6] = s[i + 6 - 1]
      BY <2>2
    <3> QED
      BY <3>1, <3>2
  <2>4. OldAt(q, 1)
    <3>1. 1 \in 1..Len(q) /\ 1 + 5 <= Len(q) /\ 1 + 1 = 2 /\ 1 + 2 = 3 /\ 1 + 3 = 4 /\ 1 + 4 = 5 /\ 1 + 5 = 6
      BY <2>2
    <3> QED
      BY <1>3, <2>3, <3>1 DEF OldAt
  <2> QED
    BY <1>2, <2>2, <2>4
<1>4. ASSUME NEW i, UrxvtAt(s, i) PROVE FALSE
  <2>0. i \in 1..Len(s) /\ i + 7 <= Len(s) /\ \A k \in 1..8 : s[i + k - 1] = UrxvtMouse[k]
    BY <1>4 DEF UrxvtAt
  <2>1. Foreign(s, i, 8)
    <3>1. i + 8 - 1 = i + 7 /\ i + 1 - 1 = i /\ i + 3 - 1 = i + 2
      BY <2>0
    <3>2. s[i + 1 - 1] = UrxvtMouse[1] /\ s[i + 3 - 1] = UrxvtMouse[3]
          /\ \A k \in 2..8 : s[i + k - 1] = UrxvtMouse[k]
      BY <2>0
    <3>3. s[i] = "E" /\ s[i + 2] # "<" /\ \A k \in 2..8 : s[i + k - 1] # "E"
      BY <3>1, <3>2, FormTypes
    <3>4. 8 \in 3..8
      OBVIOUS
    <3> QED
      BY <2>0, <3>1, <3>3, <3>4 DEF Foreign
  <2>2. PICK x, q, y \in Stream :
          Left(s) = x \o (q \o y) /\ Len(q) = 8 /\ \A k \in 1..8 : q[k] = s[i + k - 1]
    <3>1. Stands(Left(s), s, i, 8)
      BY <2>1, ForeignStays
    <3> QED
      BY <3>1 DEF Stands
  <2>3. UrxvtAt(q, 1)
    <3>1. 1 \in 1..Len(q) /\ 1 + 7 <= Len(q) /\ \A k \in 1..8 : 1 + k - 1 = k
      BY <2>2
    <3> QED
      BY <2>0, <2>2, <3>1 DEF UrxvtAt
  <2> QED
    BY <1>2, <2>2, <2>3
<1> QED
  BY <1>3, <1>4, FormsAre

(* A body in front of a stream makes up none of them.                      *)
LEMMA BodyIsClean ==
  ASSUME NEW l \in Stream, Clean(l), NEW v, v = Body \o l
  PROVE  OldMouse(v) = {} /\ \A i \in OldBody(v) : ~Plausible(v, i + 3)
<1>1. Body \in Stream /\ Len(Body) = 8 /\ v \in Stream
  BY SequenceTypes, BodyIs, StreamJoins
<1>2. /\ Len(v) = 8 + Len(l) /\ Len(l) \in Nat /\ \A k \in 1..8 : v[k] = Body[k]
      /\ \A k \in 1..Len(l) : v[k + 8] = l[k]
  <2>1. Body \in Seq(Signs) /\ l \in Seq(Signs)
    BY <1>1 DEF Stream
  <2>2. /\ Len(v) = Len(Body) + Len(l) /\ Len(l) \in Nat /\ \A k \in 1..Len(Body) : v[k] = Body[k]
        /\ \A k \in 1..Len(l) : v[k + Len(Body)] = l[k]
    BY <2>1, JoinedPlaces
  <2> QED
    BY <1>1, <2>2
<1>3. ASSUME NEW i \in 1..8 PROVE v[i] # "E" /\ (v[i] = "[" => v[i + 1] # "M")
  <2>0. 2 \in 1..8 /\ "<" # "M"
    OBVIOUS
  <2>1. v[i] = Body[i] /\ v[2] = Body[2] /\ v[2] # "M"
    BY <1>2, <2>0, BodyPlaces, Zenon
  <2>2. v[i] # "E" /\ (v[i] = "[" => i = 1)
    BY <2>1, BodyIs
  <2>3. 1 + 1 = 2
    OBVIOUS
  <2> QED
    BY <2>1, <2>2, <2>3
<1>4. ASSUME NEW i, OldAt(v, i) PROVE FALSE
  <2>1. i \in 1..Len(v) /\ i + 5 <= Len(v) /\ v[i] = "E"
    BY <1>4 DEF OldAt
  <2>2. i \notin 1..8
    BY <1>3, <2>1
  <2> DEFINE j == i - 8
  <2>3. /\ j \in 1..Len(l) /\ j + 5 <= Len(l) /\ i = j + 8
        /\ i + 1 = (j + 1) + 8 /\ i + 2 = (j + 2) + 8 /\ i + 3 = (j + 3) + 8
        /\ i + 4 = (j + 4) + 8 /\ i + 5 = (j + 5) + 8
    BY <1>2, <2>1, <2>2
  <2> HIDE DEF j
  <2>4. \A k \in {j, j + 1, j + 2, j + 3, j + 4, j + 5} : k \in 1..Len(l)
    <3>1. j \in 1..Len(l) /\ j + 5 <= Len(l) /\ Len(l) \in Nat
      BY <1>2, <2>3
    <3> QED
      BY <3>1
  <2>5. OldAt(l, j)
    BY <1>2, <1>4, <2>3, <2>4 DEF OldAt
  <2> QED
    BY <2>5 DEF Clean
<1>5. ASSUME NEW i, OddAt(v, i) PROVE FALSE
  <2>1. i \in 1..Len(v) /\ i + 4 <= Len(v) /\ v[i] = "[" /\ v[i + 1] = "M"
    BY <1>5 DEF OddAt
  <2>2. i \notin 1..8
    BY <1>3, <2>1
  <2> DEFINE j == i - 8
  <2>3. /\ j \in 1..Len(l) /\ j + 4 <= Len(l) /\ i = j + 8
        /\ i + 1 = (j + 1) + 8 /\ i + 2 = (j + 2) + 8 /\ i + 3 = (j + 3) + 8
        /\ i + 4 = (j + 4) + 8
    BY <1>2, <2>1, <2>2
  <2> HIDE DEF j
  <2>4. \A k \in {j, j + 1, j + 2, j + 3, j + 4} : k \in 1..Len(l)
    <3>1. j \in 1..Len(l) /\ j + 4 <= Len(l) /\ Len(l) \in Nat
      BY <1>2, <2>3
    <3> QED
      BY <3>1
  <2>5. OddAt(l, j)
    BY <1>2, <1>5, <2>3, <2>4 DEF OddAt
  <2> QED
    BY <2>5 DEF Clean
<1> QED
  BY <1>1, <1>4, <1>5, FormsAre

(* Nothing of the old form is taken out of a stream that has none of its   *)
(* bodies.                                                                 *)
LEMMA NoOldBodies ==
  ASSUME NEW s \in Stream, \A i \in OldBody(s) : ~Plausible(s, i + 3)
  PROVE  /\ StripOldBodies(s) = s
         /\ {i \in Leftmost(OldBody(s), 5) : s[i + 2] \in WheelButtons /\ Plausible(s, i + 3)} = {}
<1>1. Leftmost(OldBody(s), 5) \subseteq OldBody(s)
  BY DEF Leftmost
<1>2. \A i \in Leftmost(OldBody(s), 5) : ~Plausible(s, i + 3)
  BY <1>1
<1> DEFINE out == {i \in Leftmost(OldBody(s), 5) : Plausible(s, i + 3)}
<1>3. out = {}
  BY <1>2
<1>4. StripOldBodies(s) = Outside(s, Stretches(out, 5))
  BY DEF StripOldBodies
<1> HIDE DEF out
<1>5. Stretches(out, 5) = {}
  BY <1>3 DEF Stretches
<1>6. Outside(s, {}) = s
  BY AllOutside DEF Stream
<1> QED
  BY <1>2, <1>4, <1>5, <1>6

(* What the filter counts of a read that has none of the other forms.      *)
LEMMA ScrollsAre ==
  ASSUME NEW raw \in Stream, OldMouse(raw) = {}, NEW v \in Stream, v = Without(raw, SgrMouse),
         OldMouse(v) = {}, \A i \in OldBody(v) : ~Plausible(v, i + 3)
  PROVE  ScrollEvents(raw) = Cardinality(Whole(raw)) + Cardinality(Mice(v))
<1> DEFINE rest == Outside(v, Stretches(OldMouse(v), 6))
           old == {i \in OldMouse(raw) : raw[i + 3] \in WheelButtons /\ Plausible(raw, i + 4)}
           odd == {i \in Leftmost(OldBody(rest), 5) :
                     rest[i + 2] \in WheelButtons /\ Plausible(rest, i + 3)}
<1>1. ScrollEvents(raw) = Cardinality(Whole(raw)) + Cardinality(Mice(rest))
                          + Cardinality(old) + Cardinality(odd)
  BY DEF ScrollEvents, Whole, Mice
<1>2. rest = v
  <2>1. Stretches(OldMouse(v), 6) = {}
    BY DEF Stretches
  <2>2. Outside(v, {}) = v
    BY AllOutside DEF Stream
  <2> QED
    BY <2>1, <2>2
<1>3. old = {}
  OBVIOUS
<1> HIDE DEF rest, old
<1>4. odd = {}
  BY <1>2, NoOldBodies
<1> HIDE DEF odd
<1>5. Cardinality({}) = 0
  BY FS_EmptySet
<1>6. Cardinality(Mice(v)) \in Nat /\ Cardinality(Whole(raw)) \in Nat
  <2>1. Cardinality(Mice(v)) \in Nat
    BY SequencesAre DEF Sequences
  <2>2. DOMAIN raw = 1..Len(raw) /\ Len(raw) \in Nat
    BY DEF Stream
  <2>3. Whole(raw) \subseteq 1..Len(raw)
    BY <2>2 DEF Whole, Occurrences
  <2>4. Cardinality(Whole(raw)) \in Nat
    <3>1. IsFiniteSet(1..Len(raw))
      BY <2>2, FS_Interval
    <3> QED
      BY <2>3, <3>1, FS_Subset, FS_CardinalityType
  <2> QED
    BY <2>1, <2>4
<1> QED
  BY <1>1, <1>2, <1>3, <1>4, <1>5, <1>6

(* What the filter does to a read whose mouse sequences have their escape  *)
(* characters, the first one perhaps excepted, and around which none is    *)
(* made up.                                                                *)
LEMMA FilterIs ==
  ASSUME NEW raw \in Stream, Escaped(raw), Silent(Left(raw))
  PROVE  /\ StripOrphanMouseBodies(StripMouseSequences(raw)) = Left(raw)
         /\ ScrollEvents(raw) = Sequences(raw)
<1>1. /\ Mice(Left(raw)) = {} /\ Clean(Left(raw)) /\ Left(raw) \in Stream
      /\ OldMouse(raw) = {} /\ Occurrences(raw, UrxvtMouse) = {}
  BY ReadIsClean, LeftIs DEF Silent
<1>2. StripMouseSequences(raw) = Without(raw, SgrMouse)
  <2>1. Stretches({}, 6) = {} /\ Stretches({}, Len(UrxvtMouse)) = {}
    BY DEF Stretches
  <2>2. \A places : (places \cup {}) \cup {} = places
    OBVIOUS
  <2> QED
    BY <1>1, <2>1, <2>2 DEF StripMouseSequences, Without
<1>3. StripOldBodies(Left(raw)) = Left(raw)
  BY <1>1, CleanFinds, NoOldBodies
<1>4. CASE 1 \notin Mice(raw)
  <2>1. Without(raw, SgrMouse) = Left(raw) /\ Cardinality(Whole(raw)) = Sequences(raw)
    BY <1>4, StripWhole
  <2>2. StripOrphanMouseBodies(Left(raw)) = Left(raw)
    BY <1>1, <1>3, BodiesOutside DEF StripOrphanMouseBodies
  <2>3. Cardinality({}) = 0 /\ Sequences(raw) \in Nat
    BY FS_EmptySet, SequencesAre
  <2>4. ScrollEvents(raw) = Cardinality(Whole(raw)) + Cardinality(Mice(Left(raw)))
    BY <1>1, <2>1, CleanFinds, ScrollsAre
  <2> QED
    BY <1>1, <1>2, <2>1, <2>2, <2>3, <2>4
<1>5. CASE 1 \in Mice(raw)
  <2> DEFINE b == SubSeq(raw, 8 + 1, Len(raw))  front == SubSeq(raw, 1, 8)
  <2>1. BodyAt(raw, 1) /\ Len(raw) \in Nat
    BY <1>5, MiceAre DEF Stream
  <2>2. 8 \in 0..Len(raw)
    BY <2>1 DEF BodyAt
  <2>3. /\ front \in Seq(Signs) /\ Len(front) = 8 /\ b \in Stream /\ raw = front \o b
        /\ \A k \in 1..8 : front[k] = raw[k]
    BY <2>2, CutAt DEF Stream
  <2> HIDE DEF b, front
  <2>4. \A k \in 1..8 : front[k] = Body[k]
    <3>1. \A k \in 1..8 : 1 + k - 1 = k
      OBVIOUS
    <3>2. \A k \in 1..8 : raw[1 + k - 1] = Body[k]
      BY <2>1 DEF BodyAt
    <3> QED
      BY <2>3, <3>1, <3>2
  <2>5. front = Body
    <3>1. Body \in Seq(Signs) /\ Len(Body) = Len(front)
      BY <2>3, SequenceTypes, BodyIs DEF Stream
    <3> QED
      BY <2>3, <2>4, <3>1, SeqEqual
  <2>6. raw = Body \o b
    BY <2>3, <2>5
  <2>7. /\ Without(raw, SgrMouse) = Body \o Left(raw)
        /\ Cardinality(Whole(raw)) + 1 = Sequences(raw)
        /\ Without(Body \o Left(raw), Body) = Left(raw)
        /\ Mice(Body \o Left(raw)) = {1}
    BY <1>1, <2>3, <2>6, StripFront
  <2>8. Cardinality({1}) = 1
    BY FS_Singleton
  <2>9. ScrollEvents(raw) = Cardinality(Whole(raw)) + Cardinality(Mice(Body \o Left(raw)))
    <3> DEFINE v == Body \o Left(raw)
    <3>1. v \in Stream /\ v = Without(raw, SgrMouse)
      BY <1>1, <2>7, SequenceTypes, StreamJoins
    <3>2. OldMouse(v) = {} /\ \A i \in OldBody(v) : ~Plausible(v, i + 3)
      BY <1>1, BodyIsClean
    <3> HIDE DEF v
    <3>3. ScrollEvents(raw) = Cardinality(Whole(raw)) + Cardinality(Mice(v))
      BY <1>1, <3>1, <3>2, ScrollsAre
    <3> QED
      BY <3>3 DEF v
  <2>10. StripOrphanMouseBodies(Body \o Left(raw)) = Left(raw)
    BY <1>3, <2>7 DEF StripOrphanMouseBodies
  <2> QED
    BY <1>2, <2>7, <2>8, <2>9, <2>10
<1> QED
  BY <1>4, <1>5

----------------------------------------------------------------------------
(* What the filter holds back.  The end of a read that is the beginning of *)
(* a sequence starts with a character it does not have again, so that no   *)
(* other end matches.                                                      *)

(* What the filter holds back. *)
Ended(s, p) == Len(p) <= Len(s) /\ SubSeq(s, Len(s) - Len(p) + 1, Len(s)) = p

(* A part of a sequence that starts with a character it does not have a    *)
(* second time.                                                            *)
Led(p, c) ==
  /\ p \in Stream /\ Len(p) \in 2..8 /\ p[1] = c
  /\ \A k \in 2..Len(p) : p[k] # c

(* Parts of all lengths.                                                   *)
AllLed(c, d, e, f, g) ==
  /\ Led(<<c, d>>, c) /\ Led(<<c, d, e>>, c) /\ Led(<<c, d, e, f, g>>, c)
  /\ Led(<<c, d, e, f, g, f, g>>, c) /\ Led(<<c, d, e, f, g, f, g, f>>, c)

(* They are such parts, whatever their characters are,                     *)
LEMMA LedOf ==
  \A c, d, e, f, g \in Signs : c # d /\ c # e /\ c # f /\ c # g => AllLed(c, d, e, f, g)
<1> SUFFICES ASSUME NEW c \in Signs, NEW d \in Signs, NEW e \in Signs, NEW f \in Signs,
                    NEW g \in Signs, c # d, c # e, c # f, c # g
             PROVE  AllLed(c, d, e, f, g)
  OBVIOUS
<1>1. /\ <<c, d>> \in Stream /\ <<c, d, e>> \in Stream
      /\ <<c, d, e, f, g>> \in Stream /\ <<c, d, e, f, g, f, g>> \in Stream
      /\ <<c, d, e, f, g, f, g, f>> \in Stream
  BY LedTuples DEF Stream
<1>2. Led(<<c, d>>, c)
  BY <1>1 DEF Led
<1>3. Led(<<c, d, e>>, c)
  BY <1>1 DEF Led
<1>4. Led(<<c, d, e, f, g>>, c)
  BY <1>1 DEF Led
<1>5. Led(<<c, d, e, f, g, f, g>>, c)
  BY <1>1 DEF Led
<1>6. Led(<<c, d, e, f, g, f, g, f>>, c)
  BY <1>1 DEF Led
<1> QED
  BY <1>2, <1>3, <1>4, <1>5, <1>6 DEF AllLed

(* as the beginnings of a sequence are.                                    *)
LEMMA PrefixesLed == \A p \in IncompleteMousePrefix : Led(p, "E")
<1>1. AllLed("E", "[", "<", "n", ";")
  BY LettersAre, LedOf, Zenon
<1> QED
  BY <1>1, Zenon DEF IncompleteMousePrefix, AllLed

(* What has none of two characters.                                        *)
Plain(p, c, d) == p \in Stream /\ \A k \in 1..Len(p) : p[k] # c /\ p[k] # d

(* The numbers and semicolons of a body.                                   *)
LEMMA PlainParts ==
  ASSUME NEW c, NEW d, NEW n \in Signs, NEW s \in Signs, n # c, n # d, s # c, s # d
  PROVE  /\ Plain(<<>>, c, d) /\ Plain(<<n>>, c, d) /\ Plain(<<s>>, c, d) /\ Plain(<<s, n>>, c, d)
         /\ Len(<<>>) = 0 /\ Len(<<n>>) = 1 /\ Len(<<s>>) = 1 /\ Len(<<s, n>>) = 2
<1>1. <<>> \in Stream /\ <<n>> \in Stream /\ <<s>> \in Stream /\ <<s, n>> \in Stream
  BY LedTuples, SequenceTypes DEF Stream
<1> QED
  BY <1>1 DEF Plain

(* The beginning of a body.                                                *)
Opens(p, c, d) == Led(p, d) /\ Len(p) < 8 /\ p[1] # c /\ \A k \in 2..Len(p) : p[k] # c

(* A beginning that goes on.                                               *)
LEMMA OpensOn ==
  ASSUME NEW c, NEW d, NEW p, NEW a, Opens(p, c, d), Plain(a, c, d), Len(p) + Len(a) < 8
  PROVE  Opens(p \o a, c, d) /\ Len(p \o a) = Len(p) + Len(a)
<1> DEFINE v == p \o a
<1>1. p \in Seq(Signs) /\ a \in Seq(Signs)
  BY DEF Opens, Led, Plain, Stream
<1>2. /\ v \in Seq(Signs) /\ Len(v) = Len(p) + Len(a) /\ Len(a) \in Nat
      /\ \A k \in 1..Len(p) : v[k] = p[k]
      /\ \A k \in 1..Len(a) : v[k + Len(p)] = a[k]
  BY <1>1, JoinedPlaces
<1>3. /\ Len(p) \in 2..7 /\ p[1] = d /\ p[1] # c /\ \A k \in 2..Len(p) : p[k] # c /\ p[k] # d
  <2>1. Len(p) \in 2..8 /\ Len(p) < 8
    BY DEF Opens, Led
  <2>2. Len(p) \in 2..7
    <3>1. \A k \in 2..8 : k < 8 => k \in 2..7
      OBVIOUS
    <3> QED
      BY <2>1, <3>1, Zenon
  <2>3. p[1] = d /\ p[1] # c /\ \A k \in 2..Len(p) : p[k] # c /\ p[k] # d
    BY DEF Opens, Led
  <2> QED
    BY <2>2, <2>3
<1>4. \A k \in 1..Len(a) : a[k] # c /\ a[k] # d
  BY DEF Plain
<1> HIDE DEF v
<1>5. ASSUME NEW k \in 2..Len(v) PROVE v[k] # c /\ v[k] # d
  <2>1. CASE k <= Len(p)
    <3>1. k \in 2..Len(p) /\ k \in 1..Len(p)
      BY <1>2, <1>3, <2>1
    <3> QED
      BY <1>2, <1>3, <3>1
  <2>2. CASE ~(k <= Len(p))
    <3>1. k - Len(p) \in 1..Len(a) /\ k = (k - Len(p)) + Len(p)
      BY <1>2, <1>3, <2>2
    <3> QED
      BY <1>2, <1>4, <3>1
  <2> QED
    BY <2>1, <2>2
<1>6. Len(v) \in 2..7 /\ v[1] = p[1]
  <2>1. 1 \in 1..Len(p)
    BY <1>3
  <2>2. Len(p) \in 2..7 /\ Len(a) \in Nat /\ Len(v) = Len(p) + Len(a)
    BY <1>2, <1>3
  <2>3. Len(v) \in 2..7
    BY <2>2
  <2> QED
    BY <1>2, <2>1, <2>3
<1>7. Opens(v, c, d)
  BY <1>2, <1>3, <1>5, <1>6 DEF Opens, Led, Stream
<1> QED
  BY <1>2, <1>7 DEF v

(* What it may go on with.                                                 *)
Part(a, c, d, n) == Plain(a, c, d) /\ Len(a) \in 0..n

(* How long it gets.                                                       *)
LEMMA OpensFurther ==
  ASSUME NEW c, NEW d, NEW p, NEW a, NEW i \in Nat, NEW j \in Nat, NEW n \in Nat,
         Opens(p, c, d), Len(p) \in i..j, Part(a, c, d, n), j + n < 8
  PROVE  Opens(p \o a, c, d) /\ Len(p \o a) \in i..(j + n)
<1>1. Plain(a, c, d) /\ Len(a) \in 0..n
  BY DEF Part
<1>2. Len(p) + Len(a) < 8 /\ Len(p) + Len(a) \in i..(j + n)
  <2>1. \A k \in i..j, m \in 0..n : k + m < 8 /\ k + m \in i..(j + n)
    OBVIOUS
  <2> QED
    BY <1>1, <2>1, Zenon
<1>3. Opens(p \o a, c, d) /\ Len(p \o a) = Len(p) + Len(a)
  BY <1>1, <1>2, OpensOn
<1> QED
  BY <1>2, <1>3

(* It goes on three times.                                                 *)
LEMMA OpensThrice ==
  ASSUME NEW c, NEW d, NEW p, NEW x, NEW y, NEW z, Opens(p, c, d), Len(p) \in 2..2,
         Part(x, c, d, 1), Part(y, c, d, 2), Part(z, c, d, 2)
  PROVE  Opens(p \o x \o y \o z, c, d)
<1> DEFINE q == p \o x
<1>1. Opens(q, c, d) /\ Len(q) \in 2..3
  <2>1. Opens(p \o x, c, d) /\ Len(p \o x) \in 2..(2 + 1)
    <3>1. 2 \in Nat /\ 1 \in Nat /\ 2 + 1 < 8
      OBVIOUS
    <3> QED
      BY <3>1, OpensFurther, Zenon
  <2> QED
    BY <2>1
<1> HIDE DEF q
<1> DEFINE r == q \o y
<1>2. Opens(r, c, d) /\ Len(r) \in 2..5
  <2>1. Opens(q \o y, c, d) /\ Len(q \o y) \in 2..(3 + 2)
    <3>1. 2 \in Nat /\ 3 \in Nat /\ 3 + 2 < 8
      OBVIOUS
    <3> QED
      BY <1>1, <3>1, OpensFurther, Zenon
  <2> QED
    BY <2>1
<1> HIDE DEF r
<1>3. Opens(r \o z, c, d)
  <2>1. 5 + 2 < 8
    OBVIOUS
  <2> QED
    BY <1>2, <2>1, OpensFurther
<1> QED
  BY <1>3 DEF q, r

(* The beginnings that are taken for a cut body.                           *)
LEMMA OrphansOf ==
  ASSUME NEW c \in Signs, NEW d \in Signs, NEW e \in Signs, NEW n \in Signs, NEW s \in Signs,
         d # c, e # c, n # c, s # c, e # d, n # d, s # d,
         NEW x \in {<<>>, <<n>>}, NEW y \in {<<>>, <<s>>, <<s, n>>}, NEW z \in {<<>>, <<s>>, <<s, n>>}
  PROVE  Opens(<<d, e>> \o x \o y \o z, c, d)
<1> DEFINE p == <<d, e>>
<1>1. Opens(p, c, d) /\ Len(p) = 2
  <2>1. p \in Stream
    BY LedTuples DEF Stream
  <2> QED
    BY <2>1 DEF Opens, Led
<1>2. Part(x, c, d, 1) /\ Part(y, c, d, 2) /\ Part(z, c, d, 2)
  <2>1. /\ Plain(<<>>, c, d) /\ Plain(<<n>>, c, d) /\ Plain(<<s>>, c, d) /\ Plain(<<s, n>>, c, d)
        /\ Len(<<>>) = 0 /\ Len(<<n>>) = 1 /\ Len(<<s>>) = 1 /\ Len(<<s, n>>) = 2
    BY PlainParts
  <2> QED
    BY <2>1 DEF Part
<1> HIDE DEF p
<1>3. Opens(p \o x \o y \o z, c, d)
  <2>1. Len(p) \in 2..2
    BY <1>1
  <2> QED
    BY <1>1, <1>2, <2>1, OpensThrice
<1> QED
  BY <1>3 DEF p

(* Their form.                                                             *)
Joined(u, A, B, C) == {u \o a \o b \o c : a \in A, b \in B, c \in C}

(* What they are joined of.                                                *)
LEMMA PartsOfJoined ==
  ASSUME NEW A, NEW B, NEW C, NEW u, NEW p, p \in Joined(u, A, B, C)
  PROVE  \E a \in A, b \in B, c \in C : p = u \o a \o b \o c
BY DEF Joined

(* They have this form.                                                    *)
LEMMA OrphansJoined ==
  IncompleteOrphanBody =
    Joined(<<"[", "<">>, {<<>>, <<"n">>}, {<<>>, <<";">>, <<";", "n">>}, {<<>>, <<";">>, <<";", "n">>})
BY SMT DEF IncompleteOrphanBody, Joined

(* They are beginnings of a body,                                          *)
AllOpen(set, c, d) == \A p \in set : Opens(p, c, d)

(* whatever their characters are,                                          *)
LEMMA JoinedOpen ==
  \A c, d, e, n, s \in Signs :
    d # c /\ e # c /\ n # c /\ s # c /\ e # d /\ n # d /\ s # d =>
      AllOpen(Joined(<<d, e>>, {<<>>, <<n>>}, {<<>>, <<s>>, <<s, n>>}, {<<>>, <<s>>, <<s, n>>}), c, d)
<1> SUFFICES ASSUME NEW c \in Signs, NEW d \in Signs, NEW e \in Signs, NEW n \in Signs,
                    NEW s \in Signs,
                    d # c, e # c, n # c, s # c, e # d, n # d, s # d,
                    NEW p \in Joined(<<d, e>>, {<<>>, <<n>>}, {<<>>, <<s>>, <<s, n>>},
                                     {<<>>, <<s>>, <<s, n>>})
             PROVE  Opens(p, c, d)
  BY DEF AllOpen
<1> DEFINE A == {<<>>, <<n>>}  B == {<<>>, <<s>>, <<s, n>>}  u == <<d, e>>
<1>1. p \in Joined(u, A, B, B)
  OBVIOUS
<1> HIDE DEF A, B, u
<1>2. PICK x \in A, y \in B, z \in B : p = u \o x \o y \o z
  BY <1>1, PartsOfJoined
<1>3. Opens(<<d, e>> \o x \o y \o z, c, d)
  BY OrphansOf DEF A, B
<1> QED
  BY <1>2, <1>3 DEF u

(* as the cut bodies are.                                                  *)
LEMMA OrphansOpen == AllOpen(IncompleteOrphanBody, "E", "[")
BY LettersAre, JoinedOpen, OrphansJoined, Zenon

(* The ends that match.                                                    *)
LEMMA EndsAre ==
  ASSUME NEW s, NEW patterns
  PROVE  \A p : p \in EndOf(s, patterns) <=> p \in patterns /\ Ended(s, p)
BY DEF EndOf, Ended

(* There is a longest one.                                                 *)
LEMMA LongestIs ==
  ASSUME NEW set, set # {}, \A p \in set : Len(p) \in 2..8
  PROVE  Longest(set) \in set
<1> DEFINE lengths == {Len(p) : p \in set}
<1>1. lengths \in SUBSET (1..8) /\ lengths # {} /\ 8 \in Nat
  <2>1. \A p \in set : Len(p) \in 1..8
    OBVIOUS
  <2> QED
    BY <2>1
<1> HIDE DEF lengths
<1>2. PICK n \in lengths : \A m \in lengths : m <= n
  BY <1>1, GreatestExists
<1>3. PICK p \in set : Len(p) = n
  BY <1>2 DEF lengths
<1>4. \A q \in set : Len(q) <= Len(p)
  BY <1>2, <1>3 DEF lengths
<1> QED
  BY <1>4 DEF Longest

(* A part of a sequence, with m characters behind the first n ones.        *)
PartAt(a, t, n, m) ==
  a \in Stream /\ Len(a) = m /\ n + m <= Len(t) /\ \A i \in 1..m : a[i] = t[n + i]

(* Parts of a text that are joined are a part of it.                       *)
LEMMA PartsJoin ==
  ASSUME NEW t \in Stream, NEW v, NEW a, NEW n \in Nat, NEW m \in Nat,
         PartAt(v, t, 0, n), PartAt(a, t, n, m)
  PROVE  PartAt(v \o a, t, 0, n + m) /\ (n + m = Len(t) => v \o a = t)
<1> DEFINE w == v \o a
<1>1. /\ v \in Stream /\ Len(v) = n /\ n <= Len(t) /\ (\A i \in 1..n : v[i] = t[0 + i])
      /\ a \in Stream /\ Len(a) = m /\ n + m <= Len(t) /\ (\A i \in 1..m : a[i] = t[n + i])
  <2>1. 0 + n = n
    OBVIOUS
  <2> QED
    BY <2>1 DEF PartAt
<1>2. v \in Seq(Signs) /\ a \in Seq(Signs) /\ t \in Seq(Signs)
  BY <1>1 DEF Stream
<1>3. /\ w \in Seq(Signs) /\ Len(w) = Len(v) + Len(a)
      /\ \A i \in 1..Len(v) : w[i] = v[i]
      /\ \A i \in 1..Len(a) : w[Len(v) + i] = a[i]
  BY <1>2, JoinedPlaces
<1> HIDE DEF w
<1>4. /\ Len(w) = n + m /\ \A i \in 1..n : w[i] = v[i]
      /\ \A i \in 1..m : w[n + i] = a[i]
  BY <1>1, <1>3
<1>5. \A i \in 1..n : v[i] = t[i]
  <2>1. \A i \in 1..n : 0 + i = i
    OBVIOUS
  <2> QED
    BY <1>1, <2>1
<1>6. ASSUME NEW i \in 1..(n + m) PROVE w[i] = t[i]
  <2>1. CASE i \in 1..n
    BY <1>4, <1>5, <2>1
  <2>2. CASE i \notin 1..n
    <3>1. i - n \in 1..m /\ i = n + (i - n)
      BY <2>2
    <3> QED
      <4>1. w[n + (i - n)] = a[i - n]
        BY <1>4, <3>1, Zenon
      <4>2. t[n + (i - n)] = a[i - n]
        BY <1>1, <3>1, Zenon
      <4> QED
        BY <3>1, <4>1, <4>2, Zenon
  <2> QED
    BY <2>1, <2>2
<1>7. PartAt(w, t, 0, n + m)
  <2>1. \A i \in 1..(n + m) : w[i] = t[0 + i]
    <3>1. \A i \in 1..(n + m) : 0 + i = i
      OBVIOUS
    <3> QED
      BY <1>6, <3>1
  <2>2. 0 + (n + m) <= Len(t)
    BY <1>1
  <2> QED
    BY <1>3, <1>4, <2>1, <2>2 DEF PartAt, Stream
<1>8. ASSUME n + m = Len(t) PROVE w = t
  <2>1. Len(w) = Len(t) /\ \A i \in 1..Len(w) : w[i] = t[i]
    BY <1>4, <1>6, <1>8
  <2> QED
    BY <1>2, <1>3, <2>1, SeqEqual
<1> QED
  BY <1>7, <1>8 DEF w

(* What is spelled like the beginning of a body has the form of one.       *)
LEMMA JoinedHas ==
  ASSUME NEW d \in Signs, NEW e \in Signs, NEW n \in Signs, NEW s \in Signs,
         NEW t \in Stream, Len(t) \in 2..7, t[1] = d, t[2] = e,
         Len(t) > 2 => t[3] = n, Len(t) > 3 => t[4] = s, Len(t) > 4 => t[5] = n,
         Len(t) > 5 => t[6] = s, Len(t) > 6 => t[7] = n
  PROVE  t \in Joined(<<d, e>>, {<<>>, <<n>>}, {<<>>, <<s>>, <<s, n>>}, {<<>>, <<s>>, <<s, n>>})
<1> DEFINE x == IF Len(t) > 2 THEN <<n>> ELSE <<>>
           y == IF Len(t) > 4 THEN <<s, n>> ELSE IF Len(t) > 3 THEN <<s>> ELSE <<>>
           z == IF Len(t) > 6 THEN <<s, n>> ELSE IF Len(t) > 5 THEN <<s>> ELSE <<>>
           lx == IF Len(t) > 2 THEN 1 ELSE 0
           ly == IF Len(t) > 4 THEN 2 ELSE IF Len(t) > 3 THEN 1 ELSE 0
           lz == IF Len(t) > 6 THEN 2 ELSE IF Len(t) > 5 THEN 1 ELSE 0
           p == <<d, e>>
<1>1. /\ p \in Stream /\ <<n>> \in Stream /\ <<s>> \in Stream /\ <<s, n>> \in Stream /\ <<>> \in Stream
      /\ Len(p) = 2 /\ p[1] = d /\ p[2] = e
  BY LedTuples, SequenceTypes DEF Stream
<1>2. PartAt(p, t, 0, 2)
  <2>1. \A i \in 1..2 : p[i] = t[0 + i]
    OBVIOUS
  <2> HIDE DEF p
  <2>2. 0 + 2 <= Len(t)
    OBVIOUS
  <2> QED
    BY <1>1, <2>1, <2>2 DEF PartAt
<1>3. PartAt(x, t, 2, lx)
  <2>1. CASE Len(t) > 2
    <3>1. \A i \in 1..1 : <<n>>[i] = t[2 + i]
      BY <2>1
    <3> QED
      BY <1>1, <2>1, <3>1 DEF PartAt
  <2>2. CASE ~(Len(t) > 2)
    BY <1>1, <2>2 DEF PartAt
  <2> QED
    BY <2>1, <2>2
<1>4. PartAt(y, t, 2 + lx, ly)
  <2>1. CASE Len(t) > 4
    <3>1. \A i \in 1..2 : <<s, n>>[i] = t[3 + i]
      BY <2>1
    <3> QED
      BY <1>1, <2>1, <3>1 DEF PartAt
  <2>2. CASE Len(t) = 4
    <3>1. \A i \in 1..1 : <<s>>[i] = t[3 + i]
      BY <2>2
    <3> QED
      BY <1>1, <2>2, <3>1 DEF PartAt
  <2>3. CASE Len(t) < 4
    BY <1>1, <2>3 DEF PartAt
  <2>5. \A l \in 2..7 : l > 4 \/ l = 4 \/ l < 4
    OBVIOUS
  <2>4. Len(t) > 4 \/ Len(t) = 4 \/ Len(t) < 4
    BY <2>5, Zenon
  <2> HIDE DEF y, lx, ly
  <2> QED
    BY <2>1, <2>2, <2>3, <2>4
<1>5. PartAt(z, t, (2 + lx) + ly, lz)
  <2>1. CASE Len(t) > 6
    <3>1. \A i \in 1..2 : <<s, n>>[i] = t[5 + i]
      BY <2>1
    <3> QED
      BY <1>1, <2>1, <3>1 DEF PartAt
  <2>2. CASE Len(t) = 6
    <3>1. \A i \in 1..1 : <<s>>[i] = t[5 + i]
      BY <2>2
    <3> QED
      BY <1>1, <2>2, <3>1 DEF PartAt
  <2>3. CASE Len(t) < 6
    BY <1>1, <2>3 DEF PartAt
  <2>5. \A l \in 2..7 : l > 6 \/ l = 6 \/ l < 6
    OBVIOUS
  <2>4. Len(t) > 6 \/ Len(t) = 6 \/ Len(t) < 6
    BY <2>5, Zenon
  <2> HIDE DEF z, lx, ly, lz
  <2> QED
    BY <2>1, <2>2, <2>3, <2>4
<1>6. /\ x \in {<<>>, <<n>>} /\ y \in {<<>>, <<s>>, <<s, n>>} /\ z \in {<<>>, <<s>>, <<s, n>>}
      /\ lx \in Nat /\ ly \in Nat /\ lz \in Nat /\ ((2 + lx) + ly) + lz = Len(t)
  <2>1. x \in {<<>>, <<n>>} /\ y \in {<<>>, <<s>>, <<s, n>>} /\ z \in {<<>>, <<s>>, <<s, n>>}
    BY Zenon
  <2>2. lx \in Nat /\ ly \in Nat /\ lz \in Nat
    OBVIOUS
  <2>3. ((2 + lx) + ly) + lz = Len(t)
    <3>1. \A m \in 2..7 :
            ((2 + (IF m > 2 THEN 1 ELSE 0)) + (IF m > 4 THEN 2 ELSE IF m > 3 THEN 1 ELSE 0))
              + (IF m > 6 THEN 2 ELSE IF m > 5 THEN 1 ELSE 0) = m
      OBVIOUS
    <3> QED
      BY <3>1, Zenon DEF lx, ly, lz
  <2> QED
    BY <2>1, <2>2, <2>3
<1> DEFINE A == {<<>>, <<n>>}  B == {<<>>, <<s>>, <<s, n>>}
<1>7. x \in A /\ y \in B /\ z \in B
  BY <1>6
<1> HIDE DEF x, y, z, lx, ly, lz, p, A, B
<1>8. PartAt(p \o x, t, 0, 2 + lx) /\ 2 + lx \in Nat
  <2>1. 2 \in Nat /\ 2 + lx \in Nat
    BY <1>6
  <2> QED
    BY <1>2, <1>3, <1>6, <2>1, PartsJoin, Zenon
<1>9. PartAt((p \o x) \o y, t, 0, (2 + lx) + ly) /\ (2 + lx) + ly \in Nat
  <2>1. (2 + lx) + ly \in Nat
    BY <1>6
  <2> QED
    BY <1>4, <1>6, <1>8, <2>1, PartsJoin, Zenon
<1>10. ((p \o x) \o y) \o z = t
  BY <1>5, <1>6, <1>9, PartsJoin, Zenon
<1>11. t \in Joined(p, A, B, B)
  BY <1>7, <1>10, SMTT(60) DEF Joined
<1> QED
  BY <1>11 DEF p, A, B

(* What begins like a body, has two characters and is not whole is held    *)
(* back.                                                                   *)
LEMMA OrphanIs ==
  ASSUME NEW t \in Stream, Len(t) \in 2..7, \A k \in 1..Len(t) : t[k] = Body[k]
  PROVE  t \in IncompleteOrphanBody
<1>1. /\ t[1] = Body[1] /\ t[2] = Body[2] /\ (Len(t) > 2 => t[3] = Body[3])
      /\ (Len(t) > 3 => t[4] = Body[4]) /\ (Len(t) > 4 => t[5] = Body[5])
      /\ (Len(t) > 5 => t[6] = Body[6]) /\ (Len(t) > 6 => t[7] = Body[7])
  OBVIOUS
<1> DEFINE d == Body[1]  e == Body[2]  n == Body[3]  s == Body[4]
<1>2. d \in Signs /\ e \in Signs /\ n \in Signs /\ s \in Signs
  BY BodyPlaces, LettersAre, Zenon DEF d, e, n, s
<1>3. Body[5] = n /\ Body[6] = s /\ Body[7] = n
  BY BodyPlaces, Zenon DEF n, s
<1>4. /\ t[1] = d /\ t[2] = e /\ (Len(t) > 2 => t[3] = n) /\ (Len(t) > 3 => t[4] = s)
      /\ (Len(t) > 4 => t[5] = n) /\ (Len(t) > 5 => t[6] = s) /\ (Len(t) > 6 => t[7] = n)
  BY <1>1, <1>3, Zenon DEF d, e, n, s
<1> HIDE DEF d, e, n, s
<1>5. t \in Joined(<<d, e>>, {<<>>, <<n>>}, {<<>>, <<s>>, <<s, n>>}, {<<>>, <<s>>, <<s, n>>})
  BY <1>2, <1>4, JoinedHas
<1>6. d = "[" /\ e = "<" /\ n = "n" /\ s = ";"
  BY BodyPlaces, Zenon DEF d, e, n, s
<1> QED
  BY <1>5, <1>6, OrphansJoined, Zenon

(* A sequence has characters in the order of a mouse sequence.             *)
Spelled(t, c, d, e, n, s) ==
  /\ t[1] = c /\ t[2] = d /\ (Len(t) > 2 => t[3] = e) /\ (Len(t) > 3 => t[4] = n)
  /\ (Len(t) > 4 => t[5] = s) /\ (Len(t) > 5 => t[6] = n) /\ (Len(t) > 6 => t[7] = s)
  /\ (Len(t) > 7 => t[8] = n)

(* What is spelled so is what is written out.                              *)
LEMMA TupleIs ==
  ASSUME NEW c, NEW d, NEW e, NEW n, NEW s, NEW t \in Stream, Spelled(t, c, d, e, n, s)
  PROVE  /\ Len(t) = 2 => t = <<c, d>>
         /\ Len(t) = 3 => t = <<c, d, e>>
         /\ Len(t) = 5 => t = <<c, d, e, n, s>>
         /\ Len(t) = 7 => t = <<c, d, e, n, s, n, s>>
         /\ Len(t) = 8 => t = <<c, d, e, n, s, n, s, n>>
<1>1. t \in Seq(Signs)
  BY DEF Stream
<1>2. ASSUME Len(t) = 2 PROVE t = <<c, d>>
  BY <1>1, <1>2 DEF Spelled
<1>3. ASSUME Len(t) = 3 PROVE t = <<c, d, e>>
  BY <1>1, <1>3 DEF Spelled
<1>4. ASSUME Len(t) = 5 PROVE t = <<c, d, e, n, s>>
  BY <1>1, <1>4 DEF Spelled
<1>5. ASSUME Len(t) = 7 PROVE t = <<c, d, e, n, s, n, s>>
  BY <1>1, <1>5 DEF Spelled
<1>6. ASSUME Len(t) = 8 PROVE t = <<c, d, e, n, s, n, s, n>>
  BY <1>1, <1>6 DEF Spelled
<1> QED
  BY <1>2, <1>3, <1>4, <1>5, <1>6

(* The lengths at which a cut sequence is known for one.                   *)
Lengths == {2, 3, 5, 7, 8}

(* The beginning of a sequence of such a length is known,                  *)
LEMMA PrefixIs ==
  ASSUME NEW t \in Stream, Len(t) \in Lengths, \A k \in 1..Len(t) : t[k] = SgrMouse[k]
  PROVE  t \in IncompleteMousePrefix
<1> DEFINE c == SgrMouse[1]  d == SgrMouse[2]  e == SgrMouse[3]  n == SgrMouse[4]  s == SgrMouse[5]
<1>1. /\ t[1] = SgrMouse[1] /\ t[2] = SgrMouse[2] /\ (Len(t) > 2 => t[3] = SgrMouse[3])
      /\ (Len(t) > 3 => t[4] = SgrMouse[4]) /\ (Len(t) > 4 => t[5] = SgrMouse[5])
      /\ (Len(t) > 5 => t[6] = SgrMouse[6]) /\ (Len(t) > 6 => t[7] = SgrMouse[7])
      /\ (Len(t) > 7 => t[8] = SgrMouse[8])
  BY DEF Lengths
<1>2. \A k \in 1..8 : SgrMouse[k + 1] = Body[k]
  BY SequenceTypes
<1>3. /\ SgrMouse[2] = Body[1] /\ SgrMouse[3] = Body[2] /\ SgrMouse[4] = Body[3]
      /\ SgrMouse[5] = Body[4] /\ SgrMouse[6] = Body[5] /\ SgrMouse[7] = Body[6]
      /\ SgrMouse[8] = Body[7]
  <2>1. /\ SgrMouse[1 + 1] = Body[1] /\ SgrMouse[2 + 1] = Body[2] /\ SgrMouse[3 + 1] = Body[3]
        /\ SgrMouse[4 + 1] = Body[4] /\ SgrMouse[5 + 1] = Body[5] /\ SgrMouse[6 + 1] = Body[6]
        /\ SgrMouse[7 + 1] = Body[7]
    BY <1>2
  <2> QED
    BY <2>1
<1>4. c = "E" /\ d = "[" /\ e = "<" /\ n = "n" /\ s = ";"
  BY <1>3, BodyPlaces, SequenceTypes, Zenon DEF c, d, e, n, s
<1>5. SgrMouse[6] = n /\ SgrMouse[7] = s /\ SgrMouse[8] = n
  BY <1>3, BodyPlaces, Zenon DEF n, s
<1>6. Spelled(t, c, d, e, n, s)
  BY <1>1, <1>5, Zenon DEF c, d, e, n, s, Spelled
<1> HIDE DEF c, d, e, n, s
<1>7. /\ Len(t) = 2 => t = <<c, d>>
      /\ Len(t) = 3 => t = <<c, d, e>>
      /\ Len(t) = 5 => t = <<c, d, e, n, s>>
      /\ Len(t) = 7 => t = <<c, d, e, n, s, n, s>>
      /\ Len(t) = 8 => t = <<c, d, e, n, s, n, s, n>>
  BY <1>6, TupleIs, Zenon
<1>8. t \in {<<c, d>>, <<c, d, e>>, <<c, d, e, n, s>>, <<c, d, e, n, s, n, s>>,
             <<c, d, e, n, s, n, s, n>>}
  <2>1. Len(t) = 2 \/ Len(t) = 3 \/ Len(t) = 5 \/ Len(t) = 7 \/ Len(t) = 8
    BY Zenon DEF Lengths
  <2> QED
    BY <1>7, <2>1, Zenon
<1> QED
  BY <1>4, <1>8, Zenon DEF IncompleteMousePrefix

(* and no other is.                                                        *)
LEMMA PrefixLengths == \A p \in IncompleteMousePrefix : Len(p) \in Lengths
<1>1. \A c, d, e, n, s :
        /\ Len(<<c, d>>) = 2 /\ Len(<<c, d, e>>) = 3 /\ Len(<<c, d, e, n, s>>) = 5
        /\ Len(<<c, d, e, n, s, n, s>>) = 7 /\ Len(<<c, d, e, n, s, n, s, n>>) = 8
  OBVIOUS
<1>2. /\ Len(<<"E", "[">>) = 2 /\ Len(<<"E", "[", "<">>) = 3
      /\ Len(<<"E", "[", "<", "n", ";">>) = 5
      /\ Len(<<"E", "[", "<", "n", ";", "n", ";">>) = 7
      /\ Len(<<"E", "[", "<", "n", ";", "n", ";", "n">>) = 8
  BY <1>1, Zenon
<1> QED
  BY <1>2, Zenon DEF IncompleteMousePrefix, Lengths

(* A sequence ends with only one part that starts with a character it has  *)
(* once.                                                                   *)
LEMMA OneEnd ==
  ASSUME NEW l \in Stream, NEW t \in Stream, NEW p \in Stream, NEW c, Ended(l \o t, p),
         Len(p) > 0, Len(t) > 0, p[1] = c, t[1] = c,
         \A k \in 2..Len(p) : p[k] # c, \A k \in 2..Len(t) : t[k] # c
  PROVE  p = t
<1> DEFINE s == l \o t
<1>1. t \in Seq(Signs) /\ l \in Seq(Signs) /\ p \in Seq(Signs)
  BY DEF Stream
<1>2. /\ s \in Seq(Signs) /\ Len(s) = Len(l) + Len(t)
      /\ Len(l) \in Nat /\ Len(t) \in Nat /\ \A k \in 1..Len(t) : s[Len(l) + k] = t[k]
  BY <1>1, JoinedPlaces
<1>3. Len(p) <= Len(s) /\ SubSeq(s, Len(s) - Len(p) + 1, Len(s)) = p /\ Len(p) \in Nat
  BY <1>1 DEF Ended
<1> HIDE DEF s
<1> DEFINE at == Len(s) - Len(p)
<1>4. at \in 0..Len(s) /\ Len(s) - at = Len(p) /\ at + 1 = Len(s) - Len(p) + 1
  BY <1>2, <1>3
<1>5. \A k \in 1..Len(p) : p[k] = s[at + k]
  <2>1. \A k \in 1..(Len(s) - at) : SubSeq(s, at + 1, Len(s))[k] = s[at + k]
    <3> HIDE DEF at
    <3> QED
      BY <1>2, <1>4, CutAt
  <2>2. SubSeq(s, at + 1, Len(s)) = p
    BY <1>3
  <2> HIDE DEF at
  <2> QED
    BY <1>4, <2>1, <2>2
<1>6. ~(Len(p) < Len(t))
  <2> SUFFICES ASSUME Len(p) < Len(t) PROVE FALSE
    OBVIOUS
  <2> DEFINE k == Len(t) - Len(p) + 1
  <2>1. k \in 2..Len(t) /\ k \in 1..Len(t) /\ Len(l) + k = at + 1 /\ 1 \in 1..Len(p)
    BY <1>2, <1>3
  <2> HIDE DEF k, at
  <2>2. p[1] = s[at + 1] /\ s[Len(l) + k] = t[k] /\ t[k] # c
    BY <1>2, <1>5, <2>1
  <2> QED
    BY <2>1, <2>2
<1>7. ~(Len(t) < Len(p))
  <2> SUFFICES ASSUME Len(t) < Len(p) PROVE FALSE
    OBVIOUS
  <2> DEFINE k == Len(p) - Len(t) + 1
  <2>1. k \in 2..Len(p) /\ k \in 1..Len(p) /\ Len(l) + 1 = at + k /\ 1 \in 1..Len(t)
    BY <1>2, <1>3
  <2> HIDE DEF k, at
  <2>2. p[k] = s[at + k] /\ s[Len(l) + 1] = t[1] /\ p[k] # c
    BY <1>2, <1>5, <2>1
  <2> QED
    BY <2>1, <2>2
<1>8. Len(p) = Len(t) /\ at = Len(l)
  <2>1. Len(p) \in Nat /\ Len(t) \in Nat /\ Len(l) \in Nat /\ Len(s) = Len(l) + Len(t)
    BY <1>2, <1>3
  <2>2. Len(p) = Len(t)
    BY <1>6, <1>7, <2>1
  <2> QED
    BY <2>1, <2>2
<1>9. \A k \in 1..Len(p) : p[k] = t[k]
  <2> HIDE DEF at
  <2> QED
    BY <1>2, <1>5, <1>8
<1> QED
  BY <1>1, <1>8, <1>9, SeqEqual

(* What a stream ends in can be taken off it.                              *)
LEMMA EndedAt ==
  ASSUME NEW s \in Stream, NEW p \in Stream, Ended(s, p)
  PROVE  /\ Len(p) <= Len(s) /\ Len(p) \in Nat /\ Len(s) \in Nat
         /\ \A k \in 1..Len(p) : p[k] = s[Len(s) - Len(p) + k]
         /\ SubSeq(s, 1, Len(s) - Len(p)) \in Stream
         /\ s = SubSeq(s, 1, Len(s) - Len(p)) \o p
<1>1. s \in Seq(Signs) /\ p \in Seq(Signs) /\ Len(p) \in Nat /\ Len(s) \in Nat
  BY DEF Stream
<1>2. Len(p) <= Len(s) /\ SubSeq(s, Len(s) - Len(p) + 1, Len(s)) = p
  BY DEF Ended
<1> DEFINE at == Len(s) - Len(p)
<1>3. at \in 0..Len(s) /\ Len(s) - at = Len(p)
  BY <1>1, <1>2
<1>4. SubSeq(s, at + 1, Len(s)) = p
  BY <1>2
<1> HIDE DEF at
<1>5. /\ SubSeq(s, 1, at) \in Seq(Signs) /\ s = SubSeq(s, 1, at) \o SubSeq(s, at + 1, Len(s))
      /\ \A k \in 1..(Len(s) - at) : SubSeq(s, at + 1, Len(s))[k] = s[at + k]
  BY <1>1, <1>3, CutAt
<1>6. \A k \in 1..Len(p) : p[k] = s[at + k]
  BY <1>3, <1>4, <1>5
<1> QED
  BY <1>1, <1>2, <1>4, <1>5, <1>6 DEF at, Stream

(* A stream that was joined ends in its second part.                       *)
LEMMA EndedWith ==
  ASSUME NEW l \in Stream, NEW t \in Stream
  PROVE  Ended(l \o t, t)
<1>1. l \in Seq(Signs) /\ t \in Seq(Signs)
  BY DEF Stream
<1>2. Len(l \o t) = Len(l) + Len(t) /\ Len(l) \in Nat /\ Len(t) \in Nat
  BY <1>1, JoinedPlaces
<1>3. SubSeq(l \o t, Len(l) + 1, Len(l \o t)) = t
  BY <1>1, PutTogether
<1>4. Len(l \o t) - Len(t) + 1 = Len(l) + 1 /\ Len(t) <= Len(l \o t)
  BY <1>2
<1> QED
  BY <1>3, <1>4 DEF Ended

(* What may be held back.                                                  *)
Holds == {p \in Stream : Len(p) < 9 /\ Mice(p) = {}}

(* The beginnings of a sequence may,                                       *)
LEMMA HoldTypes ==
  ASSUME NEW p \in IncompleteMousePrefix \cup IncompleteOrphanBody \cup {<<>>}
  PROVE  p \in Holds
<1>1. CASE p = <<>>
  <2>1. p \in Stream
    BY <1>1, SequenceTypes
  <2>2. Len(p) < 8 /\ Len(p) < 9
    BY <1>1
  <2> QED
    BY <2>1, <2>2, ShortFree DEF Holds
<1>2. CASE p \in IncompleteMousePrefix
  <2>1. Led(p, "E")
    BY <1>2, PrefixesLed
  <2>2. p \in Stream /\ Len(p) < 9 /\ p[1] = "E"
    BY <2>1 DEF Led
  <2>3. p[1] # "["
    BY <2>2
  <2> QED
    BY <2>2, <2>3, ShortFree DEF Holds
<1>3. CASE p \in IncompleteOrphanBody
  <2>1. Opens(p, "E", "[")
    BY <1>3, OrphansOpen DEF AllOpen
  <2>2. p \in Stream /\ Len(p) < 8
    BY <2>1 DEF Opens, Led
  <2>3. Len(p) < 9
    BY <2>2
  <2> QED
    BY <2>2, <2>3, ShortFree DEF Holds
<1> QED
  BY <1>1, <1>2, <1>3

(* and so may the beginnings of the old form.                              *)
LEMMA OldEnds ==
  ASSUME NEW s \in Stream, NEW p \in IncompleteOldMouse(s) \cup IncompleteOldBody(s)
  PROVE  Ended(s, p) /\ Len(p) \in 2..8 /\ p \in Holds
<1>1. Len(s) \in Nat /\ DOMAIN s = 1..Len(s) /\ s \in Seq(Signs) /\ \A j \in 1..Len(s) : s[j] \in Signs
  BY DEF Stream
<1>2. PICK i \in 1..Len(s) : p = Rest(s, i) /\ i + 1 <= Len(s) /\ Len(s) <= i + 4
  <2>1. ASSUME NEW j \in Occurrences(s, <<"E", "[", "M">>), Len(s) <= j + 4
        PROVE  j \in 1..Len(s) /\ j + 1 <= Len(s)
    <3>1. j \in 1..Len(s) /\ j + Len(<<"E", "[", "M">>) - 1 <= Len(s)
      BY <1>1, <2>1 DEF Occurrences, StartsWith
    <3> QED
      BY <1>1, <3>1, FormTypes
  <2>2. ASSUME NEW j \in Occurrences(s, <<"[", "M">>), Len(s) <= j + 3
        PROVE  j \in 1..Len(s) /\ j + 1 <= Len(s) /\ Len(s) <= j + 4
    <3>1. j \in 1..Len(s) /\ j + Len(<<"[", "M">>) - 1 <= Len(s)
      BY <1>1, <2>2 DEF Occurrences, StartsWith
    <3> QED
      BY <1>1, <2>2, <3>1, FormTypes
  <2>3. CASE p \in IncompleteOldMouse(s)
    <3>1. PICK j \in Occurrences(s, <<"E", "[", "M">>) : p = Rest(s, j) /\ Len(s) <= j + 4
      BY <2>3 DEF IncompleteOldMouse
    <3> QED
      BY <2>1, <3>1
  <2>4. CASE p \in IncompleteOldBody(s)
    <3>1. PICK j \in Occurrences(s, <<"[", "M">>) : p = Rest(s, j) /\ Len(s) <= j + 3
      BY <2>4 DEF IncompleteOldBody
    <3> QED
      BY <2>2, <3>1
  <2> QED
    BY <2>3, <2>4
<1>3. p \in Seq(Signs) /\ Len(p) = Len(s) - i + 1 /\ p = SubSeq(s, i, Len(s))
  <2>1. i \in Int /\ Len(s) \in Int /\ i <= Len(s) /\ \A j \in i..Len(s) : s[j] \in Signs
    BY <1>1
  <2>2. SubSeq(s, i, Len(s)) \in Seq(Signs) /\ Len(SubSeq(s, i, Len(s))) = Len(s) - i + 1
    BY <2>1, SubSeqProperties
  <2> QED
    BY <1>2, <2>2 DEF Rest
<1>4. Len(p) \in 2..5 /\ Len(p) <= Len(s) /\ Len(s) - Len(p) + 1 = i
  BY <1>1, <1>2, <1>3
<1>5. Ended(s, p)
  BY <1>3, <1>4 DEF Ended
<1>6. Len(p) \in 2..8 /\ Len(p) < 8 /\ Len(p) < 9
  <2>1. \A n \in 2..5 : n \in 2..8 /\ n < 8 /\ n < 9
    OBVIOUS
  <2> QED
    BY <1>4, <2>1, Zenon
<1>7. p \in Holds
  BY <1>3, <1>6, ShortFree DEF Holds, Stream
<1> QED
  BY <1>5, <1>6, <1>7

(* No end matches when none of the ends does.                              *)
LEMMA NoneEnds ==
  ASSUME NEW s, NEW patterns
  PROVE  EndOf(s, patterns) = {} <=> \A p \in patterns : ~Ended(s, p)
BY EndsAre

(* When one of them does, it is the longest.                               *)
LEMMA OneEnds ==
  ASSUME NEW s, NEW patterns, NEW t, t \in patterns, Ended(s, t), Len(t) \in 2..8,
         \A p \in patterns : Ended(s, p) => p = t
  PROVE  EndOf(s, patterns) # {} /\ Longest(EndOf(s, patterns)) = t
<1>1. EndOf(s, patterns) = {t}
  BY EndsAre
<1>2. Longest({t}) \in {t}
  BY LongestIs
<1> QED
  BY <1>1, <1>2

(* What is cut off is the end of the read,                                 *)
LEMMA CutIs ==
  ASSUME NEW s \in Stream
  PROVE  Cut(s) \in Holds /\ Ended(s, Cut(s))
<1>1. /\ \A p \in IncompleteMousePrefix : Len(p) \in 2..8
      /\ \A p \in IncompleteOrphanBody : Len(p) \in 2..8
  BY PrefixesLed, OrphansOpen DEF AllOpen, Opens, Led
<1>2. Ended(s, <<>>) /\ <<>> \in Holds
  <2>1. s \o <<>> = s /\ <<>> \in Stream
    BY StreamJoins, SequenceTypes
  <2> QED
    BY <2>1, EndedWith, HoldTypes
<1>3. ASSUME NEW patterns, EndOf(s, patterns) # {}, \A p \in patterns : Len(p) \in 2..8 /\ p \in Holds
      PROVE  Longest(EndOf(s, patterns)) \in Holds /\ Ended(s, Longest(EndOf(s, patterns)))
  <2> DEFINE ends == EndOf(s, patterns)
  <2>1. \A p : p \in ends <=> p \in patterns /\ Ended(s, p)
    BY EndsAre
  <2>2. ends # {} /\ \A p \in ends : Len(p) \in 2..8
    BY <1>3, <2>1
  <2> HIDE DEF ends
  <2>3. Longest(ends) \in ends
    BY <2>2, LongestIs
  <2> QED
    BY <1>3, <2>1, <2>3 DEF ends
<1>4. ASSUME NEW ends, ends # {}, \A p \in ends : Ended(s, p) /\ Len(p) \in 2..8 /\ p \in Holds
      PROVE  Longest(ends) \in Holds /\ Ended(s, Longest(ends))
  BY <1>4, LongestIs
<1>5. CASE EndOf(s, IncompleteMousePrefix) # {}
  BY <1>1, <1>3, <1>5, HoldTypes DEF Cut
<1>6. CASE EndOf(s, IncompleteMousePrefix) = {} /\ EndOf(s, IncompleteOrphanBody) # {}
  BY <1>1, <1>3, <1>6, HoldTypes DEF Cut
<1>7. CASE /\ EndOf(s, IncompleteMousePrefix) = {} /\ EndOf(s, IncompleteOrphanBody) = {}
           /\ IncompleteOldMouse(s) # {}
  BY <1>4, <1>7, OldEnds DEF Cut
<1>8. CASE /\ EndOf(s, IncompleteMousePrefix) = {} /\ EndOf(s, IncompleteOrphanBody) = {}
           /\ IncompleteOldMouse(s) = {} /\ IncompleteOldBody(s) # {}
  BY <1>4, <1>8, OldEnds DEF Cut
<1>9. CASE /\ EndOf(s, IncompleteMousePrefix) = {} /\ EndOf(s, IncompleteOrphanBody) = {}
           /\ IncompleteOldMouse(s) = {} /\ IncompleteOldBody(s) = {}
  BY <1>2, <1>9 DEF Cut
<1> QED
  BY <1>5, <1>6, <1>7, <1>8, <1>9

(* and the rest is what is handed on.                                      *)
LEMMA CutParts ==
  ASSUME NEW s \in Stream, NEW rest, rest = SubSeq(s, 1, Len(s) - Len(Cut(s)))
  PROVE  /\ rest \in Stream /\ Cut(s) \in Stream /\ s = rest \o Cut(s) /\ Mice(Cut(s)) = {}
<1>1. Cut(s) \in Holds /\ Ended(s, Cut(s))
  BY CutIs
<1>2. Cut(s) \in Stream /\ Mice(Cut(s)) = {}
  BY <1>1 DEF Holds
<1> QED
  BY <1>1, <1>2, EndedAt

(* A sequence is spelled like its body.                                    *)
LEMMA MouseSpelled ==
  /\ \A k \in 2..9 : SgrMouse[k] = Body[k - 1]
  /\ \A k \in 2..9 : SgrMouse[k] # "E"
<1>1. \A k \in 2..9 : SgrMouse[k] = Body[k - 1]
  <2>1. \A k \in 1..8 : SgrMouse[k + 1] = Body[k]
    BY SequenceTypes
  <2>2. \A k \in 2..9 : k - 1 \in 1..8 /\ (k - 1) + 1 = k
    OBVIOUS
  <2> QED
    BY <2>1, <2>2
<1>2. \A k \in 2..9 : k - 1 \in 1..8
  OBVIOUS
<1> QED
  BY <1>1, <1>2, BodyIs

(* Nothing is held back of what ends with an escape character.             *)
LEMMA CutEscape ==
  ASSUME NEW s \in Stream, Len(s) > 0, s[Len(s)] = "E"
  PROVE  Cut(s) = <<>>
<1>1. ASSUME NEW p \in Stream, Len(p) > 1, Ended(s, p) PROVE p[Len(p)] = "E"
  <2>1. /\ Len(p) <= Len(s) /\ Len(p) \in Nat /\ Len(s) \in Nat
        /\ \A k \in 1..Len(p) : p[k] = s[Len(s) - Len(p) + k]
    BY <1>1, EndedAt
  <2>2. Len(p) \in 1..Len(p) /\ Len(s) - Len(p) + Len(p) = Len(s)
    BY <1>1, <2>1
  <2>3. p[Len(p)] = s[Len(s) - Len(p) + Len(p)]
    BY <2>1, <2>2
  <2> QED
    BY <2>2, <2>3
<1>2. \A p \in IncompleteMousePrefix : p \in Stream /\ Len(p) > 1 /\ p[Len(p)] # "E"
  <2> SUFFICES ASSUME NEW p \in IncompleteMousePrefix PROVE p \in Stream /\ Len(p) > 1 /\ p[Len(p)] # "E"
    OBVIOUS
  <2>1. p \in Stream /\ Len(p) \in 2..8 /\ \A k \in 2..Len(p) : p[k] # "E"
    BY PrefixesLed DEF Led
  <2>2. Len(p) \in 2..Len(p) /\ Len(p) > 1
    <3>1. \A n \in 2..8 : n \in 2..n /\ n > 1
      OBVIOUS
    <3> QED
      BY <2>1, <3>1, Zenon
  <2> QED
    BY <2>1, <2>2
<1>3. ASSUME NEW p, Opens(p, "E", "[") PROVE p \in Stream /\ Len(p) > 1 /\ p[Len(p)] # "E"
  <2>1. p \in Stream /\ Len(p) \in 2..8 /\ \A k \in 2..Len(p) : p[k] # "E"
    BY <1>3 DEF Opens, Led
  <2>2. Len(p) \in 2..Len(p) /\ Len(p) > 1
    <3>1. \A n \in 2..8 : n \in 2..n /\ n > 1
      OBVIOUS
    <3> QED
      BY <2>1, <3>1, Zenon
  <2> QED
    BY <2>1, <2>2
<1>4. EndOf(s, IncompleteMousePrefix) = {} /\ EndOf(s, IncompleteOrphanBody) = {}
  BY <1>1, <1>2, <1>3, NoneEnds, OrphansOpen DEF AllOpen
<1>5. Len(s) \in Nat
  BY DEF Stream
<1>6. IncompleteOldMouse(s) = {}
  <2> SUFFICES ASSUME NEW i \in Occurrences(s, <<"E", "[", "M">>), Len(s) <= i + 4,
                      \A k \in (i + 3)..Len(s) : s[k] # "E"
               PROVE  FALSE
    BY DEF IncompleteOldMouse
  <2> DEFINE q == <<"E", "[", "M">>
  <2>0. q \in Stream /\ Len(q) = 3 /\ Len(q) > 0 /\ q[3] = "M" /\ 3 \in 1..3
    BY FormTypes
  <2>1. i \in Occurrences(s, q)
    OBVIOUS
  <2> HIDE DEF q
  <2>2. i \in 1..Len(s) /\ i + 3 - 1 <= Len(s) /\ s[i + 3 - 1] = "M"
    <3>1. StandsAt(s, i, q)
      BY <2>0, <2>1, OccursAt
    <3> QED
      BY <2>0, <3>1, Zenon DEF StandsAt
  <2>3. i + 3 - 1 = Len(s) \/ Len(s) \in (i + 3)..Len(s)
    BY <1>5, <2>2
  <2> QED
    BY <2>2, <2>3
<1>7. IncompleteOldBody(s) = {}
  <2> SUFFICES ASSUME NEW i \in Occurrences(s, <<"[", "M">>), Len(s) <= i + 3,
                      \A k \in (i + 2)..Len(s) : s[k] # "E"
               PROVE  FALSE
    BY DEF IncompleteOldBody
  <2> DEFINE q == <<"[", "M">>
  <2>0. q \in Stream /\ Len(q) = 2 /\ Len(q) > 0 /\ q[2] = "M" /\ 2 \in 1..2
    BY FormTypes
  <2>1. i \in Occurrences(s, q)
    OBVIOUS
  <2> HIDE DEF q
  <2>2. i \in 1..Len(s) /\ i + 2 - 1 <= Len(s) /\ s[i + 2 - 1] = "M"
    <3>1. StandsAt(s, i, q)
      BY <2>0, <2>1, OccursAt
    <3> QED
      BY <2>0, <3>1, Zenon DEF StandsAt
  <2>3. i + 2 - 1 = Len(s) \/ Len(s) \in (i + 2)..Len(s)
    BY <1>5, <2>2
  <2> QED
    BY <2>2, <2>3
<1> QED
  BY <1>4, <1>6, <1>7 DEF Cut

(* A beginning of a body is held back whole.                               *)
LEMMA CutOrphan ==
  ASSUME NEW l \in Stream, NEW t \in Stream, Len(t) \in 2..7, \A k \in 1..Len(t) : t[k] = Body[k],
         EndOf(l \o t, IncompleteMousePrefix) = {}
  PROVE  Cut(l \o t) = t
<1> DEFINE s == l \o t
<1>1. t \in IncompleteOrphanBody
  BY OrphanIs
<1>2. Ended(s, t)
  BY EndedWith
<1>3. t[1] = "[" /\ \A k \in 2..Len(t) : t[k] # "["
  <2>1. 1 \in 1..Len(t) /\ \A k \in 2..Len(t) : k \in 1..Len(t) /\ k \in 2..8
    <3>1. \A n \in 2..7 : 1 \in 1..n /\ \A k \in 2..n : k \in 1..n /\ k \in 2..8
      OBVIOUS
    <3> QED
      BY <3>1, Zenon
  <2> QED
    BY <2>1, BodyIs
<1>4. ASSUME NEW p \in IncompleteOrphanBody, Ended(s, p) PROVE p = t
  <2>1. Opens(p, "E", "[")
    BY OrphansOpen DEF AllOpen
  <2>2. p \in Stream /\ Len(p) > 0 /\ p[1] = "[" /\ \A k \in 2..Len(p) : p[k] # "["
    BY <2>1 DEF Opens, Led
  <2>3. Len(t) > 0
    <3>1. \A n \in 2..7 : n > 0
      OBVIOUS
    <3> QED
      BY <3>1, Zenon
  <2> QED
    BY <1>3, <1>4, <2>2, <2>3, OneEnd
<1>5. Len(t) \in 2..8
  OBVIOUS
<1> HIDE DEF s
<1>6. EndOf(s, IncompleteOrphanBody) # {} /\ Longest(EndOf(s, IncompleteOrphanBody)) = t
  BY <1>1, <1>2, <1>4, <1>5, OneEnds
<1> QED
  BY <1>6 DEF Cut, s

(* The same for a read that is nothing else.                               *)
LEMMA CutBody ==
  ASSUME NEW t \in Stream, Len(t) \in 2..7, \A k \in 1..Len(t) : t[k] = Body[k]
  PROVE  Cut(t) = t
<1>1. \A k \in 1..Len(t) : t[k] # "E"
  BY BodyIs
<1>2. ASSUME NEW p \in IncompleteMousePrefix, Ended(t, p) PROVE FALSE
  <2>1. p \in Stream /\ Len(p) \in 2..8 /\ p[1] = "E"
    BY PrefixesLed DEF Led
  <2>2. /\ Len(p) <= Len(t) /\ Len(t) \in Nat
        /\ \A k \in 1..Len(p) : p[k] = t[Len(t) - Len(p) + k]
    BY <1>2, <2>1, EndedAt
  <2>3. 1 \in 1..Len(p) /\ Len(t) - Len(p) + 1 \in 1..Len(t)
    BY <2>1, <2>2
  <2> QED
    BY <1>1, <2>1, <2>2, <2>3
<1>3. EndOf(t, IncompleteMousePrefix) = {}
  BY <1>2, NoneEnds
<1>4. <<>> \in Stream /\ <<>> \o t = t
  BY SequenceTypes, StreamJoins
<1>5. EndOf(<<>> \o t, IncompleteMousePrefix) = {}
  BY <1>3, <1>4
<1>6. Cut(<<>> \o t) = t
  BY <1>4, <1>5, CutOrphan
<1> QED
  BY <1>4, <1>6

(* Of a cut mouse sequence all is held back, or all but its escape         *)
(* character.                                                              *)
LEMMA CutFront ==
  ASSUME NEW l \in Stream, NEW t \in Stream, Len(t) \in 1..8, \A k \in 1..Len(t) : t[k] = SgrMouse[k]
  PROVE  \E g \in {<<>>, <<"E">>} : t = g \o Cut(l \o t)
<1> DEFINE s == l \o t
<1>1. s \in Stream /\ t \in Seq(Signs) /\ l \in Seq(Signs) /\ Ended(s, t)
  BY StreamJoins, EndedWith DEF Stream
<1>2. t[1] = "E" /\ \A k \in 2..Len(t) : t[k] # "E"
  <2>1. 1 \in 1..Len(t) /\ \A k \in 2..Len(t) : k \in 1..Len(t) /\ k \in 2..9
    <3>1. \A n \in 1..8 : 1 \in 1..n /\ \A k \in 2..n : k \in 1..n /\ k \in 2..9
      OBVIOUS
    <3> QED
      BY <3>1, Zenon
  <2> QED
    BY <2>1, MouseSpelled, SequenceTypes
<1>3. ASSUME NEW p \in IncompleteMousePrefix, Ended(s, p) PROVE p = t
  <2>1. Led(p, "E")
    BY PrefixesLed
  <2>2. p \in Stream /\ Len(p) > 0 /\ p[1] = "E" /\ \A k \in 2..Len(p) : p[k] # "E"
    BY <2>1 DEF Led
  <2>3. Len(t) > 0
    <3>1. \A n \in 1..8 : n > 0
      OBVIOUS
    <3> QED
      BY <3>1, Zenon
  <2> QED
    BY <1>2, <1>3, <2>2, <2>3, OneEnd
<1>4. CASE Len(t) = 1
  <2>1. s[Len(s)] = "E" /\ Len(s) > 0
    <3>1. /\ Len(s) = Len(l) + Len(t) /\ Len(l) \in Nat
          /\ \A k \in 1..Len(t) : s[Len(l) + k] = t[k]
      BY <1>1, JoinedPlaces
    <3> HIDE DEF s
    <3>2. Len(s) = Len(l) + 1 /\ 1 \in 1..Len(t)
      BY <1>4, <3>1
    <3> QED
      BY <1>2, <3>1, <3>2
  <2>2. Cut(s) = <<>>
    BY <1>1, <2>1, CutEscape
  <2>3. t = <<"E">>
    BY <1>1, <1>2, <1>4
  <2>4. <<"E">> \o <<>> = <<"E">>
    BY SequenceTypes, StreamJoins
  <2> QED
    BY <2>2, <2>3, <2>4
<1>5. CASE Len(t) \in Lengths
  <2>1. t \in IncompleteMousePrefix
    BY <1>5, PrefixIs
  <2>2. Len(t) \in 2..8
    BY <1>5 DEF Lengths
  <2>3. EndOf(s, IncompleteMousePrefix) # {} /\ Longest(EndOf(s, IncompleteMousePrefix)) = t
    <3> HIDE DEF s
    <3> QED
      BY <1>1, <1>3, <2>1, <2>2, OneEnds
  <2>4. Cut(s) = t
    BY <2>3 DEF Cut
  <2>5. <<>> \o t = t
    BY StreamJoins
  <2> QED
    BY <2>4, <2>5
<1>6. CASE Len(t) = 4 \/ Len(t) = 6
  <2>1. t \notin IncompleteMousePrefix
    <3> SUFFICES ASSUME t \in IncompleteMousePrefix PROVE FALSE
      OBVIOUS
    <3>1. Len(t) \in Lengths
      BY PrefixLengths
    <3>2. 4 \notin Lengths /\ 6 \notin Lengths
      BY DEF Lengths
    <3> QED
      BY <1>6, <3>1, <3>2, Zenon
  <2>2. EndOf(s, IncompleteMousePrefix) = {}
    BY <1>3, <2>1, NoneEnds
  <2> DEFINE u == SubSeq(t, 1 + 1, Len(t))  h == SubSeq(t, 1, 1)
  <2>3. /\ u \in Stream /\ Len(u) = Len(t) - 1 /\ h \in Seq(Signs) /\ Len(h) = 1 /\ t = h \o u
        /\ h[1] = t[1] /\ \A k \in 1..(Len(t) - 1) : u[k] = t[1 + k]
    <3>1. 1 \in 0..Len(t) /\ 1 \in 1..1
      OBVIOUS
    <3> QED
      BY <1>1, <3>1, CutAt DEF Stream
  <2> HIDE DEF u, h
  <2>4. h = <<"E">>
    BY <1>2, <2>3
  <2>5. Len(u) \in 2..7 /\ \A k \in 1..Len(u) : u[k] = Body[k]
    <3>1. Len(u) \in 2..7 /\ Len(t) - 1 \in 2..7
      BY <1>6, <2>3
    <3>2. ASSUME NEW k \in 1..Len(u) PROVE u[k] = Body[k]
      <4>1. k \in 1..(Len(t) - 1) /\ 1 + k \in 1..Len(t) /\ 1 + k \in 2..9 /\ (1 + k) - 1 = k
        BY <2>3, <3>1
      <4>2. u[k] = SgrMouse[1 + k]
        BY <2>3, <4>1
      <4>3. SgrMouse[1 + k] = Body[(1 + k) - 1]
        BY <4>1, MouseSpelled
      <4> QED
        BY <4>1, <4>2, <4>3
    <3> QED
      BY <3>1, <3>2
  <2>6. s = (l \o <<"E">>) \o u /\ l \o <<"E">> \in Stream
    <3>1. <<"E">> \in Stream
      BY SequenceTypes
    <3> QED
      BY <2>3, <2>4, <3>1, StreamJoins
  <2>7. Cut(s) = u
    <3> DEFINE m == l \o <<"E">>
    <3>1. m \in Stream /\ s = m \o u /\ EndOf(m \o u, IncompleteMousePrefix) = {}
      BY <2>2, <2>6
    <3> HIDE DEF m, s
    <3>2. Cut(m \o u) = u
      BY <2>3, <2>5, <3>1, CutOrphan
    <3> QED
      BY <3>1, <3>2
  <2> QED
    BY <2>3, <2>4, <2>7
<1>7. Len(t) = 1 \/ Len(t) \in Lengths \/ Len(t) = 4 \/ Len(t) = 6
  BY DEF Lengths
<1> QED
  BY <1>4, <1>5, <1>6, <1>7

----------------------------------------------------------------------------
(* What flows through the filter: nothing is lost and nothing is made up,  *)
(* whatever is sent next.                                                  *)

(* The keys of two parts are the keys of the whole.                        *)
LEMMA KeysJoin ==
  ASSUME NEW a \in Stream, NEW b \in Stream
  PROVE  Keys(a \o b) = Keys(a) \o Keys(b) /\ Keys(a) \in Stream /\ Keys(b) \in Stream
<1> DEFINE v == a \o b  n == Len(a)  m == Len(b)
           first == {i \in DOMAIN a : a[i] = "E"}  second == {i \in DOMAIN b : b[i] = "E"}
           both == {i \in DOMAIN v : v[i] = "E"}
<1>1. a \in Seq(Signs) /\ b \in Seq(Signs) /\ DOMAIN a = 1..n /\ DOMAIN b = 1..m
  BY DEF Stream
<1>2. /\ v \in Seq(Signs) /\ Len(v) = n + m /\ n \in Nat /\ m \in Nat
      /\ \A i \in 1..n : v[i] = a[i]
      /\ \A i \in 1..m : v[i + n] = b[i]
  BY <1>1, JoinedPlaces
<1> HIDE DEF v
<1>3. DOMAIN v = 1..(n + m)
  BY <1>2
<1> HIDE DEF n, m
<1>4. \A i \in 1..n : i \in both <=> i \in first
  <2>1. \A i \in 1..n : i \in 1..(n + m)
    BY <1>2
  <2> QED
    BY <1>1, <1>2, <1>3, <2>1
<1>5. \A i \in 1..m : i + n \in both <=> i \in second
  <2>1. \A i \in 1..m : i + n \in 1..(n + m)
    BY <1>2
  <2> QED
    BY <1>1, <1>2, <1>3, <2>1
<1> HIDE DEF first, second, both
<1>6. ApartFrom(both, Len(a), first, second, Len(b))
  BY <1>4, <1>5 DEF ApartFrom, n, m
<1>7. /\ Outside(a \o b, both) = Outside(a, first) \o Outside(b, second)
      /\ Outside(a, first) \in Seq(Signs) /\ Outside(b, second) \in Seq(Signs)
  BY <1>1, <1>6, JoinedOutside
<1> QED
  BY <1>7 DEF Keys, v, first, second, both, Stream

(* An escape character is no key.                                          *)
LEMMA NoKeys == Keys(<<>>) = <<>> /\ Keys(<<"E">>) = <<>>
<1>1. <<>> \in Seq(Signs) /\ <<"E">> \in Seq(Signs)
  BY SequenceTypes DEF Stream
<1>2. \A i \in 1..Len(<<>>) : i \in {k \in DOMAIN <<>> : <<>>[k] = "E"}
  OBVIOUS
<1>3. \A i \in 1..Len(<<"E">>) : i \in {k \in DOMAIN <<"E">> : <<"E">>[k] = "E"}
  OBVIOUS
<1> QED
  BY <1>1, <1>2, <1>3, NothingOutside DEF Keys

(* Parts that are joined where no sequence stands across.                  *)
LEMMA EscapedJoin ==
  ASSUME NEW a \in Stream, NEW b \in Stream, NoneAcross(a, b), Escaped(a), Escaped(b)
  PROVE  Escaped(a \o b)
<1> DEFINE v == a \o b  n == Len(a)  m == Len(b)
<1>1. /\ n \in Nat /\ m \in Nat /\ \A i \in 1..n : v[i] = a[i]
      /\ \A i \in 1..m : v[i + n] = b[i]
  BY JoinedPlaces DEF Stream
<1>2. /\ \A i : i \in Mice(v) <=> i \in Mice(a) \/ \E j \in Mice(b) : i = j + n
      /\ 1 \notin Mice(b) /\ Mice(a) \in SUBSET (1..n) /\ Mice(b) \in SUBSET (1..m)
  BY MiceJoin, MiceAre DEF Stream
<1> SUFFICES ASSUME NEW i \in Mice(v), i > 1 PROVE v[i - 1] = "E"
  BY DEF Escaped
<1> HIDE DEF v, n, m
<1>3. CASE i \in Mice(a)
  <2>1. i - 1 \in 1..n /\ a[i - 1] = "E"
    BY <1>1, <1>2, <1>3 DEF Escaped
  <2> QED
    BY <1>1, <2>1
<1>4. CASE i \notin Mice(a)
  <2>1. PICK j \in Mice(b) : i = j + n
    BY <1>2, <1>4
  <2>2. j \in 1..m /\ j > 1
    BY <1>1, <1>2
  <2>3. j - 1 \in 1..m /\ i - 1 = (j - 1) + n
    BY <1>1, <2>1, <2>2
  <2>4. b[j - 1] = "E"
    BY <2>2 DEF Escaped
  <2> QED
    BY <1>1, <2>3, <2>4
<1> QED
  BY <1>3, <1>4

(* None of the sequences in a stream stands across the end of one of them. *)
LEMMA AfterMouse ==
  ASSUME NEW s \in Stream, NEW y \in Stream, NEW j \in Mice(s), j + 7 = Len(s), Escaped(s \o y)
  PROVE  NoneAcross(s, y)
<1> DEFINE v == s \o y  n == Len(s)
<1>1. v \in Stream /\ n \in Nat /\ \A i \in 1..n : v[i] = s[i]
  BY JoinedPlaces DEF Stream
<1>2. j \in Mice(v) /\ BodyAt(s, j) /\ j \in Nat
  BY MiceOfParts, MiceAre DEF Stream
<1> SUFFICES ASSUME NEW i \in Mice(v), i <= n + 1, i + 7 > n PROVE FALSE
  BY DEF NoneAcross
<1> HIDE DEF v
<1>3. i \in Nat
  BY <1>1, MiceAre DEF Stream
<1>4. i >= j + 8
  <2>1. j < i
    BY <1>1, <1>2, <1>3
  <2> QED
    BY <1>1, <1>2, <2>1, BodiesApart
<1>5. i = n + 1 /\ i > 1 /\ i - 1 = n /\ n \in 1..n
  BY <1>1, <1>2, <1>3, <1>4
<1>6. v[n] = "E"
  <2>1. v[i - 1] = "E"
    BY <1>5 DEF Escaped, v
  <2> QED
    BY <1>5, <2>1
<1>7. s[n] = Body[8]
  <2>1. \A k \in 1..8 : s[j + k - 1] = Body[k]
    BY <1>2 DEF BodyAt
  <2>2. j + 8 - 1 = n
    BY <1>1, <1>2
  <2>3. s[j + 8 - 1] = Body[8]
    BY <2>1
  <2> QED
    BY <2>2, <2>3
<1> QED
  BY <1>1, <1>5, <1>6, <1>7, BodyIs

(* What was handed on ends in an escape character.                         *)
EndsTorn(got) == got # <<>> /\ Last(got) = "E"

(* What holds of a stream r of which the part before it was handed on as   *)
(* got.                                                                    *)
Flows(r, got, keyed, n, m) ==
  /\ Escaped(r)
  /\ 1 \in Mice(r) => EndsTorn(got)
  /\ \E x \in Stream : keyed = x \o Left(r) /\ Keys(x) = Keys(got)
  /\ n + Sequences(r) = m

(* A key at the end of the stream.                                         *)
LEMMA FlowTyped ==
  ASSUME NEW r \in Stream, NEW key \in Stream, NEW got, NEW keyed \in Stream, NEW n \in Nat, NEW m \in Nat,
         Flows(r, got, keyed, n, m), Mice(keyed \o key) = {}
  PROVE  Flows(r \o key, got, keyed \o key, n, m)
<1>1. /\ Escaped(r) /\ (1 \in Mice(r) => EndsTorn(got)) /\ n + Sequences(r) = m
      /\ \E x \in Stream : keyed = x \o Left(r) /\ Keys(x) = Keys(got)
  BY DEF Flows
<1>2. PICK x \in Stream : keyed = x \o Left(r) /\ Keys(x) = Keys(got)
  BY <1>1
<1>3. Mice(key) = {}
  BY PiecesFree
<1>4. Left(key) = key /\ Left(r) \in Stream
  BY <1>3, LeftIs
<1>5. keyed \o key = x \o (Left(r) \o Left(key))
  <2>1. x \in Stream /\ Left(r) \in Stream /\ Left(key) \in Stream
    BY <1>2, <1>4
  <2>2. (x \o Left(r)) \o Left(key) = x \o (Left(r) \o Left(key))
    BY <2>1, StreamJoins, ZenonT(60)
  <2> QED
    BY <1>2, <1>4, <2>2, ZenonT(60)
<1>6. Escaped(key) /\ 1 \notin Mice(key)
  BY <1>3 DEF Escaped
<1>7. NoneAcross(r, key)
  BY <1>5, <1>6, NoneArises
<1>8. /\ Left(r \o key) = Left(r) \o Left(key)
      /\ Sequences(r \o key) = Sequences(r) + Sequences(key)
  BY <1>7, LeftJoins
<1>9. Sequences(key) = 0 /\ Sequences(r) \in Nat
  BY <1>3, SequencesAre, FS_EmptySet DEF Sequences
<1>10. Escaped(r \o key)
  BY <1>1, <1>6, <1>7, EscapedJoin
<1>11. 1 \in Mice(r \o key) => 1 \in Mice(r)
  BY <1>3, <1>7, MiceJoin
<1>12. keyed \o key = x \o Left(r \o key)
  BY <1>5, <1>8
<1>13. n + Sequences(r \o key) = m
  BY <1>1, <1>8, <1>9
<1> QED
  BY <1>1, <1>2, <1>10, <1>11, <1>12, <1>13 DEF Flows

(* A step of the wheel at the end of the stream.                           *)
LEMMA FlowTurned ==
  ASSUME NEW r \in Stream, NEW got, NEW keyed, NEW n \in Nat, NEW m \in Nat,
         Flows(r, got, keyed, n, m)
  PROVE  Flows(r \o SgrMouse, got, keyed, n, m + 1)
<1>1. /\ Escaped(r) /\ (1 \in Mice(r) => EndsTorn(got)) /\ n + Sequences(r) = m
      /\ \E x \in Stream : keyed = x \o Left(r) /\ Keys(x) = Keys(got)
  BY DEF Flows
<1>2. PICK x \in Stream : keyed = x \o Left(r) /\ Keys(x) = Keys(got)
  BY <1>1
<1>3. /\ SgrMouse \in Stream /\ Len(SgrMouse) > 0 /\ SgrMouse[1] = "E"
      /\ Mice(SgrMouse) = {2} /\ Left(SgrMouse) = <<>> /\ Sequences(SgrMouse) = 1
  BY SequenceTypes, MouseLeft
<1>4. NoneAcross(r, SgrMouse)
  BY <1>3, BeforeEscape
<1>5. /\ Left(r \o SgrMouse) = Left(r) \o <<>>
      /\ Sequences(r \o SgrMouse) = Sequences(r) + 1
  BY <1>3, <1>4, LeftJoins
<1>6. Left(r) \o <<>> = Left(r) /\ Sequences(r) \in Nat
  BY LeftIs, StreamJoins, SequencesAre
<1>7. Escaped(SgrMouse)
  <2>1. 2 - 1 = 1
    OBVIOUS
  <2> QED
    BY <1>3, <2>1 DEF Escaped
<1>8. Escaped(r \o SgrMouse)
  BY <1>1, <1>3, <1>4, <1>7, EscapedJoin
<1>9. 1 \in Mice(r \o SgrMouse) => 1 \in Mice(r)
  <2>1. \A i : i \in Mice(r \o SgrMouse) <=> i \in Mice(r) \/ \E j \in Mice(SgrMouse) : i = j + Len(r)
    BY <1>3, <1>4, MiceJoin
  <2>2. 1 # 2 + Len(r)
    <3>1. Len(r) \in Nat
      BY DEF Stream
    <3> QED
      BY <3>1
  <2> QED
    BY <1>3, <2>1, <2>2
<1>10. n + Sequences(r \o SgrMouse) = m + 1
  BY <1>1, <1>5, <1>6
<1> QED
  BY <1>1, <1>2, <1>5, <1>6, <1>8, <1>9, <1>10 DEF Flows

----------------------------------------------------------------------------
(* The reads.  One may end between the sequences, in one of them, or       *)
(* before the end of one whose escape character was handed on.             *)

(* A beginning that is not all of it.                                      *)
Begins(t, whole) == Len(t) \in 1..8 /\ \A k \in 1..Len(t) : t[k] = whole[k]

(* A sequence of which the beginning is read and the rest is not.          *)
CutInTwo(raw, rest) ==
  \E a, t, u, y \in Stream :
    raw = a \o t /\ rest = u \o y /\ t \o u = SgrMouse /\ Begins(t, SgrMouse)

(* A read that cuts a sequence behind its escape character or later.       *)
LEMMA SplitMouse ==
  ASSUME NEW raw \in Stream, NEW rest \in Stream, NEW i \in Mice(raw \o rest),
         i > 1, i <= Len(raw) + 1, i + 7 > Len(raw), Escaped(raw \o rest)
  PROVE  CutInTwo(raw, rest)
<1> DEFINE v == raw \o rest  n == Len(raw)  m == Len(rest)  p == i - 2  q == i + 7 - n
<1>1. /\ v \in Stream /\ Len(v) = n + m /\ n \in Nat /\ m \in Nat
      /\ \A k \in 1..n : v[k] = raw[k]
      /\ \A k \in 1..m : v[k + n] = rest[k]
  BY JoinedPlaces DEF Stream
<1>2. v[i - 1] = "E"
  BY DEF Escaped
<1> HIDE DEF v
<1>3. BodyAt(v, i) /\ i \in Nat
  BY <1>1, MiceAre DEF Stream, v
<1>4. i \in 2..(n + 1) /\ i + 7 <= n + m /\ \A k \in 1..8 : v[i + k - 1] = Body[k]
  BY <1>1, <1>3 DEF BodyAt
<1>5. p \in 0..n /\ q \in 0..m /\ q \in 1..8 /\ (n - p) + q = 9 /\ n - p \in 1..8
  <2>1. n \in Nat /\ m \in Nat /\ i \in 2..(n + 1) /\ i + 7 <= n + m /\ i + 7 > n
    BY <1>1, <1>4
  <2> HIDE DEF n, m
  <2> QED
    BY <2>1
<1>6. \A k \in 1..9 : v[p + k] = SgrMouse[k]
  <2> SUFFICES ASSUME NEW k \in 1..9 PROVE v[p + k] = SgrMouse[k]
    OBVIOUS
  <2>1. CASE k = 1
    <3>1. p + k = i - 1
      BY <1>3, <2>1
    <3> QED
      BY <1>2, <2>1, <3>1, SequenceTypes
  <2>2. CASE k \in 2..9
    <3>1. p + k = i + (k - 1) - 1 /\ k - 1 \in 1..8
      BY <1>3, <2>2
    <3>2. v[i + (k - 1) - 1] = Body[k - 1]
      BY <1>4, <3>1
    <3> QED
      BY <2>2, <3>1, <3>2, MouseSpelled
  <2> QED
    BY <2>1, <2>2
<1> HIDE DEF n, m
<1> DEFINE a == SubSeq(raw, 1, p)  t == SubSeq(raw, p + 1, n)
           u == SubSeq(rest, 1, q)  y == SubSeq(rest, q + 1, m)
<1>7. /\ a \in Stream /\ Len(a) = p /\ t \in Stream /\ Len(t) = n - p /\ raw = a \o t
      /\ \A k \in 1..(n - p) : t[k] = raw[p + k]
  BY <1>5, CutAt, ZenonT(60) DEF Stream, n
<1>8. /\ u \in Stream /\ Len(u) = q /\ y \in Stream /\ rest = u \o y
      /\ \A k \in 1..q : u[k] = rest[k]
  BY <1>5, CutAt, ZenonT(60) DEF Stream, m
<1> HIDE DEF a, t, u, y
<1>9. \A k \in 1..(n - p) : t[k] = SgrMouse[0 + k]
  <2> SUFFICES ASSUME NEW k \in 1..(n - p) PROVE t[k] = SgrMouse[0 + k]
    OBVIOUS
  <2>1. p + k \in 1..n /\ k \in 1..9 /\ 0 + k = k
    BY <1>1, <1>5
  <2> QED
    BY <1>1, <1>6, <1>7, <2>1
<1>10. \A k \in 1..q : u[k] = SgrMouse[(n - p) + k]
  <2> SUFFICES ASSUME NEW k \in 1..q PROVE u[k] = SgrMouse[(n - p) + k]
    OBVIOUS
  <2> DEFINE c == (n - p) + k
  <2>1. k \in 1..m /\ c \in 1..9 /\ k + n = p + c
    BY <1>1, <1>3, <1>5
  <2> HIDE DEF c
  <2>2. v[p + c] = SgrMouse[c]
    BY <1>6, <2>1
  <2>3. u[k] = SgrMouse[c]
    BY <1>1, <1>8, <2>1, <2>2
  <2> QED
    BY <2>3 DEF c
<1>11. t \o u = SgrMouse
  <2> DEFINE first == n - p
  <2>1. first \in Nat /\ q \in Nat /\ first + q = 9 /\ 0 + first <= 9
    BY <1>5
  <2>2. SgrMouse \in Stream /\ Len(SgrMouse) = 9
    BY SequenceTypes
  <2>3. PartAt(t, SgrMouse, 0, first) /\ PartAt(u, SgrMouse, first, q)
    BY <1>7, <1>8, <1>9, <1>10, <2>1, <2>2 DEF PartAt
  <2> HIDE DEF first, q
  <2> QED
    BY <2>1, <2>2, <2>3, PartsJoin
<1>12. Begins(t, SgrMouse)
  <2>1. \A k \in 1..(n - p) : t[k] = SgrMouse[k]
    <3>1. \A k \in 1..(n - p) : 0 + k = k
      BY <1>5
    <3> QED
      BY <1>9, <3>1
  <2> QED
    BY <1>5, <1>7, <2>1 DEF Begins
<1> QED
  BY <1>7, <1>8, <1>11, <1>12 DEF CutInTwo

(* A stream in front of the beginning of a sequence makes up none of the   *)
(* other forms with it,                                                    *)
LEMMA BeginningIsClean ==
  ASSUME NEW l \in Stream, NEW t \in Stream, Clean(l), Begins(t, SgrMouse), NEW v, v = l \o t
  PROVE  Clean(v)
<1> DEFINE n == Len(l)  m == Len(t)
<1>1. /\ Len(v) = n + m /\ n \in Nat /\ m \in Nat
      /\ \A k \in 1..n : v[k] = l[k]
      /\ \A k \in 1..m : v[k + n] = t[k]
  BY JoinedPlaces DEF Stream
<1>2. m \in 1..8 /\ \A k \in 1..m : t[k] = SgrMouse[k]
  BY DEF Begins
<1> HIDE DEF n, m
<1>3. SgrMouse[1] = "E" /\ SgrMouse[3] = "<" /\ \A k \in 2..9 : SgrMouse[k] # "E" /\ (SgrMouse[k] = "[" => k = 2)
  <2>1. SgrMouse[3] = "<"
    <3>1. 3 \in 2..9 /\ 3 - 1 = 2
      OBVIOUS
    <3>2. SgrMouse[3] = Body[2]
      BY <3>1, MouseSpelled
    <3> QED
      BY <3>2, BodyPlaces, Zenon
  <2>2. \A k \in 2..9 : SgrMouse[k] = "[" => k = 2
    <3>1. \A k \in 2..9 : k # 2 => k - 1 \in 2..8
      OBVIOUS
    <3> QED
      BY <3>1, BodyIs, MouseSpelled
  <2> QED
    BY <2>1, <2>2, MouseSpelled, SequenceTypes
<1>4. v[n + 1] = "E" /\ n + 1 \in 1..Len(v)
  <2>1. 1 \in 1..m /\ 1 + n = n + 1
    BY <1>1, <1>2
  <2> QED
    BY <1>1, <1>2, <1>3, <2>1
<1>5. ASSUME NEW j \in (n + 1)..Len(v), v[j] = "E" PROVE j = n + 1
  <2>1. j - n \in 1..m /\ j = (j - n) + n
    BY <1>1
  <2>2. SgrMouse[j - n] = "E"
    BY <1>1, <1>2, <1>5, <2>1
  <2>3. j - n = 1 \/ j - n \in 2..9
    BY <1>2, <2>1
  <2>4. j - n = 1
    BY <1>3, <2>2, <2>3
  <2> QED
    BY <1>1, <2>4
<1>6. n + 3 \in 1..Len(v) => v[n + 3] = "<"
  <2> SUFFICES ASSUME n + 3 \in 1..Len(v) PROVE v[n + 3] = "<"
    OBVIOUS
  <2>1. 3 \in 1..m /\ 3 + n = n + 3
    BY <1>1
  <2> QED
    BY <1>1, <1>2, <1>3, <2>1
<1>7. ASSUME NEW i, OldAt(v, i) PROVE FALSE
  <2>1. i \in 1..Len(v) /\ i + 5 <= Len(v) /\ v[i] = "E" /\ v[i + 2] = "M"
    BY <1>7 DEF OldAt
  <2>2. \A j \in {i + 1, i + 2, i + 3, i + 4, i + 5} : v[j] # "E"
    BY <1>7 DEF OldAt
  <2>3. CASE i + 5 <= n
    <3>1. i \in 1..n /\ \A j \in {i, i + 1, i + 2, i + 3, i + 4, i + 5} : v[j] = l[j]
      BY <1>1, <2>1, <2>3
    <3>2. OldAt(l, i)
      BY <1>7, <2>3, <3>1 DEF OldAt, n
    <3> QED
      BY <3>2 DEF Clean
  <2>4. CASE i <= n /\ ~(i + 5 <= n)
    <3>1. n + 1 \in {i + 1, i + 2, i + 3, i + 4, i + 5}
      BY <1>1, <2>1, <2>4
    <3> QED
      BY <1>4, <2>2, <3>1
  <2>5. CASE ~(i <= n)
    <3>1. i = n + 1
      BY <1>1, <1>5, <2>1, <2>5
    <3>2. i + 2 = n + 3 /\ n + 3 \in 1..Len(v)
      BY <1>1, <2>1, <3>1
    <3> QED
      BY <1>6, <2>1, <3>2
  <2> QED
    BY <2>3, <2>4, <2>5
<1>8. ASSUME NEW i, UrxvtAt(v, i) PROVE FALSE
  <2>1. i \in 1..Len(v) /\ i + 7 <= Len(v) /\ \A k \in 1..8 : v[i + k - 1] = UrxvtMouse[k]
    BY <1>8 DEF UrxvtAt
  <2>2. CASE i + 7 <= n
    <3>1. i \in 1..n /\ \A k \in 1..8 : i + k - 1 \in 1..n
      BY <1>1, <2>1, <2>2
    <3>2. UrxvtAt(l, i)
      BY <1>1, <2>1, <2>2, <3>1 DEF UrxvtAt, n
    <3> QED
      BY <3>2 DEF Clean
  <2>3. CASE i <= n /\ ~(i + 7 <= n)
    <3> DEFINE k == n + 2 - i
    <3>1. k \in 2..8 /\ k \in 1..8 /\ i + k - 1 = n + 1
      BY <1>1, <2>1, <2>3
    <3> HIDE DEF k
    <3>2. UrxvtMouse[k] = "E"
      BY <1>4, <2>1, <3>1
    <3> QED
      BY <3>1, <3>2, FormTypes
  <2>4. CASE ~(i <= n)
    <3>1. v[i] = "E" /\ v[i + 2] = "n"
      <4>1. 1 \in 1..8 /\ 3 \in 1..8 /\ i + 1 - 1 = i /\ i + 3 - 1 = i + 2
        BY <2>1
      <4>2. v[i + 1 - 1] = UrxvtMouse[1] /\ v[i + 3 - 1] = UrxvtMouse[3]
        BY <2>1, <4>1
      <4> QED
        BY <4>1, <4>2, FormTypes, Zenon
    <3>2. i = n + 1
      BY <1>1, <1>5, <2>1, <2>4, <3>1
    <3>3. i + 2 = n + 3 /\ n + 3 \in 1..Len(v)
      BY <1>1, <2>1, <3>2
    <3> QED
      BY <1>6, <3>1, <3>3
  <2> QED
    BY <2>2, <2>3, <2>4
<1>9. ASSUME NEW i, OddAt(v, i) PROVE FALSE
  <2>1. i \in 1..Len(v) /\ i + 4 <= Len(v) /\ v[i] = "[" /\ v[i + 1] = "M"
    BY <1>9 DEF OddAt
  <2>2. \A j \in {i + 1, i + 2, i + 3, i + 4} : v[j] # "E"
    BY <1>9, MouseAssumption DEF OddAt
  <2>3. CASE i + 4 <= n
    <3>1. i \in 1..n /\ \A j \in {i, i + 1, i + 2, i + 3, i + 4} : v[j] = l[j]
      BY <1>1, <2>1, <2>3
    <3>2. OddAt(l, i)
      BY <1>9, <2>3, <3>1 DEF OddAt, n
    <3> QED
      BY <3>2 DEF Clean
  <2>4. CASE i <= n /\ ~(i + 4 <= n)
    <3>1. n + 1 \in {i + 1, i + 2, i + 3, i + 4}
      BY <1>1, <2>1, <2>4
    <3> QED
      BY <1>4, <2>2, <3>1
  <2>5. CASE ~(i <= n)
    <3> DEFINE k == i - n
    <3>1. k \in 1..m /\ i = k + n
      BY <1>1, <2>1, <2>5
    <3> HIDE DEF k
    <3>2. SgrMouse[k] = "["
      BY <1>1, <1>2, <2>1, <3>1
    <3>3. k = 1 \/ k \in 2..9
      BY <1>2, <3>1
    <3>4. k = 2
      BY <1>3, <3>2, <3>3
    <3>5. i + 1 = n + 3 /\ n + 3 \in 1..Len(v)
      BY <1>1, <2>1, <3>1, <3>4
    <3> QED
      BY <1>6, <2>1, <3>5
  <2> QED
    BY <2>3, <2>4, <2>5
<1> QED
  BY <1>7, <1>8, <1>9 DEF Clean

(* and the beginning of a body is none of them.                            *)
LEMMA FrontIsClean ==
  ASSUME NEW s \in Stream, Len(s) < 8, \A k \in 1..Len(s) : s[k] = Body[k]
  PROVE  Silent(s)
<1>1. \A k \in 1..Len(s) : s[k] # "E" /\ s[k] # "M"
  <2>1. \A k \in 1..Len(s) : k \in 1..7 /\ k \in 1..8
    BY DEF Stream
  <2> QED
    BY <2>1, BodyIs
<1>2. ASSUME NEW i, OldAt(s, i) PROVE FALSE
  BY <1>1, <1>2 DEF OldAt
<1>3. ASSUME NEW i, UrxvtAt(s, i) PROVE FALSE
  <2>1. i \in 1..Len(s) /\ i + 7 <= Len(s)
    BY <1>3 DEF UrxvtAt
  <2>2. Len(s) \in Nat
    BY DEF Stream
  <2> QED
    BY <2>1, <2>2
<1>4. ASSUME NEW i, OddAt(s, i) PROVE FALSE
  <2>1. i \in 1..Len(s) /\ i + 4 <= Len(s) /\ s[i + 1] = "M"
    BY <1>4 DEF OddAt
  <2>2. i + 1 \in 1..Len(s)
    BY <2>1 DEF Stream
  <2> QED
    BY <1>1, <2>1, <2>2
<1> QED
  BY <1>2, <1>3, <1>4, ShortFree DEF Silent, Clean

(* Three streams are joined in any order.                                  *)
LEMMA JoinedTwice ==
  ASSUME NEW a \in Stream, NEW b \in Stream, NEW d \in Stream
  PROVE  (a \o b) \o d = a \o (b \o d)
BY StreamJoins

(* What the filter makes of a read: what it hands on, and what it holds    *)
(* back.                                                                   *)
Filtered(raw) == StripOrphanMouseBodies(StripMouseSequences(raw))

(* What is handed on of a read, and what is held back.                     *)
ReadAs(raw, front, tail) ==
  /\ front = SubSeq(Filtered(raw), 1, Len(Filtered(raw)) - Len(Cut(Filtered(raw))))
  /\ tail = Cut(Filtered(raw))

(* The two make up what the filter has left of the read.                   *)
LEMMA ReadParts ==
  ASSUME NEW raw, NEW front, NEW tail, ReadAs(raw, front, tail), Filtered(raw) \in Stream
  PROVE  /\ front \in Stream /\ tail \in Stream /\ Filtered(raw) = front \o tail
         /\ tail = Cut(Filtered(raw)) /\ tail \in Holds /\ Mice(tail) = {}
<1> DEFINE read == Filtered(raw)
<1>1. read \in Stream /\ front = SubSeq(read, 1, Len(read) - Len(Cut(read))) /\ tail = Cut(read)
  BY DEF ReadAs
<1> HIDE DEF read
<1>2. front \in Stream /\ tail \in Stream /\ read = front \o tail
  BY <1>1, CutParts
<1>3. tail \in Holds
  BY <1>1, CutIs
<1> QED
  BY <1>1, <1>2, <1>3 DEF Holds, read

(* A read that cuts no sequence.                                           *)
LEMMA ReadWhole ==
  ASSUME NEW raw \in Stream, NEW rest \in Stream, NEW got \in Stream, NEW keyed \in Stream,
         NEW n \in Nat, NEW m \in Nat, Silent(keyed),
         Flows(raw \o rest, got, keyed, n, m), NoneAcross(raw, rest),
         NEW front, NEW tail, ReadAs(raw, front, tail)
  PROVE  Flows(tail \o rest, got \o front, keyed, n + ScrollEvents(raw), m)
<1>1. /\ Escaped(raw \o rest) /\ (1 \in Mice(raw \o rest) => EndsTorn(got))
      /\ n + Sequences(raw \o rest) = m
      /\ \E x \in Stream : keyed = x \o Left(raw \o rest) /\ Keys(x) = Keys(got)
  BY DEF Flows
<1>2. PICK x \in Stream : keyed = x \o Left(raw \o rest) /\ Keys(x) = Keys(got)
  BY <1>1
<1>3. Escaped(raw) /\ Escaped(rest) /\ 1 \notin Mice(rest)
  BY <1>1, EscapedParts, MiceJoin
<1>4. /\ Left(raw \o rest) = Left(raw) \o Left(rest) /\ Left(raw) \in Stream
      /\ Left(rest) \in Stream /\ Sequences(raw \o rest) = Sequences(raw) + Sequences(rest)
      /\ Sequences(raw) \in Nat /\ Sequences(rest) \in Nat
  BY LeftJoins, LeftIs, SequencesAre
<1>5. Silent(Left(raw))
  <2>1. Left(raw) \o Left(rest) \in Stream
    BY <1>4, StreamJoins
  <2>2. Silent(x \o (Left(raw) \o Left(rest)))
    BY <1>2, <1>4
  <2>3. Silent(Left(raw) \o Left(rest))
    BY <2>1, <2>2, SilentParts
  <2> QED
    BY <1>4, <2>3, SilentParts
<1>6. Filtered(raw) = Left(raw) /\ ScrollEvents(raw) = Sequences(raw)
  BY <1>3, <1>5, FilterIs DEF Filtered
<1>7. front \in Stream /\ tail \in Stream /\ Left(raw) = front \o tail /\ Mice(tail) = {}
  <2>1. Filtered(raw) \in Stream
    BY <1>4, <1>6
  <2>2. front \in Stream /\ tail \in Stream /\ Filtered(raw) = front \o tail /\ Mice(tail) = {}
    BY <2>1, ReadParts, Zenon
  <2> QED
    BY <1>6, <2>2
<1> DEFINE before == x \o front
<1>8. /\ before \in Stream /\ before \o (tail \o Left(rest)) = keyed /\ tail \o rest \in Stream
      /\ tail \o Left(rest) \in Stream
  <2> DEFINE l == Left(rest)
  <2>1. l \in Stream /\ front \in Stream /\ tail \in Stream
    BY <1>4, <1>7
  <2> HIDE DEF l
  <2>2. tail \o l \in Stream /\ x \o front \in Stream /\ tail \o rest \in Stream
    BY <2>1, StreamJoins
  <2>3. (x \o front) \o (tail \o l) = x \o (front \o (tail \o l))
    BY <2>1, <2>2, JoinedTwice, ZenonT(60)
  <2>5. (front \o tail) \o l = front \o (tail \o l)
    BY <2>1, JoinedTwice, SMTT(40)
  <2>4. keyed = x \o ((front \o tail) \o l)
    BY <1>2, <1>4, <1>7 DEF l
  <2> QED
    BY <2>2, <2>3, <2>4, <2>5 DEF l
<1>9. Left(tail) = tail /\ Sequences(tail) = 0 /\ Escaped(tail) /\ 1 \notin Mice(tail)
  BY <1>7, LeftIs, FS_EmptySet DEF Sequences, Escaped
<1>10. NoneAcross(tail, rest)
  <2> HIDE DEF before
  <2>1. Mice(before \o (Left(tail) \o Left(rest))) = {}
    BY <1>8, <1>9 DEF Silent
  <2> QED
    <3>1. before \in Stream /\ tail \in Stream /\ 1 \notin Mice(rest) /\ Escaped(rest)
      BY <1>3, <1>7, <1>8
    <3> QED
      BY <2>1, <3>1, NoneArises, Zenon
<1>11. /\ Left(tail \o rest) = tail \o Left(rest) /\ Sequences(tail \o rest) = Sequences(tail) + Sequences(rest)
  <2>1. tail \in Stream
    BY <1>7
  <2>2. /\ Left(tail \o rest) = Left(tail) \o Left(rest)
        /\ Sequences(tail \o rest) = Sequences(tail) + Sequences(rest)
    BY <1>10, <2>1, LeftJoins, Zenon
  <2> QED
    BY <1>9, <2>2
<1>12. Escaped(tail \o rest)
  BY <1>3, <1>7, <1>9, <1>10, EscapedJoin
<1>13. 1 \notin Mice(tail \o rest) \/ tail = <<>>
  <2>1. \A i : i \in Mice(tail \o rest) <=> i \in Mice(tail) \/ \E j \in Mice(rest) : i = j + Len(tail)
    BY <1>7, <1>10, MiceJoin
  <2>2. ASSUME NEW j \in Mice(rest), 1 = j + Len(tail) PROVE FALSE
    <3>1. j \in Nat /\ Len(tail) \in Nat /\ j # 1 /\ BodyAt(rest, j)
      BY <1>3, <1>7, MiceAre DEF Stream
    <3>2. j \in 1..Len(rest)
      BY <3>1 DEF BodyAt
    <3> QED
      BY <2>2, <3>1, <3>2
  <2> QED
    BY <1>7, <2>1, <2>2
<1>14. 1 \notin Mice(tail \o rest)
  <2>1. <<>> \o rest = rest
    BY StreamJoins
  <2>2. tail = <<>> => Mice(tail \o rest) = Mice(rest)
    BY <2>1
  <2> QED
    BY <1>3, <1>13, <2>2, Zenon
<1>15. Keys(before) = Keys(got \o front)
  <2>1. front \in Stream
    BY <1>7
  <2>2. Keys(x \o front) = Keys(x) \o Keys(front)
    BY <2>1, KeysJoin, Zenon
  <2>3. Keys(got \o front) = Keys(got) \o Keys(front)
    BY <2>1, KeysJoin, Zenon
  <2> QED
    BY <1>2, <2>2, <2>3
<1>16. keyed = before \o Left(tail \o rest)
  <2> HIDE DEF before
  <2> QED
    BY <1>8, <1>11
<1>17. (n + ScrollEvents(raw)) + Sequences(tail \o rest) = m
  BY <1>1, <1>4, <1>6, <1>9, <1>11
<1> HIDE DEF before
<1>18. Flows(tail \o rest, got \o front, keyed, n + ScrollEvents(raw), m)
  BY <1>8, <1>12, <1>14, <1>15, <1>16, <1>17 DEF Flows
<1> QED
  BY <1>18

(* Only nothing can be put in front of a stream and change nothing.        *)
LEMMA NothingFront ==
  ASSUME NEW a \in Stream, NEW b \in Stream, a \o b = b
  PROVE  a = <<>>
<1>1. Len(a \o b) = Len(a) + Len(b) /\ Len(a) \in Nat /\ Len(b) \in Nat
  BY JoinedPlaces DEF Stream
<1>2. Len(a) = 0
  BY <1>1
<1> QED
  BY <1>2 DEF Stream

(* A read that stands in front of the rest of a sequence, whose escape     *)
(* character was handed on.                                                *)
LEMMA ReadFront ==
  ASSUME NEW raw \in Stream, NEW rest \in Stream, NEW got \in Stream, NEW keyed \in Stream,
         NEW n \in Nat, NEW m \in Nat,
         Flows(raw \o rest, got, keyed, n, m), 1 \in Mice(raw \o rest), raw # <<>>, Len(raw) < 8,
         ~(raw = <<"[">> /\ EndsTorn(got)),
         NEW front, NEW tail, ReadAs(raw, front, tail)
  PROVE  Flows(tail \o rest, got \o front, keyed, n + ScrollEvents(raw), m)
<1>1. /\ \A k \in 1..Len(raw) : (raw \o rest)[k] = raw[k]
      /\ Len(raw) \in Nat
  BY JoinedPlaces DEF Stream
<1>2. Len(raw) \in 1..7
  <2>1. Len(raw) # 0
    BY DEF Stream
  <2>2. \A k \in Nat : k # 0 /\ k < 8 => k \in 1..7
    OBVIOUS
  <2> QED
    BY <1>1, <2>1, <2>2, Zenon
<1>3. \A k \in 1..Len(raw) : raw[k] = Body[k]
  <2>1. raw \o rest \in Seq(Signs)
    BY StreamJoins DEF Stream
  <2>2. \A k \in 1..8 : (raw \o rest)[1 + k - 1] = Body[k]
    BY <2>1, MiceAre DEF BodyAt
  <2> SUFFICES ASSUME NEW k \in 1..Len(raw) PROVE raw[k] = Body[k]
    OBVIOUS
  <2>3. k \in 1..8 /\ 1 + k - 1 = k
    BY <1>2
  <2> QED
    BY <1>1, <2>2, <2>3
<1>4. EndsTorn(got)
  BY DEF Flows
<1>5. Len(raw) # 1
  <2> SUFFICES ASSUME Len(raw) = 1 PROVE FALSE
    OBVIOUS
  <2>1. raw[1] = "["
    BY <1>3, BodyIs
  <2>2. raw = <<"[">>
    BY <2>1 DEF Stream
  <2> QED
    BY <1>4, <2>2
<1>6. Silent(raw) /\ Mice(raw) = {}
  BY <1>3, FrontIsClean DEF Silent
<1>7. Escaped(raw) /\ Left(raw) = raw /\ Sequences(raw) = 0
  BY <1>6, LeftIs, FS_EmptySet DEF Escaped, Sequences
<1>8. Filtered(raw) = raw /\ ScrollEvents(raw) = 0
  BY <1>6, <1>7, FilterIs DEF Filtered
<1>9. front \in Stream /\ tail \in Stream /\ raw = front \o tail /\ tail = Cut(raw)
  <2>1. Filtered(raw) \in Stream
    BY <1>8
  <2>2. /\ front \in Stream /\ tail \in Stream /\ Filtered(raw) = front \o tail
        /\ tail = Cut(Filtered(raw))
    BY <2>1, ReadParts, Zenon
  <2> QED
    BY <1>8, <2>2
<1>10. Cut(raw) = raw
  <2>1. Len(raw) \in 2..7
    BY <1>2, <1>5
  <2> QED
    BY <1>3, <2>1, CutBody
<1>11. front = <<>> /\ tail = raw
  BY <1>9, <1>10, NothingFront
<1>12. got \o front = got /\ n + ScrollEvents(raw) = n
  BY <1>8, <1>11, StreamJoins
<1> QED
  BY <1>11, <1>12

(* Streams that differ in front of the same stream differ when they are    *)
(* joined,                                                                 *)
LEMMA SameFronts ==
  ASSUME NEW a \in Stream, NEW b \in Stream, NEW d \in Stream, a \o d = b \o d
  PROVE  a = b
<1>1. /\ Len(a \o d) = Len(a) + Len(d) /\ Len(b \o d) = Len(b) + Len(d)
      /\ Len(a) \in Nat /\ Len(b) \in Nat /\ Len(d) \in Nat
  BY JoinedPlaces DEF Stream
<1>2. Len(a) = Len(b)
  BY <1>1
<1>3. a \in Seq(Signs) /\ b \in Seq(Signs) /\ d \in Seq(Signs)
  BY DEF Stream
<1>4. SubSeq(a \o d, 1, Len(a)) = a
  BY <1>3, PutTogether, Zenon
<1>5. SubSeq(b \o d, 1, Len(b)) = b
  BY <1>3, PutTogether, Zenon
<1> QED
  BY <1>2, <1>4, <1>5

(* and so do streams that differ behind the same stream.                   *)
LEMMA SameTails ==
  ASSUME NEW a \in Stream, NEW b \in Stream, NEW d \in Stream, d \o a = d \o b
  PROVE  a = b
<1>1. a \in Seq(Signs) /\ b \in Seq(Signs) /\ d \in Seq(Signs)
  BY DEF Stream
<1>2. SubSeq(d \o a, Len(d) + 1, Len(d \o a)) = a
  BY <1>1, PutTogether, Zenon
<1>3. SubSeq(d \o b, Len(d) + 1, Len(d \o b)) = b
  BY <1>1, PutTogether, Zenon
<1> QED
  BY <1>2, <1>3

(* What a stream is left with that begins with a sequence.                 *)
LEMMA MouseThen ==
  ASSUME NEW y \in Stream, Escaped(SgrMouse \o y)
  PROVE  /\ Left(SgrMouse \o y) = Left(y) /\ Sequences(SgrMouse \o y) = 1 + Sequences(y)
         /\ 1 \notin Mice(SgrMouse \o y) /\ Len(SgrMouse \o y) > 0 /\ (SgrMouse \o y)[1] = "E"
         /\ SgrMouse \o y \in Stream
<1>1. SgrMouse \in Stream /\ Len(SgrMouse) = 9 /\ SgrMouse[1] = "E" /\ 2 \in Mice(SgrMouse)
  BY SequenceTypes, MouseLeft
<1>2. NoneAcross(SgrMouse, y)
  <2>1. 2 + 7 = Len(SgrMouse)
    BY <1>1
  <2> QED
    BY <1>1, <2>1, AfterMouse
<1>3. /\ Left(SgrMouse \o y) = Left(SgrMouse) \o Left(y)
      /\ Sequences(SgrMouse \o y) = Sequences(SgrMouse) + Sequences(y)
  BY <1>1, <1>2, LeftJoins
<1>4. Left(SgrMouse) = <<>> /\ Sequences(SgrMouse) = 1 /\ <<>> \o Left(y) = Left(y)
  BY MouseLeft, LeftIs, StreamJoins
<1>5. /\ SgrMouse \o y \in Seq(Signs) /\ Len(SgrMouse \o y) > 0 /\ (SgrMouse \o y)[1] = "E"
  <2>1. /\ SgrMouse \o y \in Seq(Signs) /\ Len(SgrMouse \o y) = Len(SgrMouse) + Len(y)
        /\ Len(y) \in Nat /\ \A k \in 1..Len(SgrMouse) : (SgrMouse \o y)[k] = SgrMouse[k]
    BY <1>1, JoinedPlaces, ZenonT(60) DEF Stream
  <2>2. 1 \in 1..Len(SgrMouse) /\ \A n \in Nat : 9 + n > 0
    BY <1>1
  <2> QED
    BY <1>1, <2>1, <2>2
<1>6. 1 \notin Mice(SgrMouse \o y)
  <2> DEFINE w == SgrMouse \o y
  <2>1. w \in Seq(Signs) /\ w[1] = "E"
    BY <1>5
  <2> HIDE DEF w
  <2>2. 1 \in 1..8 /\ 1 + 1 - 1 = 1
    OBVIOUS
  <2>3. 1 \in Mice(w) => w[1] = Body[1]
    BY <2>1, <2>2, MiceAre DEF BodyAt
  <2>4. 1 \notin Mice(w)
    BY <2>1, <2>3, BodyIs
  <2> QED
    BY <2>4 DEF w
<1> QED
  BY <1>3, <1>4, <1>5, <1>6 DEF Stream

(* The same when its escape character has gone.                            *)
LEMMA BodyThen ==
  ASSUME NEW y \in Stream, Escaped(SgrMouse \o y)
  PROVE  /\ Left(Body \o y) = Left(y) /\ Sequences(Body \o y) = 1 + Sequences(y)
         /\ Escaped(Body \o y) /\ Body \o y \in Stream /\ SgrMouse \o y = <<"E">> \o (Body \o y)
<1>1. Body \in Stream /\ <<"E">> \in Stream /\ Len(Body) = 8 /\ 1 \in Mice(Body)
  BY SequenceTypes, BodyIs, BodyLeft
<1>2. SgrMouse \o y = <<"E">> \o (Body \o y) /\ Body \o y \in Stream
  BY <1>1, StreamJoins DEF SgrMouse
<1>3. Escaped(Body \o y)
  <2>1. Escaped(<<"E">> \o (Body \o y))
    BY <1>2
  <2> QED
    BY <1>1, <1>2, <2>1, EscapedParts
<1>4. NoneAcross(Body, y)
  <2>1. 1 + 7 = Len(Body)
    BY <1>1
  <2> QED
    BY <1>1, <1>3, <2>1, AfterMouse
<1>5. /\ Left(Body \o y) = Left(Body) \o Left(y)
      /\ Sequences(Body \o y) = Sequences(Body) + Sequences(y)
  BY <1>1, <1>4, LeftJoins
<1>6. Left(Body) = <<>> /\ Sequences(Body) = 1 /\ <<>> \o Left(y) = Left(y)
  BY BodyLeft, LeftIs, StreamJoins
<1> QED
  BY <1>2, <1>3, <1>5, <1>6

(* What is read of a stream up to the middle of a sequence.                *)
LEMMA ReadUpTo ==
  ASSUME NEW a \in Stream, NEW t \in Stream, Begins(t, SgrMouse), Escaped(a \o t),
         Silent(Left(a)), NEW front, NEW tail, ReadAs(a \o t, front, tail)
  PROVE  /\ ScrollEvents(a \o t) = Sequences(a) /\ tail \in Stream
         /\ \E g \in {<<>>, <<"E">>} : t = g \o tail /\ front = Left(a) \o g
<1> DEFINE l == Left(a)  read == l \o t
<1>1. t[1] = "E" /\ Len(t) > 0 /\ Len(t) < 9 /\ l \in Stream
  <2> HIDE DEF l, read
  <2>1. Len(t) \in 1..8 /\ \A k \in 1..Len(t) : t[k] = SgrMouse[k]
    BY DEF Begins
  <2>3. \A n \in 1..8 : 1 \in 1..n /\ n > 0 /\ n < 9
    OBVIOUS
  <2>2. 1 \in 1..Len(t) /\ Len(t) > 0 /\ Len(t) < 9
    BY <2>1, <2>3, Zenon
  <2> QED
    BY <2>1, <2>2, SequenceTypes, LeftIs DEF l
<1>2. Mice(t) = {} /\ Left(t) = t /\ Sequences(t) = 0
  BY <1>1, ShortFree, LeftIs, FS_EmptySet DEF Sequences
<1>3. Left(a \o t) = l \o t /\ Sequences(a \o t) = Sequences(a) /\ a \o t \in Stream
  <2>1. NoneAcross(a, t) /\ Sequences(a) \in Nat /\ a \o t \in Stream
    BY <1>1, BeforeEscape, SequencesAre, StreamJoins
  <2>2. Left(a \o t) = Left(a) \o Left(t) /\ Sequences(a \o t) = Sequences(a) + Sequences(t)
    BY <2>1, LeftJoins
  <2> QED
    BY <1>2, <2>1, <2>2
<1>4. read \in Stream /\ Silent(read)
  <2>1. NoneAcross(l, t)
    BY <1>1, BeforeEscape
  <2> HIDE DEF l
  <2>2. \A i : i \in Mice(l \o t) <=> i \in Mice(l) \/ \E j \in Mice(t) : i = j + Len(l)
    BY <1>1, <2>1, MiceJoin
  <2>3. Mice(l) = {} /\ Clean(l)
    BY DEF Silent, l
  <2>4. Clean(l \o t)
    BY <1>1, <2>3, BeginningIsClean
  <2> QED
    BY <1>1, <1>2, <2>2, <2>3, <2>4, StreamJoins DEF Silent
<1>5. Filtered(a \o t) = read /\ ScrollEvents(a \o t) = Sequences(a)
  BY <1>3, <1>4, FilterIs DEF Filtered
<1>6. front \in Stream /\ tail \in Stream /\ read = front \o tail /\ tail = Cut(read)
  <2> HIDE DEF read
  <2>1. Filtered(a \o t) \in Stream
    BY <1>4, <1>5
  <2>2. /\ front \in Stream /\ tail \in Stream /\ Filtered(a \o t) = front \o tail
        /\ tail = Cut(Filtered(a \o t))
    BY <2>1, ReadParts, Zenon
  <2> QED
    BY <1>5, <2>2
<1> HIDE DEF l
<1>7. PICK g \in {<<>>, <<"E">>} : t = g \o Cut(l \o t)
  <2>1. Len(t) \in 1..8 /\ \A k \in 1..Len(t) : t[k] = SgrMouse[k]
    BY DEF Begins
  <2> QED
    BY <1>1, <2>1, CutFront
<1>8. t = g \o tail /\ g \in Stream
  BY <1>6, <1>7, SequenceTypes
<1>9. front \o tail = (l \o g) \o tail
  <2>1. front \o tail = l \o (g \o tail)
    BY <1>6, <1>8
  <2>2. l \in Stream /\ tail \in Stream
    BY <1>1, <1>6
  <2>3. (l \o g) \o tail = l \o (g \o tail)
    BY <1>8, <2>2, JoinedTwice, SMTT(40)
  <2> QED
    BY <2>1, <2>3
<1>10. front = l \o g
  <2>1. l \o g \in Stream
    BY <1>1, <1>8, StreamJoins
  <2> QED
    BY <1>6, <1>9, <2>1, SameFronts, Zenon
<1> QED
  BY <1>5, <1>6, <1>7, <1>8, <1>10 DEF l

(* Sequences joined in one order and in another.                           *)
Regrouped(a, b, d, e) ==
  /\ (a \o b) \o (d \o e) = a \o ((b \o d) \o e)
  /\ a \o (b \o (d \o e)) = ((a \o b) \o d) \o e

(* Three streams.                                                          *)
InAnyOrder(a, b, d) == (a \o b) \o d = a \o (b \o d)

(* They are joined in any order.                                           *)
LEMMA JoinedThree ==
  ASSUME NEW a \in Stream, NEW b \in Stream, NEW d \in Stream
  PROVE  InAnyOrder(a, b, d)
BY JoinedTwice DEF InAnyOrder

(* So are four.                                                            *)
LEMMA JoinedFour ==
  ASSUME NEW a \in Stream, NEW b \in Stream, NEW d \in Stream, NEW e \in Stream
  PROVE  Regrouped(a, b, d, e)
<1> DEFINE w == d \o e  v == a \o b  mid == b \o w
<1>1. w \in Stream /\ v \in Stream /\ (b \o d) \o e = mid
  BY StreamJoins
<1>2. a \o mid = v \o w
  <2> HIDE DEF w
  <2> QED
    BY <1>1, StreamJoins
<1>3. v \o w = (v \o d) \o e
  <2> HIDE DEF v
  <2> QED
    BY <1>1, StreamJoins
<1> QED
  BY <1>1, <1>2, <1>3 DEF Regrouped

(* A read that ends in a sequence.                                         *)
LEMMA ReadMiddle ==
  ASSUME NEW a \in Stream, NEW t \in Stream, NEW u \in Stream, NEW y \in Stream,
         t \o u = SgrMouse, Begins(t, SgrMouse),
         NEW got \in Stream, NEW keyed \in Stream, NEW n \in Nat, NEW m \in Nat,
         Silent(keyed), Flows((a \o t) \o (u \o y), got, keyed, n, m),
         NEW front, NEW tail, ReadAs(a \o t, front, tail)
  PROVE  Flows(tail \o (u \o y), got \o front, keyed, n + ScrollEvents(a \o t), m)
<1> DEFINE w == SgrMouse \o y  r == tail \o (u \o y)
<1>1. SgrMouse \in Stream /\ <<"E">> \in Stream /\ w \in Stream /\ u \o y \in Stream /\ a \o t \in Stream
  BY SequenceTypes, StreamJoins
<1>2. (a \o t) \o (u \o y) = a \o w
  <2>1. Regrouped(a, t, u, y)
    BY JoinedFour, Zenon
  <2> QED
    BY <2>1 DEF Regrouped
<1>3. /\ Escaped(a \o w) /\ n + Sequences(a \o w) = m
      /\ \E x \in Stream : keyed = x \o Left(a \o w) /\ Keys(x) = Keys(got)
  <2> HIDE DEF w
  <2>1. Flows(a \o w, got, keyed, n, m)
    BY <1>2
  <2> QED
    BY <2>1 DEF Flows
<1>4. PICK x \in Stream : keyed = x \o Left(a \o w) /\ Keys(x) = Keys(got)
  BY <1>3
<1>5. Escaped(w) /\ Escaped(a \o t)
  <2> HIDE DEF w
  <2>1. Escaped((a \o t) \o (u \o y))
    BY <1>2, <1>3
  <2> QED
    BY <1>1, <1>3, <2>1, EscapedParts
<1>6. /\ Left(w) = Left(y) /\ Sequences(w) = 1 + Sequences(y) /\ 1 \notin Mice(w)
      /\ Len(w) > 0 /\ w[1] = "E"
  BY <1>5, MouseThen
<1>7. Left(a \o w) = Left(a) \o Left(y) /\ Sequences(a \o w) = Sequences(a) + (1 + Sequences(y))
  <2> HIDE DEF w
  <2>1. NoneAcross(a, w)
    BY <1>1, <1>6, BeforeEscape
  <2>2. Left(a \o w) = Left(a) \o Left(w) /\ Sequences(a \o w) = Sequences(a) + Sequences(w)
    BY <1>1, <2>1, LeftJoins
  <2> QED
    BY <1>6, <2>2
<1>8. Left(a) \in Stream /\ Left(y) \in Stream /\ Sequences(a) \in Nat /\ Sequences(y) \in Nat
  BY LeftIs, SequencesAre
<1>9. Silent(Left(a))
  <2>1. Left(a) \o Left(y) \in Stream
    BY <1>8, StreamJoins
  <2>2. Silent(x \o (Left(a) \o Left(y)))
    BY <1>4, <1>7
  <2>3. Silent(Left(a) \o Left(y))
    BY <2>1, <2>2, SilentParts
  <2> QED
    BY <1>8, <2>3, SilentParts
<1>10. /\ ScrollEvents(a \o t) = Sequences(a) /\ tail \in Stream
       /\ \E g \in {<<>>, <<"E">>} : t = g \o tail /\ front = Left(a) \o g
  BY <1>5, <1>9, ReadUpTo
<1>11. PICK g \in {<<>>, <<"E">>} : t = g \o tail /\ front = Left(a) \o g
  BY <1>10
<1>12. g \in Stream /\ r \in Stream
  BY <1>1, <1>10, SequenceTypes, StreamJoins
<1>13. g \o r = w
  <2>1. tail \in Stream
    BY <1>10
  <2>2. Regrouped(g, tail, u, y)
    BY <1>12, <2>1, JoinedFour, Zenon
  <2> QED
    BY <1>11, <2>2 DEF Regrouped
<1> HIDE DEF r
<1>14. /\ Left(r) = Left(y) /\ Sequences(r) = 1 + Sequences(y) /\ Escaped(r)
       /\ 1 \in Mice(r) => EndsTorn(got \o front)
  <2>1. CASE g = <<>>
    <3>1. r = w
      BY <1>12, <1>13, <2>1, StreamJoins
    <3> QED
      BY <1>5, <1>6, <3>1
  <2>2. CASE g = <<"E">>
    <3>1. /\ Left(Body \o y) = Left(y) /\ Sequences(Body \o y) = 1 + Sequences(y)
          /\ Escaped(Body \o y) /\ Body \o y \in Stream /\ w = <<"E">> \o (Body \o y)
      BY <1>5, BodyThen
    <3>2. r = Body \o y
      <4>1. <<"E">> \o r = <<"E">> \o (Body \o y)
        BY <1>13, <2>2, <3>1
      <4> QED
        BY <1>1, <1>12, <3>1, <4>1, SameTails, Zenon
    <3>3. EndsTorn(got \o front)
      <4> DEFINE l == got \o Left(a)
      <4>1. l \in Stream /\ got \o front = l \o <<"E">>
        <5>1. (got \o Left(a)) \o <<"E">> = got \o (Left(a) \o <<"E">>)
          <6>1. InAnyOrder(got, Left(a), <<"E">>)
            BY <1>1, <1>8, JoinedThree, Zenon
          <6> QED
            BY <6>1 DEF InAnyOrder
        <5> QED
          BY <1>8, <1>11, <2>2, <5>1, StreamJoins
      <4> HIDE DEF l
      <4>2. EndsTorn(l \o <<"E">>)
        BY <4>1 DEF EndsTorn, Last, Stream
      <4> QED
        BY <4>1, <4>2
    <3> QED
      BY <3>1, <3>2, <3>3
  <2> QED
    BY <2>1, <2>2
<1> DEFINE before == x \o Left(a)
<1>15. before \in Stream /\ keyed = before \o Left(r)
  <2>1. (x \o Left(a)) \o Left(y) = x \o (Left(a) \o Left(y))
    BY <1>8, JoinedTwice, ZenonT(60)
  <2> QED
    BY <1>4, <1>7, <1>8, <1>14, <2>1, StreamJoins
<1>16. Keys(before) = Keys(got \o front)
  <2>1. Keys(x \o Left(a)) = Keys(x) \o Keys(Left(a))
    BY <1>8, KeysJoin, Zenon
  <2>2. Left(a) \o g \in Stream /\ Keys(Left(a) \o g) = Keys(Left(a)) \o Keys(g)
    BY <1>8, <1>12, KeysJoin, StreamJoins
  <2>3. Keys(g) = <<>> /\ Keys(Left(a)) \in Stream
    BY <1>8, <1>12, NoKeys, KeysJoin
  <2>4. Keys(Left(a)) \o <<>> = Keys(Left(a))
    BY <2>3, StreamJoins
  <2>5. Keys(got \o (Left(a) \o g)) = Keys(got) \o Keys(Left(a) \o g)
    BY <2>2, KeysJoin, Zenon
  <2> QED
    BY <1>4, <1>11, <2>1, <2>2, <2>3, <2>4, <2>5
<1>17. (n + ScrollEvents(a \o t)) + Sequences(r) = m
  BY <1>3, <1>7, <1>8, <1>10, <1>14
<1> HIDE DEF before
<1>18. Flows(r, got \o front, keyed, n + ScrollEvents(a \o t), m)
  BY <1>14, <1>15, <1>16, <1>17 DEF Flows
<1> QED
  BY <1>18 DEF r

----------------------------------------------------------------------------
(* The invariant of the filter, and what each step makes of it.            *)

(* Whatever is read, wherever the read ends.                               *)
LEMMA FlowRead ==
  ASSUME NEW raw \in Stream, NEW rest \in Stream, NEW got \in Stream, NEW keyed \in Stream,
         NEW n \in Nat, NEW m \in Nat, Silent(keyed), raw # <<>>,
         Flows(raw \o rest, got, keyed, n, m), ~(raw = <<"[">> /\ EndsTorn(got)),
         NEW front, NEW tail, ReadAs(raw, front, tail)
  PROVE  Flows(tail \o rest, got \o front, keyed, n + ScrollEvents(raw), m)
<1>1. CASE NoneAcross(raw, rest)
  BY <1>1, ReadWhole
<1>2. CASE ~NoneAcross(raw, rest)
  <2>1. PICK i \in Mice(raw \o rest) : i <= Len(raw) + 1 /\ i + 7 > Len(raw)
    BY <1>2 DEF NoneAcross
  <2>2. Escaped(raw \o rest) /\ i \in Nat /\ i > 0 /\ Len(raw) \in Nat
    <3>1. raw \o rest \in Seq(Signs) /\ raw \in Seq(Signs)
      BY StreamJoins DEF Stream
    <3>2. i \in 1..Len(raw \o rest) /\ Len(raw \o rest) \in Nat
      <4> DEFINE v == raw \o rest
      <4>1. v \in Seq(Signs) /\ i \in Mice(v)
        BY <2>1, <3>1
      <4> HIDE DEF v
      <4>2. i \in 1..Len(v) /\ Len(v) \in Nat
        BY <4>1, MiceAre
      <4> QED
        BY <4>2 DEF v
    <3>3. Escaped(raw \o rest)
      BY DEF Flows
    <3> QED
      BY <3>1, <3>2, <3>3
  <2>3. CASE i = 1
    <3>1. Len(raw) < 8
      BY <2>1, <2>2, <2>3
    <3> QED
      BY <2>1, <2>3, <3>1, ReadFront
  <2>4. CASE i > 1
    <3>1. PICK a, t, u, y \in Stream :
            raw = a \o t /\ rest = u \o y /\ t \o u = SgrMouse /\ Begins(t, SgrMouse)
      <4>1. CutInTwo(raw, rest)
        BY <2>1, <2>2, <2>4, SplitMouse
      <4> QED
        BY <4>1 DEF CutInTwo
    <3> QED
      BY <3>1, ReadMiddle
  <2> QED
    BY <2>2, <2>3, <2>4
<1> QED
  BY <1>1, <1>2

(* Whatever is read, the filter makes sequences of signs of it.            *)
LEMMA FilterTypes ==
  ASSUME NEW raw \in Stream
  PROVE  Filtered(raw) \in Stream /\ ScrollEvents(raw) \in Nat
<1>1. ASSUME NEW s \in Stream, NEW places
      PROVE  Outside(s, places) \in Stream
  BY GapsAre DEF Stream
<1>2. ASSUME NEW s \in Stream, NEW places \in SUBSET (DOMAIN s)
      PROVE  Cardinality(places) \in Nat
  <2>1. DOMAIN s = 1..Len(s) /\ Len(s) \in Nat
    BY DEF Stream
  <2>2. IsFiniteSet(1..Len(s))
    BY <2>1, FS_Interval
  <2> QED
    BY <2>1, <2>2, FS_Subset, FS_CardinalityType
<1>3. StripMouseSequences(raw) \in Stream
  BY <1>1 DEF StripMouseSequences
<1>4. Filtered(raw) \in Stream
  BY <1>1, <1>3 DEF Filtered, StripOrphanMouseBodies, StripOldBodies, Without
<1> DEFINE without == Without(raw, SgrMouse)
           rest == Outside(without, Stretches(OldMouse(without), 6))
           old == {i \in OldMouse(raw) : raw[i + 3] \in WheelButtons /\ Plausible(raw, i + 4)}
           odd == {i \in Leftmost(OldBody(rest), 5) :
                     rest[i + 2] \in WheelButtons /\ Plausible(rest, i + 3)}
<1>5. without \in Stream /\ rest \in Stream
  BY <1>1 DEF Without
<1>6. ScrollEvents(raw) = Cardinality(Occurrences(raw, SgrMouse)) + Cardinality(Occurrences(rest, Body))
                          + Cardinality(old) + Cardinality(odd)
  BY DEF ScrollEvents
<1>7. old \in SUBSET (DOMAIN raw)
  BY DEF OldMouse, Occurrences
<1> HIDE DEF rest, without, old
<1>8. odd \in SUBSET (DOMAIN rest)
  BY DEF Leftmost, OldBody, Occurrences
<1> HIDE DEF odd
<1>9. /\ Occurrences(raw, SgrMouse) \in SUBSET (DOMAIN raw)
      /\ Occurrences(rest, Body) \in SUBSET (DOMAIN rest)
  BY DEF Occurrences
<1>10. /\ Cardinality(Occurrences(raw, SgrMouse)) \in Nat /\ Cardinality(Occurrences(rest, Body)) \in Nat
       /\ Cardinality(old) \in Nat /\ Cardinality(odd) \in Nat
  BY <1>2, <1>5, <1>7, <1>8, <1>9
<1> QED
  BY <1>4, <1>6, <1>10

(* The types of what the filter keeps.                                     *)
MouseTypes ==
  /\ stream \in Stream /\ given \in Stream /\ typedIn \in Stream /\ held \in Holds
  /\ scrolls \in Nat /\ wheel \in Nat

(* What was read and not handed on, and what is still to be read, makes up *)
(* what is missing at the input line and at the scroll handler.            *)
MouseInv ==
  /\ MouseTypes
  /\ ~torn /\ Silent(typedIn) => Flows(held \o stream, given, typedIn, scrolls, wheel)

(* At first nothing was sent.                                              *)
LEMMA NothingFlows ==
  /\ Flows(<<>>, <<>>, <<>>, 0, 0) /\ <<>> \in Stream /\ <<>> \in Holds /\ Mice(<<>>) = {}
  /\ Left(<<>>) = <<>> /\ Sequences(<<>>) = 0 /\ <<>> \o <<>> = <<>>
<1>1. <<>> \in Stream /\ <<>> \in Holds
  BY SequenceTypes, HoldTypes
<1>2. Mice(<<>>) = {}
  BY <1>1 DEF Holds
<1>3. Left(<<>>) = <<>> /\ Sequences(<<>>) = 0 /\ Escaped(<<>>)
  BY <1>1, <1>2, LeftIs, FS_EmptySet DEF Sequences, Escaped
<1>4. <<>> \o <<>> = <<>>
  BY <1>1, StreamJoins
<1> QED
  BY <1>1, <1>2, <1>3, <1>4 DEF Flows

(* The invariant holds at first.                                           *)
LEMMA MouseStarts == MouseInit => MouseInv
<1> SUFFICES ASSUME MouseInit PROVE MouseInv
  OBVIOUS
<1>1. /\ stream = <<>> /\ held = <<>> /\ given = <<>> /\ scrolls = 0 /\ typedIn = <<>>
      /\ wheel = 0
  BY DEF MouseInit
<1>2. MouseTypes
  BY <1>1, NothingFlows DEF MouseTypes
<1>3. Flows(held \o stream, given, typedIn, scrolls, wheel)
  BY <1>1, NothingFlows
<1> QED
  BY <1>2, <1>3 DEF MouseInv

(* When all is read, it says that the keys and the steps of the wheel have *)
(* arrived.                                                                *)
LEMMA MouseMeans == MouseInv => WheelIsNotTyped
<1> SUFFICES ASSUME MouseInv, stream = <<>>, ~torn, ~LooksLikeMouse(typedIn)
             PROVE  Keys(given \o held) = Keys(typedIn) /\ scrolls = wheel
  BY DEF WheelIsNotTyped
<1>0. Silent(typedIn)
  <2>1. typedIn \in Stream
    BY DEF MouseInv, MouseTypes
  <2>2. /\ Mice(typedIn) = {} /\ Occurrences(typedIn, UrxvtMouse) = {} /\ OldMouse(typedIn) = {}
        /\ \A i \in OldBody(typedIn) : ~Plausible(typedIn, i + 3)
    BY DEF LooksLikeMouse, Mice
  <2>3. Clean(typedIn)
    BY <2>1, <2>2, CleanFinds
  <2> QED
    BY <2>2, <2>3 DEF Silent
<1>1. /\ given \in Stream /\ typedIn \in Stream /\ held \in Stream /\ Mice(held) = {}
      /\ scrolls \in Nat /\ wheel \in Nat
  BY DEF Holds, MouseInv, MouseTypes
<1>2. held \o stream = held
  BY <1>1, StreamJoins
<1>3. Flows(held, given, typedIn, scrolls, wheel)
  BY <1>0, <1>2 DEF MouseInv
<1>4. Left(held) = held /\ Sequences(held) = 0
  BY <1>1, LeftIs, FS_EmptySet DEF Sequences
<1>5. PICK x \in Stream : typedIn = x \o held /\ Keys(x) = Keys(given)
  BY <1>3, <1>4 DEF Flows
<1>6. scrolls + 0 = wheel
  BY <1>3, <1>4 DEF Flows
<1>7. Keys(x \o held) = Keys(x) \o Keys(held)
  BY <1>1, KeysJoin, Zenon
<1>8. Keys(given \o held) = Keys(given) \o Keys(held)
  BY <1>1, KeysJoin, Zenon
<1> QED
  BY <1>1, <1>5, <1>6, <1>7, <1>8

(* A key is part of a stream.                                              *)
LEMMA KeysAreStreams ==
  ASSUME NEW key \in Typed
  PROVE  key \in Stream
<1> DEFINE all == UNION {{k[i] : i \in DOMAIN k} : k \in Typed}
<1>1. all \subseteq Signs
  BY Zenon DEF Signs
<1>2. key \in Seq(all)
  BY MouseAssumption
<1> HIDE DEF all
<1> QED
  BY <1>1, <1>2 DEF Stream

(* A key that is typed.                                                    *)
LEMMA TypeKeeps ==
  ASSUME MouseInv, NEW key \in Typed, Type(key)
  PROVE  MouseInv'
<1>1. /\ stream' = stream \o key /\ typedIn' = typedIn \o key /\ held' = held /\ given' = given
      /\ scrolls' = scrolls /\ wheel' = wheel /\ torn' = torn
  BY DEF Type
<1>2. /\ stream \in Stream /\ given \in Stream /\ typedIn \in Stream /\ held \in Holds
      /\ held \in Stream /\ scrolls \in Nat /\ wheel \in Nat /\ key \in Stream
  BY KeysAreStreams DEF Holds, MouseInv, MouseTypes
<1>3. MouseTypes'
  BY <1>1, <1>2, StreamJoins DEF MouseTypes
<1>4. ASSUME ~torn, Silent(typedIn \o key)
      PROVE  Flows(held \o (stream \o key), given, typedIn \o key, scrolls, wheel)
  <2>1. Silent(typedIn) /\ Mice(typedIn \o key) = {}
    BY <1>2, <1>4, SilentParts DEF Silent
  <2>2. Flows(held \o stream, given, typedIn, scrolls, wheel)
    BY <1>4, <2>1 DEF MouseInv
  <2>3. held \o stream \in Stream
    BY <1>2, StreamJoins
  <2>4. Flows((held \o stream) \o key, given, typedIn \o key, scrolls, wheel)
    BY <1>2, <2>1, <2>2, <2>3, FlowTyped, Zenon
  <2>5. InAnyOrder(held, stream, key)
    BY <1>2, JoinedThree, Zenon
  <2> QED
    BY <2>4, <2>5 DEF InAnyOrder
<1> QED
  BY <1>1, <1>3, <1>4 DEF MouseInv

(* A step of the wheel.                                                    *)
LEMMA TurnWheelKeeps ==
  ASSUME MouseInv, TurnWheel
  PROVE  MouseInv'
<1>1. /\ stream' = stream \o SgrMouse /\ typedIn' = typedIn /\ held' = held /\ given' = given
      /\ scrolls' = scrolls /\ wheel' = wheel + 1 /\ torn' = torn
  BY DEF TurnWheel
<1>2. /\ stream \in Stream /\ given \in Stream /\ typedIn \in Stream /\ held \in Holds
      /\ held \in Stream /\ scrolls \in Nat /\ wheel \in Nat /\ SgrMouse \in Stream
  BY SequenceTypes DEF Holds, MouseInv, MouseTypes
<1>3. MouseTypes'
  BY <1>1, <1>2, StreamJoins DEF MouseTypes
<1>4. ASSUME ~torn, Silent(typedIn)
      PROVE  Flows(held \o (stream \o SgrMouse), given, typedIn, scrolls, wheel + 1)
  <2>1. Flows(held \o stream, given, typedIn, scrolls, wheel)
    BY <1>4 DEF MouseInv
  <2>2. held \o stream \in Stream
    BY <1>2, StreamJoins
  <2>3. Flows((held \o stream) \o SgrMouse, given, typedIn, scrolls, wheel + 1)
    BY <1>2, <2>1, <2>2, FlowTurned, Zenon
  <2>4. InAnyOrder(held, stream, SgrMouse)
    BY <1>2, JoinedThree, Zenon
  <2> QED
    BY <2>3, <2>4 DEF InAnyOrder
<1> QED
  BY <1>1, <1>3, <1>4 DEF MouseInv

(* A read, wherever it ends.                                               *)
LEMMA FilterChunkKeeps ==
  ASSUME MouseInv, FilterChunk
  PROVE  MouseInv'
<1>1. PICK size \in 1..Len(stream) :
        LET raw == held \o SubSeq(stream, 1, size)
            filtered == StripOrphanMouseBodies(StripMouseSequences(raw))
        IN /\ stream' = SubSeq(stream, size + 1, Len(stream))
           /\ held' = Cut(filtered)
           /\ given' = given \o SubSeq(filtered, 1, Len(filtered) - Len(Cut(filtered)))
           /\ scrolls' = scrolls + ScrollEvents(raw)
           /\ torn' = (torn \/ (raw = <<"[">> /\ given # <<>> /\ Last(given) = "E"))
           /\ UNCHANGED <<typedIn, wheel, strokes>>
  BY DEF FilterChunk
<1> DEFINE chunk == SubSeq(stream, 1, size)  rest == SubSeq(stream, size + 1, Len(stream))
           raw == held \o chunk  tail == Cut(Filtered(raw))
           front == SubSeq(Filtered(raw), 1, Len(Filtered(raw)) - Len(Cut(Filtered(raw))))
<1>2. /\ stream' = rest /\ held' = tail /\ given' = given \o front
      /\ scrolls' = scrolls + ScrollEvents(raw) /\ typedIn' = typedIn /\ wheel' = wheel
      /\ torn' = (torn \/ (raw = <<"[">> /\ EndsTorn(given)))
  BY <1>1 DEF Filtered, EndsTorn
<1>3. /\ stream \in Stream /\ given \in Stream /\ typedIn \in Stream /\ held \in Stream
      /\ scrolls \in Nat /\ wheel \in Nat
  BY DEF Holds, MouseInv, MouseTypes
<1>4. /\ chunk \in Stream /\ rest \in Stream /\ stream = chunk \o rest /\ chunk # <<>>
  <2>1. size \in 0..Len(stream) /\ size # 0
    BY <1>3 DEF Stream
  <2>2. stream \in Seq(Signs)
    BY <1>3 DEF Stream
  <2>3. /\ chunk \in Seq(Signs) /\ rest \in Seq(Signs) /\ stream = chunk \o rest /\ Len(chunk) = size
    BY <2>1, <2>2, CutAt, Zenon
  <2> QED
    BY <2>1, <2>3 DEF Stream
<1> HIDE DEF chunk, rest
<1>5. raw \in Stream /\ raw # <<>>
  <2>1. raw \in Stream /\ Len(raw) = Len(held) + Len(chunk) /\ Len(held) \in Nat /\ Len(chunk) \in Nat
    BY <1>3, <1>4, JoinedPlaces DEF Stream
  <2>2. Len(chunk) # 0
    BY <1>4 DEF Stream
  <2> QED
    BY <2>1, <2>2
<1>6. InAnyOrder(held, chunk, rest)
  BY <1>3, <1>4, JoinedThree, Zenon
<1>7. raw \o rest = held \o stream
  BY <1>4, <1>6 DEF InAnyOrder
<1>8. ReadAs(raw, front, tail)
  BY DEF ReadAs
<1> HIDE DEF raw, front, tail
<1>9. front \in Stream /\ tail \in Holds /\ ScrollEvents(raw) \in Nat
  <2>1. Filtered(raw) \in Stream /\ ScrollEvents(raw) \in Nat
    BY <1>5, FilterTypes, Zenon
  <2>2. front \in Stream /\ tail \in Holds
    BY <1>8, <2>1, ReadParts, Zenon
  <2> QED
    BY <2>1, <2>2
<1>10. MouseTypes'
  BY <1>2, <1>3, <1>4, <1>9, StreamJoins DEF MouseTypes
<1>11. ASSUME ~torn', Silent(typedIn)
       PROVE  Flows(tail \o rest, given \o front, typedIn, scrolls + ScrollEvents(raw), wheel)
  <2>1. ~torn /\ ~(raw = <<"[">> /\ EndsTorn(given))
    BY <1>2, <1>11
  <2>2. Flows(raw \o rest, given, typedIn, scrolls, wheel)
    BY <1>7, <1>11, <2>1 DEF MouseInv
  <2> QED
    BY <1>3, <1>4, <1>5, <1>8, <1>11, <2>1, <2>2, FlowRead, Zenon
<1> QED
  BY <1>2, <1>10, <1>11 DEF MouseInv

(* Every step keeps the invariant.                                         *)
LEMMA MouseKeeps == MouseInv /\ [MouseNext]_mouseVars => MouseInv'
<1> SUFFICES ASSUME MouseInv, [MouseNext]_mouseVars PROVE MouseInv'
  OBVIOUS
<1>1. CASE \E key \in Typed : Type(key)
  BY <1>1, TypeKeeps
<1>2. CASE TurnWheel
  BY <1>2, TurnWheelKeeps
<1>3. CASE FilterChunk
  BY <1>3, FilterChunkKeeps
<1>4. CASE UNCHANGED mouseVars
  BY <1>4 DEF mouseVars, MouseInv, MouseTypes
<1> QED
  BY <1>1, <1>2, <1>3, <1>4 DEF MouseNext

(* What the user writes arrives as it was meant: a draft is sent with      *)
(* every pasted text where it was pasted, as long as the keys leave its    *)
(* placeholder whole, and wherever the reads cut the stream, the keys      *)
(* arrive and nothing of a mouse sequence does but perhaps its escape      *)
(* character, unless the keys spell one of the forms the filter takes for  *)
(* a sequence, whatever the texts and the keys are and however many there  *)
(* are.                                                                    *)
THEOREM WrittenAsMeant == Spec => []InputIsMeant
<1>1. Init => ComposerInv /\ MouseInv
  BY ComposerStarts, MouseStarts DEF Init
<1>2. ComposerInv /\ MouseInv /\ [Next]_terminal => (ComposerInv /\ MouseInv)'
  <2>1. [Next]_terminal => [ComposerNext]_composerVars /\ [MouseNext]_mouseVars
    BY DEF Next, terminal, PromptStep, FeedStep, DraftStep, MouseStep, ScreenStep
  <2> QED
    BY <2>1, ComposerKeeps, MouseKeeps
<1>3. ComposerInv /\ MouseInv => InputIsMeant
  BY ComposerMeans, MouseMeans DEF InputIsMeant
<1> QED
  BY <1>1, <1>2, <1>3, PTL DEF Spec
=============================================================================
