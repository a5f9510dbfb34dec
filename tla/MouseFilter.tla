----------------------------- MODULE MouseFilter -----------------------------
(***************************************************************************)
(* The filter between the terminal and the input line (tui/stdin-filter.ts): *)
(* the terminal reports the wheel as SGR sequences in the middle of what   *)
(* the user types, a read of stdin may cut the stream anywhere, and the    *)
(* filter must take the sequences out, turn each into one step of          *)
(* scrolling, and hand on everything else.                                 *)
(*                                                                         *)
(* The filter knows two more forms, which a terminal does not send in the  *)
(* mode that is switched on: the one of old terminals, with a sign each    *)
(* for the button, the column and the row, and the one of urxvt.  What it  *)
(* takes for them was typed.                                               *)
(*                                                                         *)
(* A number is one character "n": a cut inside a number and one after it   *)
(* look alike to the filter.  Those the user types have one digit.  Every  *)
(* sequence is a step of the wheel; a click has other numbers and scrolls  *)
(* nothing.                                                                *)
(***************************************************************************)
EXTENDS Naturals, Sequences, FiniteSets, SequencesExt

CONSTANTS
  Typed,         \* what a key of the user sends, as a sequence of characters
  OrphanButtons, \* characters of the old form for the buttons 0 to 3, 64 and 65
  WheelButtons,  \* those for the wheel: 64 and 65, and with ctrl 68 and 69
  Columns, Rows, \* those for a column and a row the terminal has
  MaxStrokes,    \* bound on keys and steps of the wheel
  MaxWheel       \* bound on steps of the wheel

ASSUME MouseAssumption ==
  /\ MaxStrokes \in Nat /\ MaxWheel \in Nat
  /\ "E" \notin OrphanButtons \cup Columns \cup Rows
  /\ Typed \subseteq Seq(UNION {{key[i] : i \in DOMAIN key} : key \in Typed})

\* The stream, character by character.
Body == <<"[", "<", "n", ";", "n", ";", "n", "M">>
SgrMouse == <<"E">> \o Body
UrxvtMouse == <<"E", "[", "n", ";", "n", ";", "n", "M">>

VARIABLES
  stream,   \* what the terminal has sent and nobody has read
  held,     \* pendingBuffer
  given,    \* what was handed on to the input line
  scrolls,  \* steps the scroll handler was told of
  typedIn,  \* what the user typed
  wheel,    \* steps of the wheel the terminal reported
  torn,     \* an escape character was handed on and the next read was a bracket alone
  strokes

mouseVars == <<stream, held, given, scrolls, typedIn, wheel, torn, strokes>>

MouseInit ==
  /\ stream = <<>> /\ held = <<>> /\ given = <<>> /\ scrolls = 0 /\ typedIn = <<>>
  /\ wheel = 0 /\ torn = FALSE /\ strokes = 0

-----------------------------------------------------------------------------
(* Regular expressions *)

StartsWith(s, i, pattern) ==
  i + Len(pattern) - 1 <= Len(s) /\ SubSeq(s, i, i + Len(pattern) - 1) = pattern

\* Where the pattern occurs, from the left; the patterns do not overlap themselves.
Occurrences(s, pattern) == {i \in DOMAIN s : StartsWith(s, i, pattern)}

Stretches(places, width) == UNION {i..(i + width - 1) : i \in places}

\* What is left of s outside of some places.
Outside(s, places) == FlattenSeq([i \in DOMAIN s |-> IF i \in places THEN <<>> ELSE <<s[i]>>])

\* s.replace(pattern, ""), for all occurrences.
Without(s, pattern) == Outside(s, Stretches(Occurrences(s, pattern), Len(pattern)))

\* The old form: three characters from k on, none of them an escape character.
Triple(s, k) == k + 2 <= Len(s) /\ \A j \in k..(k + 2) : s[j] # "E"
OldMouse(s) == {i \in Occurrences(s, <<"E", "[", "M">>) : Triple(s, i + 3)}
OldBody(s) == {i \in Occurrences(s, <<"[", "M">>) : Triple(s, i + 2) /\ s[i + 2] \in OrphanButtons}

\* isPlausibleDec1000MouseBody, of the column and the row from k on
Plausible(s, k) == s[k] \in Columns /\ s[k + 1] \in Rows

\* A match hides those that begin in it.
Leftmost(places, width) ==
  LET taken[i \in places] == \A j \in places : j < i /\ i < j + width => ~taken[j]
  IN {i \in places : taken[i]}

StripMouseSequences(s) ==
  Outside(s, Stretches(Occurrences(s, SgrMouse), Len(SgrMouse)) \cup Stretches(OldMouse(s), 6)
             \cup Stretches(Occurrences(s, UrxvtMouse), Len(UrxvtMouse)))

\* Mutant: "[Maybe]" is taken for one.
StripsAny(s) == Outside(s, Stretches(Leftmost(OldBody(s), 5), 5))
StripOldBodies(s) ==
  Outside(s, Stretches({i \in Leftmost(OldBody(s), 5) : Plausible(s, i + 3)}, 5))

\* Mutant: what has lost its escape character is not taken for a sequence.
LeavesBodies(s) == StripOldBodies(s)
StripOrphanMouseBodies(s) == StripOldBodies(Without(s, Body))

\* extractScrollEvents: the whole sequences, and then the bodies without an escape
\* character in what remains.
ScrollEvents(s) ==
  LET without == Without(s, SgrMouse)
      rest == Outside(without, Stretches(OldMouse(without), 6))
  IN Cardinality(Occurrences(s, SgrMouse)) + Cardinality(Occurrences(rest, Body))
     + Cardinality({i \in OldMouse(s) : s[i + 3] \in WheelButtons /\ Plausible(s, i + 4)})
     + Cardinality({i \in Leftmost(OldBody(rest), 5) :
                      rest[i + 2] \in WheelButtons /\ Plausible(rest, i + 3)})

\* The ends a sequence may have been cut to, in the order they are tried.
IncompleteMousePrefix ==
  {<<"E", "[">>, <<"E", "[", "<">>, <<"E", "[", "<", "n", ";">>,
   <<"E", "[", "<", "n", ";", "n", ";">>, <<"E", "[", "<", "n", ";", "n", ";", "n">>}
IncompleteOrphanBody ==
  {<<"[", "<">> \o a \o b \o c :
     a \in {<<>>, <<"n">>}, b \in {<<>>, <<";">>, <<";", "n">>}, c \in {<<>>, <<";">>, <<";", "n">>}}

EndOf(s, patterns) ==
  {p \in patterns : Len(p) <= Len(s) /\ SubSeq(s, Len(s) - Len(p) + 1, Len(s)) = p}

\* Up to two characters behind the M of the old form.
Rest(s, i) == SubSeq(s, i, Len(s))
IncompleteOldMouse(s) ==
  {Rest(s, i) : i \in {j \in Occurrences(s, <<"E", "[", "M">>) :
                         Len(s) <= j + 4 /\ \A k \in (j + 3)..Len(s) : s[k] # "E"}}
IncompleteOldBody(s) ==
  {Rest(s, i) : i \in {j \in Occurrences(s, <<"[", "M">>) :
                         /\ Len(s) <= j + 3 /\ \A k \in (j + 2)..Len(s) : s[k] # "E"
                         /\ Len(s) > j + 1 => s[j + 2] \in OrphanButtons}}

Longest(set) == CHOOSE p \in set : \A q \in set : Len(q) <= Len(p)

Cut(s) ==
  IF EndOf(s, IncompleteMousePrefix) # {} THEN Longest(EndOf(s, IncompleteMousePrefix))
  ELSE IF EndOf(s, IncompleteOrphanBody) # {} THEN Longest(EndOf(s, IncompleteOrphanBody))
  ELSE IF IncompleteOldMouse(s) # {} THEN Longest(IncompleteOldMouse(s))
  ELSE IF IncompleteOldBody(s) # {} THEN Longest(IncompleteOldBody(s))
  ELSE <<>>

-----------------------------------------------------------------------------
Type(key) ==
  /\ strokes < MaxStrokes
  /\ stream' = stream \o key /\ typedIn' = typedIn \o key /\ strokes' = strokes + 1
  /\ UNCHANGED <<held, given, scrolls, wheel, torn>>

TurnWheel ==
  /\ strokes < MaxStrokes /\ wheel < MaxWheel
  /\ stream' = stream \o SgrMouse /\ wheel' = wheel + 1 /\ strokes' = strokes + 1
  /\ UNCHANGED <<held, given, scrolls, typedIn, torn>>

\* One read of stdin and filterChunk on what it returned.
FilterChunk ==
  \E size \in 1..Len(stream) :
    LET raw == held \o SubSeq(stream, 1, size)
        filtered == StripOrphanMouseBodies(StripMouseSequences(raw))
    IN /\ stream' = SubSeq(stream, size + 1, Len(stream))
       /\ held' = Cut(filtered)
       /\ given' = given \o SubSeq(filtered, 1, Len(filtered) - Len(Cut(filtered)))
       /\ scrolls' = scrolls + ScrollEvents(raw)
       /\ torn' = (torn \/ (raw = <<"[">> /\ given # <<>> /\ Last(given) = "E"))
       /\ UNCHANGED <<typedIn, wheel, strokes>>

MouseNext == (\E key \in Typed : Type(key)) \/ TurnWheel \/ FilterChunk

-----------------------------------------------------------------------------
Keys(s) == Outside(s, {i \in DOMAIN s : s[i] = "E"})

\* What the filter takes for a sequence, or for one without its escape character.
LooksLikeMouse(s) ==
  \/ Occurrences(s, Body) # {} \/ Occurrences(s, UrxvtMouse) # {} \/ OldMouse(s) # {}
  \/ \E i \in OldBody(s) : Plausible(s, i + 3)

\* However the reads cut the stream: once all is read, the input line has got the keys of
\* the user, but for a beginning of a sequence that waits for what comes next, and nothing
\* of a mouse sequence but perhaps its escape character, and every step of the wheel has
\* scrolled once.  A sequence cut both before and after its bracket is one exception:
\* nothing holds a bracket that stands alone.  The other is a user who types what looks
\* like a sequence: stdin-filter.ts:44 takes it that nobody does, but of the old form
\* "[M #1" is one.
WheelIsNotTyped ==
  stream = <<>> /\ ~torn /\ ~LooksLikeMouse(typedIn) =>
    Keys(given \o held) = Keys(typedIn) /\ scrolls = wheel

\* No escape character of a mouse sequence reaches the input line, where it would close a
\* dialog.  ("Patch stdin.read() ... covers all mouse protocols", and the buffer is there
\* for sequences that are split.)  It does when a read ends after the escape character.
NoStrayEscape == stream = <<>> => given \o held = typedIn
=============================================================================
