------------------------------- MODULE Composer -------------------------------
(***************************************************************************)
(* The input line of the workbench (tui/components/OrcanaComposer.tsx): a  *)
(* long text that is pasted is put aside and stands in the draft as a      *)
(* placeholder until the draft is sent, drafts are kept with their texts   *)
(* and can be brought back, and a draft that begins with a slash opens the *)
(* menu of the commands.                                                   *)
(*                                                                         *)
(* The placeholder PASTE:n is written P, #, n; a letter P is the only way  *)
(* in which a pasted text can look like its beginning.  The user types,    *)
(* deletes and pastes at either end of the draft.  Which command of the    *)
(* menu is selected is left out, and so is white space.                    *)
(***************************************************************************)
EXTENDS Naturals, Sequences, FiniteSets, SequencesExt

CONSTANTS
  Letters,      \* characters a key types
  Texts,        \* texts long enough to be put aside
  HistoryLimit, \* 50: what history.slice keeps
  MaxPastes,    \* bound on the pastes, at most 9
  MaxEdits      \* bound on the keys and pastes

Digits == <<"1", "2", "3", "4", "5", "6", "7", "8", "9">>
IsDigit(c) == c \in {Digits[i] : i \in 1..9}

\* What a draft is made of: keys, pasted texts, placeholders and names of commands.
Characters ==
  Letters \cup {"P", "#", "/", "c"} \cup {Digits[i] : i \in 1..9}
  \cup UNION {{text[i] : i \in DOMAIN text} : text \in Texts}

ASSUME ComposerAssumption ==
  /\ HistoryLimit \in Nat /\ MaxPastes \in 0..9 /\ MaxEdits \in Nat
  /\ Texts \subseteq Seq(Characters)

VARIABLES
  value, pasteBlocks, nextPasteId,
  history,    \* drafts that were sent: [draft, blocks, meant]
  historyIdx, \* the one on display, 0 for -1
  savedDraft, \* the draft history was entered from, a sequence of at most one
  dismissed,  \* commandsDismissed
  closedFor,  \* dismissedSlashQueryRef, a sequence of at most one
  meant,      \* what the user wrote and pasted, in full
  touched,    \* a change made a placeholder of what was none, or broke one
  edits

composerVars == <<value, pasteBlocks, nextPasteId, history, historyIdx, savedDraft,
                  dismissed, closedFor, meant, touched, edits>>

ComposerInit ==
  /\ value = <<>> /\ pasteBlocks = <<>> /\ nextPasteId = 1 /\ history = <<>>
  /\ historyIdx = 0 /\ savedDraft = <<>> /\ dismissed = FALSE /\ closedFor = <<>>
  /\ meant = <<>> /\ touched = FALSE /\ edits = 0

-----------------------------------------------------------------------------
(* Placeholders *)

PasteToken(id) == <<"P", "#", Digits[id]>>

\* A placeholder begins at i and ends before j: \d+ takes every digit there is.
TokenAt(s, i, j) ==
  /\ i + 2 < j /\ j <= Len(s) + 1 /\ s[i] = "P" /\ s[i + 1] = "#"
  /\ \A k \in (i + 2)..(j - 1) : IsDigit(s[k])
  /\ j = Len(s) + 1 \/ ~IsDigit(s[j])

\* The placeholders of a draft, and those of a draft that has moved by n places.
Tokens(s) == {t \in (DOMAIN s) \X (1..(Len(s) + 1)) : TokenAt(s, t[1], t[2])}
Moved(tokens, n) == {<<t[1] + n, t[2] + n>> : t \in tokens}

TextOf(number, blocks) ==
  LET of == {b \in DOMAIN blocks : number = <<Digits[blocks[b].id]>>} IN
  IF of = {} THEN <<>>
  ELSE blocks[CHOOSE b \in of : \A c \in of : c <= b].text

\* expandDraft: what replace makes of each place of the draft.
Replaced(s, tokens, blocks, i) ==
  IF \E t \in tokens : t[1] = i
    THEN LET t == CHOOSE t \in tokens : t[1] = i
         IN TextOf(SubSeq(s, i + 2, t[2] - 1), blocks)
  ELSE IF \E t \in tokens : t[1] < i /\ i < t[2] THEN <<>>
  ELSE <<s[i]>>

Expand(s, blocks) ==
  LET tokens == Tokens(s)
  IN FlattenSeq([i \in DOMAIN s |-> Replaced(s, tokens, blocks, i)])

CommonPrefix(s, t) ==
  CHOOSE n \in 0..Len(s) :
    /\ n <= Len(t) /\ SubSeq(s, 1, n) = SubSeq(t, 1, n)
    /\ n = Len(s) \/ n = Len(t) \/ s[n + 1] # t[n + 1]

\* findInsertedText: from where to where the new text is, by what both have in common.
InsertedAt(old, new) ==
  LET prefix == CommonPrefix(old, new)
      suffix == CommonPrefix(Reverse(SubSeq(old, prefix + 1, Len(old))),
                             Reverse(SubSeq(new, prefix + 1, Len(new))))
  IN <<prefix + 1, Len(new) - suffix>>

\* What sets the draft and the texts put aside to something else at once.
Show(draft, blocks, full) == value' = draft /\ pasteBlocks' = blocks /\ meant' = full

-----------------------------------------------------------------------------
(* The menu of the commands *)

IsCommand(s) == s # <<>> /\ s[1] = "/"
SlashQuery(s) == IF IsCommand(s) THEN Tail(s) ELSE <<>>
MenuShown == IsCommand(value) /\ ~dismissed

\* The effect on slashQuery: the menu comes back when the query is another one.
MenuFollows ==
  IF SlashQuery(value') = SlashQuery(value) \/ closedFor = <<SlashQuery(value')>>
    THEN UNCHANGED <<dismissed, closedFor>>
    ELSE dismissed' = FALSE /\ closedFor' = <<>>

CloseMenu ==
  /\ MenuShown
  /\ dismissed' = TRUE /\ closedFor' = <<SlashQuery(value)>>
  /\ UNCHANGED <<value, pasteBlocks, nextPasteId, history, historyIdx, savedDraft, meant,
                 touched, edits>>

\* Tab: the draft becomes the name of the selected command.
CompleteCommand ==
  /\ MenuShown /\ Show(<<"/", "c">>, pasteBlocks, <<"/", "c">>)
  /\ dismissed' = TRUE /\ closedFor' = <<SlashQuery(value')>>
  /\ touched' = FALSE
  /\ UNCHANGED <<nextPasteId, history, historyIdx, savedDraft, edits>>

-----------------------------------------------------------------------------
(* Editing: handleChange *)

\* A key. A digit behind a placeholder becomes part of its number.
TypeLetter(c, front) ==
  /\ edits < MaxEdits /\ edits' = edits + 1
  /\ IF front THEN Show(<<c>> \o value, pasteBlocks, <<c>> \o meant)
              ELSE Show(Append(value, c), pasteBlocks, Append(meant, c))
  /\ touched' = (touched \/ Tokens(value') # Moved(Tokens(value), IF front THEN 1 ELSE 0))
  /\ historyIdx' = 0 /\ MenuFollows
  /\ UNCHANGED <<nextPasteId, history, savedDraft>>

\* Backspace at the end: it takes a placeholder apart.
Backspace ==
  /\ edits < MaxEdits /\ edits' = edits + 1 /\ value # <<>>
  /\ Show(Front(value), pasteBlocks, IF meant = <<>> THEN <<>> ELSE Front(meant))
  /\ touched' = (touched \/ Tokens(value') # Tokens(value))
  /\ historyIdx' = 0 /\ MenuFollows
  /\ UNCHANGED <<nextPasteId, history, savedDraft>>

\* A text that begins like the draft in front of which it is pasted is found to begin
\* behind what they have in common.
Paste(text, front) ==
  LET new == IF front THEN text \o value ELSE value \o text
      at == InsertedAt(value, new)
      block == [id |-> nextPasteId, text |-> SubSeq(new, at[1], at[2])]
  IN
  /\ edits < MaxEdits /\ edits' = edits + 1 /\ nextPasteId <= MaxPastes
  /\ Show(SubSeq(new, 1, at[1] - 1) \o PasteToken(nextPasteId)
            \o SubSeq(new, at[2] + 1, Len(new)),
          Append(pasteBlocks, block),
          IF front THEN text \o meant ELSE meant \o text)
  /\ touched' = (touched \/ Tokens(value') #
                   Moved(Tokens(value), IF front THEN 3 ELSE 0) \cup {<<at[1], at[1] + 3>>})
  /\ nextPasteId' = nextPasteId + 1
  /\ historyIdx' = 0 /\ MenuFollows
  /\ UNCHANGED <<history, savedDraft>>

-----------------------------------------------------------------------------
\* Mutant: the numbers begin again with the next draft.
NumbersAgain == 1
NumberAfterSubmit == nextPasteId

\* handleSubmit: what was sent is kept with its texts.
SubmitDraft ==
  /\ Expand(value, pasteBlocks) # <<>>
  /\ history' = Append(SubSeq(history, IF Len(history) > HistoryLimit
                                         THEN Len(history) - HistoryLimit + 1 ELSE 1,
                              Len(history)),
                       [draft |-> value, blocks |-> pasteBlocks, meant |-> meant,
                        touched |-> touched])
  /\ historyIdx' = 0 /\ savedDraft' = <<>>
  /\ Show(<<>>, <<>>, <<>>) /\ touched' = FALSE
  /\ nextPasteId' = NumberAfterSubmit
  /\ MenuFollows
  /\ UNCHANGED edits

Recall(item) ==
  Show(item.draft, item.blocks, item.meant) /\ touched' = item.touched

\* handleFirstLineUp: the draft at hand is kept the first time.
FirstLineUp ==
  /\ ~MenuShown /\ history # <<>>
  /\ historyIdx' = IF historyIdx = 0 THEN Len(history)
                   ELSE IF historyIdx = 1 THEN 1 ELSE historyIdx - 1
  /\ savedDraft' = IF historyIdx = 0
                     THEN <<[draft |-> value, blocks |-> pasteBlocks, meant |-> meant,
                             touched |-> touched]>>
                     ELSE savedDraft
  /\ Recall(history[historyIdx'])
  /\ MenuFollows
  /\ UNCHANGED <<nextPasteId, history, edits>>

\* handleLastLineDown: behind the last one is the draft that was kept.
LastLineDown ==
  /\ ~MenuShown /\ historyIdx > 0
  /\ IF historyIdx = Len(history)
       THEN /\ historyIdx' = 0 /\ savedDraft' = <<>>
            /\ IF savedDraft # <<>> THEN Recall(savedDraft[1])
               ELSE Show(<<>>, <<>>, <<>>) /\ touched' = FALSE
       ELSE /\ historyIdx' = historyIdx + 1 /\ Recall(history[historyIdx + 1])
            /\ UNCHANGED savedDraft
  /\ MenuFollows
  /\ UNCHANGED <<nextPasteId, history, edits>>

ComposerNext ==
  \/ \E front \in BOOLEAN :
       (\E c \in Letters : TypeLetter(c, front)) \/ (\E text \in Texts : Paste(text, front))
  \/ Backspace \/ SubmitDraft \/ FirstLineUp \/ LastLineDown \/ CloseMenu \/ CompleteCommand

-----------------------------------------------------------------------------
\* What would be sent is what the user wrote, with every pasted text in its place, however
\* drafts are sent, brought back, changed and left again - unless a key or a paste made or
\* broke a placeholder, so that those of the draft no longer are the ones it had before
\* and the new one.
DraftIsMeant == ~touched => Expand(value, pasteBlocks) = meant

\* The same without the condition: nothing ends a placeholder, so that a digit behind it, or
\* a text in front of it that begins alike, silently loses the pasted text.
PastesSurvive == Expand(value, pasteBlocks) = meant
=============================================================================
