----------------------------- MODULE MCWorkbench -----------------------------
(* Small instances of the modules on the terminal interface, in one run: they share *)
(* nothing, so each is explored with the others as they start.                      *)
EXTENDS Workbench, ToolFeed, Composer, MouseFilter, Screen

VARIABLE part \* the module that is explored

terminal == <<part, workbenchVars, feedVars, composerVars, mouseVars, screenVars>>

OneAndSlash == {"1", "/"}
Pasted == {<<"P", "x">>, <<"x", "y">>}
KeysAndBracket == {<<"M">>, <<"[">>, <<"E">>, <<"M", "#">>, <<"#", "M">>}

Init ==
  /\ part \in {"runs", "feed", "draft", "mouse", "scroll", "dialog"}
  /\ WorkbenchInit /\ FeedInit /\ ComposerInit /\ MouseInit /\ ScreenInit
  /\ part # "scroll" => bodyHeight = CHOOSE h \in Heights : TRUE
  /\ part # "dialog" => providers = {}

PromptStep == WorkbenchNext /\ UNCHANGED <<part, feedVars, composerVars, mouseVars, screenVars>>
FeedStep == FeedNext /\ UNCHANGED <<part, workbenchVars, composerVars, mouseVars, screenVars>>
DraftStep == ComposerNext /\ UNCHANGED <<part, workbenchVars, feedVars, mouseVars, screenVars>>
MouseStep == MouseNext /\ UNCHANGED <<part, workbenchVars, feedVars, composerVars, screenVars>>
ScreenStep(Step) == Step /\ UNCHANGED <<part, workbenchVars, feedVars, composerVars, mouseVars>>

Next ==
  \/ part = "runs" /\ PromptStep
  \/ part = "feed" /\ FeedStep
  \/ part = "draft" /\ DraftStep
  \/ part = "mouse" /\ MouseStep
  \/ part = "scroll" /\ ScreenStep(ScrollNext)
  \/ part = "dialog" /\ ScreenStep(DialogNext)

Spec == Init /\ [][Next]_terminal /\ WorkbenchFairness

\* What the user writes arrives as it was meant: a draft keeps every pasted text in its
\* place, and no part of a mouse sequence is typed into it, nor anything taken for one but
\* what looks like one.
InputIsMeant == DraftIsMeant /\ WheelIsNotTyped

\* What is shown stays where it belongs: every result at its call, and the row the reader
\* scrolled to the top of the list while rows come below it or go above it.
ShownInPlace == ResultsAtTheirCalls /\ ViewStands
=============================================================================
