---------------------------- MODULE MCMasterPlan ----------------------------
(* Small instances of MasterPlan, PlanReview, Testimony and Depth, in one run: each is *)
(* explored with the others as they start.                                             *)
EXTENDS MasterPlan, PlanReview, Testimony, Depth

VARIABLE part \* the module that is explored

Line(joins, files, hints) ==
  [item |-> TRUE, joins |-> joins, files |-> files, hints |-> hints, words |-> "words"]
Prose == [Line(TRUE, {"a"}, {}) EXCEPT !.item = FALSE]

Single == Line(FALSE, {"a"}, {})
Joining == Line(TRUE, {}, {"test"})
MCLines == {<<>>, <<Prose>>, <<Prose, Single>>, <<Single, Joining, Prose>>,
  <<Line(TRUE, {"a", "b"}, {}), Single>>, <<Single, Joining, Joining>>}
Thin == {"long", "problem"}
MCTexts ==
  {[lines |-> lines, says |-> says, names |-> names] :
     lines \in MCLines,
     says \in {Thin, Thin \cup {"risk"}, Thin \cup {"risk", "checklist"}}, names \in BOOLEAN}

Answer(deps) == [line |-> Line(FALSE, {}, {}), deps |-> deps]
MCReplies ==
  {<<>>} \cup UNION {[1..n -> {Answer(deps) : deps \in {{}, {0, 1}, {2}, {3}, {1, 2}}}] : n \in 1..2}

Fields == Required \cup {"contextMapId", "surprise"}
Sound == [f \in Fields |-> IF f \in Required THEN "good" ELSE "absent"]
MCForms ==
  {[Sound EXCEPT ![f] = q, ![g] = r] :
     f, g \in Required, q, r \in {"good", "blank", "absent", "odd"}}
  \cup {[Sound EXCEPT !["surprise"] = "good"]}

\* Final answers and the judge's words on them.
Text(claims, promises, future) == [claims |-> claims, promises |-> promises, future |-> future]
MCFinal ==
  {Text({"tests", "typecheck", "no_errors"}, {}, FALSE), Text({"build", "implementation"}, {"p1"}, FALSE),
   Text({"all", "tests"}, {"p1"}, TRUE), Text({}, {"p1"}, FALSE)}
Says(json, says, means, found) == [json |-> json, says |-> says, means |-> means, found |-> found]
MCJudge ==
  {Failed, Says(TRUE, {"SATISFIED"}, "yes", {"p1"}), Says(FALSE, {"SATISFIED"}, "no", {}),
   Says(TRUE, {"SATISFIED", "NOT_SATISFIED"}, "no", {"p1"}), Says(TRUE, {"IMPOSSIBLE"}, "never", {})}
MCCommands == {{"tsc"}, {"lint", "test"}, {"test"}, {"build"}, {"curl", "localhost"}}
MCTasks == {Untracked, {"typecheck", "test"}}

\* Prompts and rounds of every depth.
MCAsks ==
  {[intent |-> "readonly", score |-> 0], [intent |-> "narrow_edit", score |-> 6]}
MCRoundTools ==
  {{"read_file"}, {"request_deeper_thinking"}, {"write_file"}, {"edit_fim", "shell"}, {"shell"}}

plans == <<part, vars, reviewVars, judgeVars, depthVars>>

PlansInit ==
  /\ part \in {"plan", "review", "judge", "depth"}
  /\ Init /\ ReviewInit /\ TestimonyInit /\ DepthInit
  /\ part # "judge" => task = Untracked
  /\ part # "depth" => ask.intent = "readonly" /\ effort = "none"

PlansNext ==
  \/ part = "plan" /\ Next /\ UNCHANGED <<part, reviewVars, judgeVars, depthVars>>
  \/ part = "review" /\ ReviewNext /\ UNCHANGED <<part, vars, judgeVars, depthVars>>
  \/ part = "judge" /\ TestimonyNext /\ UNCHANGED <<part, vars, reviewVars, depthVars>>
  \/ part = "depth" /\ DepthNext /\ UNCHANGED <<part, vars, reviewVars, judgeVars>>

PlansSpec == PlansInit /\ [][PlansNext]_plans

\* The way from a text to a plan is sound: what is accepted passes the validator, the
\* validator finds what is wrong with a revised plan, and the reader of packets lets
\* nothing through that cannot be worked on.
PlansAreSound == PlansAreClean /\ CyclesAreFound /\ ReadPacketsAreSound

\* What the loop is told of its own work is right: the texts of the plan, the verdicts on
\* a final answer (Testimony), and the watch that is kept over the rounds (Depth).
ReviewsAreSound == PlansAreSound /\ VerdictsAreEarned /\ RunIsWatched
=============================================================================
