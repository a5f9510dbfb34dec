------------------------------ MODULE ContextMap ------------------------------
(***************************************************************************)
(* src/src/context/context-map.ts: what the program finds out about a        *)
(* repository before it works on a request, and whether that is enough. A    *)
(* repository is the set of its files; a file has a directory, the words it  *)
(* mentions and the symbols it defines. Confidence is in 1/10000.            *)
(***************************************************************************)
EXTENDS Naturals, FiniteSets, Sequences, SequencesExt

CONSTANTS
  Listing,       \* every file there may be, in the order walkFiles meets them
  Dir,           \* Dir[f]: the directory at the root it lies under, or "."
  Mentions,      \* Mentions[f][w]: how often f has the word w (20 at most count)
  Defines,       \* Defines[f]: definitions in it, if it is TypeScript
  Documents,     \* files of CONSTITUTION_FILES
  Manifest,      \* package.json with scripts to build and to test
  SourceDirs, TestDirs,      \* the names of source and of test roots
  PrimaryFiles, LocatedFiles \* 5 and 12

Files == ToSet(Listing)

ASSUME MapAssumption ==
  /\ Dir \in [Files -> SourceDirs \cup TestDirs \cup {"."}] /\ Defines \in [Files -> Nat]
  /\ Documents \cup {Manifest} \subseteq Files
  /\ PrimaryFiles \in Nat /\ LocatedFiles \in Nat

Least(a, b) == IF a <= b THEN a ELSE b

\* loadProjectConstitution: the documents there are, and commands to verify with.
ImportantFiles(repo) == repo \cap (Documents \cup {Manifest})
Commands(repo) == repo \cap {Manifest}

\* scanRepoStructure.
SourceRoots(repo) == SourceDirs \cap {Dir[f] : f \in repo}
TestRoots(repo) == TestDirs \cap {Dir[f] : f \in repo}

\* hybridLocate looks into source and test roots only.
Candidates(repo) == {f \in repo : Dir[f] \in SourceRoots(repo) \cup TestRoots(repo)}

Score(f, words) == FoldLeft(LAMBDA sum, w : sum + Mentions[f][w], 0, SetToSeq(words))

Hits(repo, words) == {f \in Candidates(repo) : Score(f, words) > 0}

\* The place of a hit among the hits, best score first, as the sort is stable.
Rank(f, repo, words) ==
  LET place(g) == CHOOSE i \in DOMAIN Listing : Listing[i] = g
  IN Cardinality({g \in Hits(repo, words) :
       \/ Score(g, words) > Score(f, words)
       \/ Score(g, words) = Score(f, words) /\ place(g) < place(f)})

Located(repo, words) == {f \in Hits(repo, words) : Rank(f, repo, words) < LocatedFiles}
Primary(repo, words) == {f \in Located(repo, words) : Rank(f, repo, words) < PrimaryFiles}
SuspectedTests(repo, words) == {f \in Located(repo, words) : Dir[f] \in TestDirs}

LocateConfidence(repo, words) ==
  LET definitions == FoldLeft(LAMBDA sum, f : sum + Defines[f], 0, SetToSeq(Located(repo, words)))
  IN IF Primary(repo, words) = {} THEN 20
     ELSE Least(100, 45 + 8 * Least(Cardinality(Primary(repo, words)), 5) + 2 * Least(definitions, 10))

\* buildSourceUnderstanding reads what was located.
FilesRead(repo, words) == Located(repo, words)

\* buildContextMap.
BuildContextMap(repo, words) == [
  read |-> FilesRead(repo, words),
  primary |-> Primary(repo, words),
  documents |-> ImportantFiles(repo),
  verification |-> Commands(repo) \cup SuspectedTests(repo, words),
  confidence |-> 55 * LocateConfidence(repo, words)
                 + (IF FilesRead(repo, words) # {} THEN 2000 ELSE 0)
                 + (IF ImportantFiles(repo) # {} THEN 1500 ELSE 0)
                 + (IF Commands(repo) # {} THEN 1000 ELSE 0),
  blockers |-> {b \in {"roots", "primary", "read"} :
                  \/ b = "roots" /\ SourceRoots(repo) = {}
                  \/ b = "primary" /\ Primary(repo, words) = {}
                  \/ b = "read" /\ FilesRead(repo, words) = {}}]

\* Mutant: a plan to verify with is not asked for.
WithoutVerification(map, level) ==
  map.blockers
    \cup {b \in {"locate", "understanding"} : level # "small" /\ map.primary = {}}
    \cup {b \in {"constitution"} : level \in {"long", "high_risk"} /\ map.documents = {}}
    \cup {b \in {"confidence"} : level = "high_risk" /\ map.confidence < 7500}

\* evaluateContextReadiness.
Blockers(map, level) ==
  map.blockers
    \cup {b \in {"locate"} : level # "small" /\ map.primary = {}}
    \cup {b \in {"understanding"} : level # "small" /\ map.read = {}}
    \cup {b \in {"constitution"} : level \in {"long", "high_risk"} /\ map.documents = {}}
    \cup {b \in {"verification"} : level \in {"long", "high_risk"} /\ map.verification = {}}
    \cup {b \in {"confidence"} : level = "high_risk" /\ map.confidence < 7500}

\* selectContextMapTaskLevel: said is what the request speaks of.
TaskLevel(said, risky, namedFiles) ==
  IF risky THEN "high_risk"
  ELSE IF "structure" \in said \/ namedFiles >= 3 THEN "long"
  ELSE IF "change" \in said THEN "medium" ELSE "small"
=============================================================================
