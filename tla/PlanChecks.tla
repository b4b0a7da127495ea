----------------------------- MODULE PlanChecks -----------------------------
(***************************************************************************)
(* The three checks of PlanReviewer.review_plan                            *)
(* (strategist/plan_reviewer.py) as operators, and the reviews they can    *)
(* come to.                                                                *)
(*                                                                         *)
(* A text is what the checks read in it: whether its frontmatter parses,   *)
(* the files and dependencies named there, whether it has a word for a     *)
(* stub, and the words of its objective.  A project is whether the agent   *)
(* is in its configuration, its PROJECT-STATUS.md, and the plans in        *)
(* approved_plans.jsonl, each with whether the agent itself wrote it.      *)
(***************************************************************************)
EXTENDS Naturals, FiniteSets

Checks == {"scope", "dependency", "duplicate"}

Files == {"owned", "foreign"}
Words == {"build", "login"}

PlanTexts == [front : BOOLEAN, files : SUBSET Files, depends : BOOLEAN, stubs : BOOLEAN,
          objective : SUBSET Words]
Approved == [mine : BOOLEAN, files : SUBSET Files, objective : SUBSET Words]
Projects == [known : BOOLEAN, status : {"missing", "open", "done"},
             approved : {{}} \cup {{a} : a \in Approved}]

\* _extract_frontmatter: without it no file and no dependency is seen.
FilesModified(plan) == IF plan.front THEN plan.files ELSE {}
DependsOn(plan) == plan.front /\ plan.depends

\* _scope_check
ScopeCheck(plan, project) ==
  FilesModified(plan) # {} => project.known /\ FilesModified(plan) \subseteq {"owned"}

\* _dependency_check: the status is of the project as a whole.
DependencyCheck(plan, project) ==
  DependsOn(plan) => /\ project.status # "missing"
                     /\ project.status = "open" => plan.stubs

\* More than 70% of what there is on either side is on both.
Overlap(a, b) ==
  /\ a # {} /\ b # {}
  /\ 10 * Cardinality(a \cap b) > 7 * Cardinality(a \cup b)

\* _duplicate_check
DuplicateCheck(plan, project) ==
  \A a \in project.approved :
    a.mine \/ ~(\/ Overlap(FilesModified(plan), a.files)
                \/ Overlap(plan.objective, a.objective))

FailedChecks(plan, project) ==
  {c \in Checks : \/ c = "scope" /\ ~ScopeCheck(plan, project)
                  \/ c = "dependency" /\ ~DependencyCheck(plan, project)
                  \/ c = "duplicate" /\ ~DuplicateCheck(plan, project)}

\* review_prompt puts the plan behind the PM's knowledge and the roadmap, so
\* that the text no longer starts with the frontmatter.
InPrompt(plan) == [plan EXCEPT !.front = FALSE]

\* What a stage review and an "@PM plan" review can find.
ArtifactFailures == {FailedChecks(p, w) : p \in PlanTexts, w \in Projects}
PromptFailures == {FailedChecks(InPrompt(p), w) : p \in PlanTexts, w \in Projects}
=============================================================================
