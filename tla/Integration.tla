---------------------------- MODULE Integration ----------------------------
(***************************************************************************)
(* The integration pipeline (integration/pipeline.py), the attribution of  *)
(* test failures to agents (integration/attribution.py), the conflict      *)
(* resolver (integration/conflict_resolver.py) and the git commands they   *)
(* run in the one integration clone (git/ops.py).                          *)
(*                                                                         *)
(* A branch is a pair <<kind, name>>; its content is the set of agents     *)
(* whose work it holds.  What git and pytest answer depends on the         *)
(* contents only: clash and broken, chosen once, say on which contents a   *)
(* merge conflicts and a test fails.  No git command raises: a failed one  *)
(* leaves the clone as it is, and most results are not looked at.          *)
(***************************************************************************)
EXTENDS SequencesExt

CONSTANTS
  AgentIds,  \* the agents, in the order they are merged
  Tests,
  MaxRuns,   \* runs of the pipeline, one after the other
  MaxHunks,  \* conflict blocks in a file
  None

Agents == Range(AgentIds)
Contents == SUBSET Agents

ASSUME IntegrationAssumption ==
  /\ AgentIds \in Seq(Agents) /\ IsInjective(AgentIds)
  /\ MaxRuns \in Nat /\ MaxHunks \in Nat
  /\ None \notin Agents

Main == <<"main", None>>
Integrate(n) == <<"integrate", n>>
Attr(a) == <<"attr", a>>
Branches == {Main} \cup {Integrate(n) : n \in 1 .. MaxRuns}
                   \cup {Attr(a) : a \in Agents}

VARIABLES
  repo,    \* the clone: its branches and their contents, the branch that
           \* is checked out, and whether a conflicted merge is in the index
  remote,  \* branches that were pushed -> content
  pc,      \* where IntegrationPipeline.run is
  runs,    \* runs started
  k,       \* the agent that is merged or attributed next
  failed,  \* failed_tests
  blame,   \* attribution: who -> tests
  status,  \* IntegrationResult.status of the last run
  file,    \* the conflicted file the resolver works on
  clash,   \* <<content, agent>>: this merge conflicts
  broken   \* test -> the contents it fails on

world == <<clash, broken>>
integrationVars == <<repo, remote, pc, runs, k, failed, blame, status, file, world>>

Owners == Agents \cup {"_interaction", "_flaky"}
NoBlame == [o \in Owners |-> {}]
NoFile == [at |-> "none", left |-> 0, blocks |-> 0]

IntegrationInit ==
  /\ repo = [refs |-> [b \in {Main} |-> {}], head |-> Main, merging |-> FALSE]
  /\ remote = <<>>
  /\ pc = "idle" /\ runs = 0 /\ k = 1
  /\ failed = {} /\ blame = NoBlame /\ status = "none" /\ file = NoFile
  /\ clash \in SUBSET {p \in Contents \X Agents : p[2] \notin p[1]}
  /\ broken \in [Tests -> SUBSET (Contents \ {{}})]

-----------------------------------------------------------------------------
(* git: what each command leaves of the clone c                            *)

Content(c) == c.refs[c.head]

(* the branches f and b, which holds v unless f has it already *)
With(f, b, v) == [x \in DOMAIN f \cup {b} |-> IF x \in DOMAIN f THEN f[x] ELSE v]

(* git checkout b: refused while a conflicted merge is in the index *)
Checkout(c, b) ==
  IF c.merging \/ b \notin DOMAIN c.refs THEN c ELSE [c EXCEPT !.head = b]

(* git checkout -b b: refused when b exists; whether it is refused in the  *)
(* middle of a merge depends on the version of git                         *)
CheckoutNewBranch(c, b) ==
  LET made == [c EXCEPT !.refs = With(@, b, Content(c)), !.head = b]
  IN  IF b \in DOMAIN c.refs THEN {c} ELSE IF c.merging THEN {c, made} ELSE {made}

(* git merge agent/<a> into the current branch *)
MergeFails(c, a) == c.merging \/ <<Content(c), a>> \in clash

Merge(c, a) ==
  IF MergeFails(c, a) THEN [c EXCEPT !.merging = TRUE]
                      ELSE [c EXCEPT !.refs[c.head] = @ \cup {a}]

MergeAbort(c) == [c EXCEPT !.merging = FALSE]

Failing(content) == {t \in Tests : content \in broken[t]}

-----------------------------------------------------------------------------
(* IntegrationPipeline.run *)

(* git fetch: the remote-tracking branches only, never agent/<a> or main   *)
Fetch(c) == c

(* fetch, checkout main, checkout -b integrate/<ms>: results not looked at *)
(* The runs follow each other.  Nothing in run() keeps a second one out    *)
(* while the first waits for its tests; RuntimeAPI.run_integration, the    *)
(* one caller, passes keywords that IntegrationPipeline does not take.     *)
Start ==
  /\ pc = "idle" /\ runs < MaxRuns
  /\ runs' = runs + 1
  /\ repo' \in CheckoutNewBranch(Checkout(Fetch(repo), Main), Integrate(runs + 1))
  /\ pc' = "merge" /\ k' = 1
  /\ failed' = {} /\ blame' = NoBlame /\ status' = "none"
  /\ UNCHANGED <<remote, file, world>>

Return(s) == pc' = "idle" /\ status' = s

MergeAgent_GoesOn ==
  /\ pc = "merge" /\ k <= Len(AgentIds)
  /\ repo' = IF MergeFails(repo, AgentIds[k])
             THEN MergeAbort(Merge(repo, AgentIds[k]))
             ELSE Merge(repo, AgentIds[k])
  /\ k' = k + 1
  /\ UNCHANGED <<remote, pc, runs, failed, blame, status, file, world>>

(* one turn of the loop over agent_ids; no await until the tests *)
MergeAgent ==
  /\ pc = "merge" /\ k <= Len(AgentIds)
  /\ IF MergeFails(repo, AgentIds[k])
     THEN /\ repo' = MergeAbort(Merge(repo, AgentIds[k]))
          /\ Return("merge_conflict")
          /\ UNCHANGED k
     ELSE /\ repo' = Merge(repo, AgentIds[k])
          /\ k' = k + 1
          /\ UNCHANGED <<pc, status>>
  /\ UNCHANGED <<remote, runs, failed, blame, file, world>>

Merged ==
  /\ pc = "merge" /\ k > Len(AgentIds)
  /\ pc' = "test"
  /\ UNCHANGED <<repo, remote, runs, k, failed, blame, status, file, world>>

TestsPass ==
  /\ pc = "test" /\ Failing(Content(repo)) = {}
  /\ pc' = "push"
  /\ UNCHANGED <<repo, remote, runs, k, failed, blame, status, file, world>>

(* pytest -x stops at the first failure, which it names on a FAILED line   *)
TestsFail ==
  /\ pc = "test"
  /\ \E t \in Failing(Content(repo)) : failed' = {t}
  /\ pc' = "attr" /\ k' = 1
  /\ UNCHANGED <<repo, remote, runs, blame, status, file, world>>

(* pytest fails without naming a test (a collection error): nothing to     *)
(* attribute                                                               *)
TestsCrash ==
  /\ pc = "test"
  /\ Return("test_failure")
  /\ UNCHANGED <<repo, remote, runs, k, failed, blame, file, world>>

(* subprocess.TimeoutExpired, or gh or uv missing *)
Raises ==
  /\ pc \in {"test", "pr"}
  /\ Return("error")
  /\ UNCHANGED <<repo, remote, runs, k, failed, blame, file, world>>

(* git push: its result is not looked at *)
Push ==
  /\ pc = "push"
  /\ \E sent \in BOOLEAN :
       remote' = IF sent
                 THEN With(remote, Integrate(runs), repo.refs[Integrate(runs)])
                 ELSE remote
  /\ pc' = "pr"
  /\ UNCHANGED <<repo, runs, k, failed, blame, status, file, world>>

(* gh pr create: what it prints is the URL, also when it fails *)
CreatePr ==
  /\ pc = "pr"
  /\ Return("success")
  /\ UNCHANGED <<repo, remote, runs, k, failed, blame, file, world>>

-----------------------------------------------------------------------------
(* attribute_failures *)

(* checkout main, checkout -b _attr_<a>, merge the branch of a alone; a    *)
(* merge that fails blames a for every test and is left unfinished; the    *)
(* finally clause checks main out                                          *)
Isolate ==
  /\ pc = "attr" /\ k <= Len(AgentIds)
  /\ LET a == AgentIds[k]
     IN  \E d \in CheckoutNewBranch(Checkout(repo, Main), Attr(a)) :
           IF MergeFails(d, a)
           THEN /\ repo' = Checkout(Merge(d, a), Main)
                /\ blame' = [blame EXCEPT ![a] = failed]
                /\ k' = k + 1
                /\ UNCHANGED pc
           ELSE /\ repo' = Merge(d, a)
                /\ pc' = "rerun"
                /\ UNCHANGED <<k, blame>>
  /\ UNCHANGED <<remote, runs, failed, status, file, world>>

(* the failed tests run again on that branch *)
Rerun ==
  /\ pc = "rerun"
  /\ blame' = [blame EXCEPT ![AgentIds[k]] = failed \cap Failing(Content(repo))]
  /\ repo' = Checkout(repo, Main)
  /\ k' = k + 1 /\ pc' = "attr"
  /\ UNCHANGED <<remote, runs, failed, status, file, world>>

(* pytest fails without naming a test: _parse_failed_tests returns none.   *)
(* Its comment speaks of all candidates here; the condition below it holds *)
(* when tests are named and none is a candidate, see RerunOther.           *)
RerunCrash ==
  /\ pc = "rerun"
  /\ repo' = Checkout(repo, Main)
  /\ k' = k + 1 /\ pc' = "attr"
  /\ UNCHANGED <<remote, runs, failed, blame, status, file, world>>

(* the tests that pytest names are not the ones it was given: all that     *)
(* were given are laid on the agent                                        *)
RerunOther ==
  /\ pc = "rerun"
  /\ blame' = [blame EXCEPT ![AgentIds[k]] = failed]
  /\ repo' = Checkout(repo, Main)
  /\ k' = k + 1 /\ pc' = "attr"
  /\ UNCHANGED <<remote, runs, failed, status, file, world>>

RerunRaises ==
  /\ pc = "rerun"
  /\ repo' = Checkout(repo, Main)
  /\ Return("error")
  /\ UNCHANGED <<remote, runs, k, failed, blame, file, world>>

Attributed_All ==
  /\ pc = "attr" /\ k > Len(AgentIds)
  /\ LET who == IF Len(AgentIds) > 1 THEN "_interaction" ELSE "_flaky"
     IN  blame' = [blame EXCEPT ![who] = failed]
  /\ Return("test_failure")
  /\ UNCHANGED <<repo, remote, runs, k, failed, file, world>>

(* tests nobody breaks alone *)
Attributed ==
  /\ pc = "attr" /\ k > Len(AgentIds)
  /\ LET rest == failed \ UNION {blame[a] : a \in Agents}
         who  == IF Len(AgentIds) > 1 THEN "_interaction" ELSE "_flaky"
     IN  blame' = [blame EXCEPT ![who] = rest]
  /\ Return("test_failure")
  /\ UNCHANGED <<repo, remote, runs, k, failed, file, world>>

-----------------------------------------------------------------------------
(* ConflictResolver: one question to the PM for every conflict block; the  *)
(* last answer replaces the first block of the file, the others stay       *)

Answers == {"code", "unsure", "fallback"}

(* the words resolve looks for.  The text PMTier answers with when the     *)
(* Claude CLI fails ("... Escalating.") has none of them                   *)
Unsure(answer) == answer = "unsure"

(* _extract_conflict_hunks: the complete conflict blocks of a file *)
Hunks == 0 .. MaxHunks

(* resolve_all takes the next file.  A missing or unreadable one, one      *)
(* without a complete block, and a resolver without a PM, give None.       *)
ResolveAll ==
  /\ file.at # "asked"
  /\ \E n \in Hunks :
       file' = [at |-> IF n = 0 THEN "escalated" ELSE "asked",
                left |-> n, blocks |-> n]
  /\ UNCHANGED <<repo, remote, pc, runs, k, failed, blame, status, world>>

ApplyResolution(f) == [f EXCEPT !.blocks = @ - 1]

(* one turn of the loop over the blocks *)
Resolve ==
  /\ file.at = "asked"
  /\ \E answer \in Answers :
       file' = IF Unsure(answer) THEN [file EXCEPT !.at = "escalated"]
               ELSE IF file.left = 1
               THEN ApplyResolution([file EXCEPT !.at = "resolved", !.left = 0])
               ELSE [file EXCEPT !.left = @ - 1]
  /\ UNCHANGED <<repo, remote, pc, runs, k, failed, blame, status, world>>

(* the PM raises *)
ResolveRaises ==
  /\ file.at = "asked"
  /\ file' = [file EXCEPT !.at = "escalated"]
  /\ UNCHANGED <<repo, remote, pc, runs, k, failed, blame, status, world>>

-----------------------------------------------------------------------------
IntegrationNext ==
  \/ Start \/ MergeAgent \/ Merged \/ TestsPass \/ TestsFail \/ TestsCrash
  \/ Raises \/ Push \/ CreatePr \/ Isolate \/ Rerun \/ RerunCrash
  \/ RerunOther \/ RerunRaises \/ Attributed \/ ResolveAll \/ Resolve \/ ResolveRaises

IntegrationSpec == IntegrationInit /\ [][IntegrationNext]_integrationVars

-----------------------------------------------------------------------------
(* Correctness *)

(* What run() publishes holds the work of every agent and passes the       *)
(* tests, whatever earlier runs left in the clone.                         *)
PublishedIsTested ==
  \A b \in DOMAIN remote : remote[b] = Agents /\ Failing(remote[b]) = {}

(* Whatever earlier runs left in the clone, and whichever merges and       *)
(* re-runs fail, attribute_failures leaves no failed test without an       *)
(* owner, names no other test, and lays none both on an agent and on       *)
(* nobody.  Whether the owner is the right one depends on what earlier     *)
(* runs left: the branches _attr_<a> are never removed.                    *)
FailuresOwned ==
  status = "test_failure" =>
    /\ failed = UNION Range(blame)
    /\ \A a \in Agents : blame[a] \cap (blame["_interaction"] \cup blame["_flaky"]) = {}
=============================================================================
