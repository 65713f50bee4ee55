------------------------------ MODULE Delivery ------------------------------
(***************************************************************************)
(* What becomes of finished work: a task that passed its last gate is       *)
(* published as a pull request (hq/github-publish.mjs, publishAndRecord),   *)
(* the build nodes of an objective are carried by its integration branch    *)
(* (objective/orchestrator.mjs), the founder merges or closes pull requests *)
(* on GitHub, and a sweep of the dashboard settles the finished tasks       *)
(* (hq/merge-reconciler.mjs).                                               *)
(*                                                                          *)
(* The stages before release are modelled in TaskWorkflow and the scheduling *)
(* of nodes in Objective; here a task works until its release passes.  A    *)
(* task of no objective is published and settled as a node's is, with no    *)
(* integration to carry it.                                                 *)
(* GitHub is external: a pull request is none, open, merged or closed.      *)
(***************************************************************************)
EXTENDS Naturals, FiniteSets

CONSTANTS Nodes,     \* build nodes of the objective
          MaxDeaths  \* sweeps that are killed (bounds restarts)

VARIABLES status,    \* per task: working, blocked, ready (merge-ready), merged, complete, reopened
          diff,      \* tasks whose branch is ahead of its base
          hosted,    \* the project resolves to a GitHub repository
          record,    \* per task, githubPublish: none, url, empty, failed, or skipped: a
                     \* result that names no repository
          pr,        \* per task, its pull request on GitHub
          node,      \* per node and for the integration: its status on the objective
          built,     \* the integration task has passed its builder stage
          carried,   \* nodes whose branch is merged into the integration branch
          mergeLog,  \* nodes the objective records as merged
          run,       \* per task, its runner: where it is, what it merged, what publishing gave
          sweep,     \* the sweep: where it is, the tasks to come, the task in hand
          deaths     \* sweeps killed so far

deliveryVars ==
  <<status, diff, hosted, record, pr, node, built, carried, mergeLog, run, sweep, deaths>>
objective == <<node, built, carried, mergeLog>>

Integ == "integration"
AllTasks == Nodes \cup {Integ}
Off == [pc |-> "off", log |-> {}, out |-> "none"]
Resting == [pc |-> "off", todo |-> {}, at |-> {}]

DeliveryInit ==
  /\ status = [t \in AllTasks |-> "working"]
  /\ diff \in {AllTasks, AllTasks \ Nodes} /\ hosted \in BOOLEAN
  /\ record = [t \in AllTasks |-> "none"] /\ pr = [t \in AllTasks |-> "none"]
  /\ node = [t \in AllTasks |-> "pending"]
  /\ built = FALSE /\ carried = {} /\ mergeLog = {}
  /\ run = [t \in AllTasks |-> Off]
  /\ sweep = Resting /\ deaths = 0

Move(t, pc) == run' = [run EXCEPT ![t].pc = pc]
EndRun(t) == run' = [run EXCEPT ![t] = Off]
Note(t, s) == node' = [node EXCEPT ![t] = s]

\* patchNode on the integration: what this runner merged replaces what was recorded
Patch(s) == Note(Integ, s) /\ mergeLog' = run[Integ].log

-----------------------------------------------------------------------------
(* Runners *)

\* the integration runs once every node is done, and again whenever its objective runs
\* before it is
MayRun(t) ==
  IF t \in Nodes THEN node[t] = "pending"
  ELSE node[t] # "satisfied" /\ \A n \in Nodes : node[n] = "satisfied"

Start(t) ==
  /\ run[t].pc = "off" /\ MayRun(t)
  /\ Note(t, "running")
  /\ run' = [run EXCEPT ![t] = [Off EXCEPT !.pc = IF status[t] = "working" THEN "work"
                                                  ELSE "settle"]]
  /\ UNCHANGED <<status, diff, hosted, record, pr, built, carried, mergeLog, sweep, deaths>>

\* the builder stage of an integration merges the branches one after the other and stops at
\* the first that conflicts
Integrate(merged) ==
  /\ run[Integ].pc = "work" /\ ~built
  /\ carried' = carried \cup merged
  /\ run' = [run EXCEPT ![Integ] = IF merged = Nodes THEN [@ EXCEPT !.log = merged] ELSE Off]
  /\ built' = (merged = Nodes)
  /\ IF merged = Nodes THEN UNCHANGED <<status, node, mergeLog>>
     ELSE /\ status' = [status EXCEPT ![Integ] = "blocked"]
          /\ node' = [node EXCEPT ![Integ] = "blocked"]
          /\ mergeLog' = merged
  /\ UNCHANGED <<diff, hosted, record, pr, sweep, deaths>>

\* the release stage passes
Release(t) ==
  /\ run[t].pc = "work" /\ status[t] = "working"
  /\ t = Integ => built
  /\ status' = [status EXCEPT ![t] = "ready"]
  /\ Move(t, "publish")
  /\ UNCHANGED <<diff, hosted, record, pr, objective, sweep, deaths>>

\* a stage blocks the task, and the run ends with it
Block(t) ==
  /\ run[t].pc = "work"
  /\ status' = [status EXCEPT ![t] = "blocked"]
  /\ Move(t, "settle")
  /\ UNCHANGED <<diff, hosted, record, pr, objective, sweep, deaths>>

\* a stage waits for its delegate: the run returns and nothing but `running' is recorded
Yield(t) ==
  /\ run[t].pc = "work"
  /\ EndRun(t)
  /\ UNCHANGED <<status, diff, hosted, record, pr, objective, sweep, deaths>>

Die(t) ==
  /\ run[t].pc # "off"
  /\ EndRun(t)
  /\ UNCHANGED <<status, diff, hosted, record, pr, objective, sweep, deaths>>

\* publishMergeReadyTask.  Publication is skipped, and the result names no repository, when
\* the project has none; but also when the capability is refused or anything else throws,
\* when publishing is switched off, for a default branch, and when the worktree has no
\* origin.  Beyond that: nothing without commits; the open pull request of the branch is used
\* again, else one is created, also beside a closed one; a refusal that names the one that
\* exists is as good as its URL, any other failure may come before or after the create
Publish(t, out) ==
  /\ run[t].pc = "publish"
  /\ \/ out = "skipped"
     \/ hosted /\ out = "failed"
     \/ hosted /\ out = IF t \in diff THEN "url" ELSE "empty"
  /\ run' = [run EXCEPT ![t] = [@ EXCEPT !.pc = "record", !.out = out]]
  /\ \E after \in {pr[t], "open"} :
        /\ out = "url" => after \in {"open", "merged"}
        /\ pr' = IF out \in {"url", "failed"} /\ t \in diff /\ pr[t] # "merged"
                 THEN [pr EXCEPT ![t] = after] ELSE pr
  /\ UNCHANGED <<status, diff, hosted, record, objective, sweep, deaths>>

RecordPublish(t) ==
  /\ run[t].pc = "record"
  /\ record' = [record EXCEPT ![t] = run[t].out]
  /\ Move(t, "settle")
  /\ UNCHANGED <<status, diff, hosted, pr, objective, sweep, deaths>>

\* Mutant: a build node whose publication failed counts as done.
Published_Any(t) == TRUE

\* classifyNodePublish: a URL, or a result that names no repository
Published(t) == record[t] \in {"url", "skipped", "none"}

\* recordNodePublish and integrationOutcome: what the objective notes when the run is over
Settle(t) ==
  /\ run[t].pc = "settle"
  /\ IF t \in Nodes
     THEN /\ Note(t, IF status[t] # "ready" THEN "blocked"
                     ELSE IF Published(t) THEN "satisfied" ELSE "unpublished")
          /\ UNCHANGED mergeLog
     ELSE Patch(IF status[t] = "ready" THEN "satisfied" ELSE "blocked")
  /\ EndRun(t)
  /\ UNCHANGED <<status, diff, hosted, record, pr, built, carried, sweep, deaths>>

\* the next run of the objective publishes such a node again, while its task waits for its merge
Republish(n) ==
  /\ n \in Nodes /\ run[n].pc = "off"
  /\ node[n] = "unpublished" /\ status[n] = "ready"
  /\ Move(n, "publish")
  /\ UNCHANGED <<status, diff, hosted, record, pr, objective, sweep, deaths>>

\* resumeObjectiveNodes, handleTaskRetry: a blocked task, or one whose run is gone, goes on
Resume(t) ==
  /\ run[t].pc = "off"
  /\ \/ status[t] = "blocked"
     \/ status[t] = "working" /\ node[t] = "running"
  /\ status' = [status EXCEPT ![t] = "working"]
  /\ Note(t, "pending")
  /\ UNCHANGED <<diff, hosted, record, pr, built, carried, mergeLog, run, sweep, deaths>>

\* recordRunnerCrash: another runner of the task throws late; finished tasks are spared, but
\* for those that are merged.  The release left no current stage, so such a task has none to
\* resume at and is never finished again
LateThrow(t) ==
  /\ status[t] = "merged"
  /\ status' = [status EXCEPT ![t] = "reopened"]
  /\ UNCHANGED <<diff, hosted, record, pr, objective, run, sweep, deaths>>

\* the founder, on GitHub
Decide(t, s) ==
  /\ pr[t] = "open"
  /\ pr' = [pr EXCEPT ![t] = s]
  /\ UNCHANGED <<status, diff, hosted, record, objective, run, sweep, deaths>>

-----------------------------------------------------------------------------
(* reconcileMergedTasks *)

\* one sweep at a time, over every state file
BeginSweep ==
  /\ sweep.pc = "off"
  /\ sweep' = [pc |-> "scan", todo |-> AllTasks, at |-> {}]
  /\ UNCHANGED <<status, diff, hosted, record, pr, objective, run, deaths>>

\* pullRequestRef, deliveredWithoutPullRequest: only a finished task, by what its record says
Visit(t) ==
  /\ sweep.pc = "scan" /\ t \in sweep.todo
  /\ LET next == IF status[t] # "ready" THEN "scan"
                 ELSE CASE record[t] = "url"   -> "ask"
                        [] record[t] = "empty" -> "complete"
                        [] OTHER               -> "scan"
     IN sweep' = [pc |-> next, todo |-> sweep.todo \ {t}, at |-> IF next = "scan" THEN {} ELSE {t}]
  /\ UNCHANGED <<status, diff, hosted, record, pr, objective, run, deaths>>

\* Mutant: the node's entry in the merge log is proof enough.
Landed_OnceMergedIn(t) == t \in Nodes \cap mergeLog

\* deliveredByIntegration: carried by an integration that GitHub says is merged
Landed(t) == t \in Nodes \cap mergeLog /\ status[Integ] = "merged"

\* GitHub answers, or does not
Answer(t, answer) ==
  /\ sweep.pc = "ask" /\ sweep.at = {t}
  /\ answer \in {pr[t], "unknown"}
  /\ sweep' = [sweep EXCEPT !.pc = CASE answer = "merged" -> "merged"
                                     [] answer # "unknown" /\ Landed(t) -> "complete"
                                     [] OTHER -> "scan"]
  /\ UNCHANGED <<status, diff, hosted, record, pr, objective, run, deaths>>

\* recordMerge, recordDelivered: the status is read again in the transaction
Apply(t) ==
  /\ sweep.pc \in {"merged", "complete"} /\ sweep.at = {t}
  /\ status' = IF status[t] = "ready" THEN [status EXCEPT ![t] = sweep.pc] ELSE status
  /\ sweep' = [sweep EXCEPT !.pc = "scan", !.at = {}]
  /\ UNCHANGED <<diff, hosted, record, pr, objective, run, deaths>>

\* Mutant: only a sweep that found nothing to settle lets the next one begin.
EndSweep_FlagKept ==
  /\ sweep.pc = "scan" /\ sweep.todo = {}
  /\ \A t \in AllTasks : status[t] \notin {"merged", "complete"}
  /\ sweep' = Resting
  /\ UNCHANGED <<status, diff, hosted, record, pr, objective, run, deaths>>

EndSweep ==
  /\ sweep.pc = "scan" /\ sweep.todo = {}
  /\ sweep' = Resting
  /\ UNCHANGED <<status, diff, hosted, record, pr, objective, run, deaths>>

SweepDies ==
  /\ sweep.pc # "off" /\ deaths < MaxDeaths
  /\ sweep' = Resting /\ deaths' = deaths + 1
  /\ UNCHANGED <<status, diff, hosted, record, pr, objective, run>>

-----------------------------------------------------------------------------
Sweep(t) == Visit(t) \/ Answer(t, pr[t]) \/ Apply(t)

DeliveryNext ==
  \/ \E merged \in SUBSET Nodes : Integrate(merged)
  \/ \E t \in AllTasks :
       \/ Start(t) \/ Release(t) \/ Block(t) \/ Yield(t) \/ Die(t)
       \/ \E out \in {"url", "empty", "failed", "skipped"} : Publish(t, out)
       \/ RecordPublish(t) \/ Settle(t) \/ Republish(t) \/ Resume(t) \/ LateThrow(t)
       \/ \E s \in {"merged", "closed"} : Decide(t, s)
       \/ Sweep(t) \/ Answer(t, "unknown")
  \/ BeginSweep \/ EndSweep \/ SweepDies

\* while a task waits for its merge sweeps follow one another, and GitHub does not stay
\* silent about one pull request for ever
SomeReady == \E t \in AllTasks : status[t] = "ready"
DeliveryFairness ==
  /\ WF_deliveryVars(SomeReady /\ BeginSweep)
  /\ WF_deliveryVars(EndSweep \/ \E t \in AllTasks : Sweep(t))
  /\ \A t \in AllTasks : SF_deliveryVars(Answer(t, pr[t]))

-----------------------------------------------------------------------------
(* A task is called merged only when GitHub merged its pull request, and complete only when
   there was nothing to merge or the integration that carries its branch was merged,
   although records, pull requests and the merge log change while a sweep waits for GitHub. *)
SettledOnEvidence ==
  \A t \in AllTasks :
    /\ status[t] = "merged" => pr[t] = "merged"
    /\ status[t] = "complete" => t \notin diff \/ (t \in carried /\ pr[Integ] = "merged")

(* What classifyNodePublish makes of the publications of several runs: when an integration
   starts, no node has one that is owing, empty, failed or lost by the run that made it.  Each
   node has a recorded pull request that exists on GitHub, or was skipped before the
   repository was tried. *)
ReviewableOrSkipped ==
  node[Integ] # "pending" =>
    \A n \in Nodes : record[n] = "skipped" \/ (record[n] = "url" /\ pr[n] # "none")

(* The founder's merge is noticed: a finished task whose recorded pull request is merged does
   not stay "ready to merge" for ever. *)
MergesAreNoticed ==
  \A t \in AllTasks : []<>~(status[t] = "ready" /\ record[t] = "url" /\ pr[t] = "merged")

(* The merge log of a finished integration names every branch that is in it
   (objective-orchestrator.test.mjs:104); deliveredByIntegration settles a node's task by it. *)
MergeLogIsComplete == node[Integ] = "satisfied" => carried \subseteq mergeLog
=============================================================================
