---------------------------- MODULE ServicesProofs ----------------------------
(***************************************************************************)
(* What two services beside the engine promise: the one that delivers the  *)
(* finished work, and the one that starts work during the night.           *)
(***************************************************************************)
EXTENDS OvernightQueue, Delivery, FiniteSetTheorems, WellFoundedInduction, TLAPS

-----------------------------------------------------------------------------
(* Delivery                                                                *)
(*                                                                         *)
(* Finished work is settled on evidence, and an integration starts from    *)
(* branches that have a pull request or whose publication was skipped, for *)
(* any number of nodes, any number of sweeps that are killed and every     *)
(* interleaving of runners, sweep and GitHub.                              *)
(*                                                                         *)
(* Two inductive invariants over the same types.  Evidence follows a fact  *)
(* from GitHub to the status it ends in: what a run or a record says of an *)
(* empty branch, what the sweep has heard, which branches the merge log    *)
(* may name.  Order ties a node's place on the objective to the status of  *)
(* its task and the place of its runner, so that a node that is done stays *)
(* done with the record it was done by.                                    *)

DeliverySpec == DeliveryInit /\ [][DeliveryNext]_deliveryVars

\* Nothing of the system is a node and the integration at once.
IntegIsNoNode == Integ \notin Nodes

Finished == {"ready", "merged", "complete", "reopened"}
Results  == {"url", "empty", "failed", "skipped"}
RunStates == [pc : {"off", "work", "publish", "record", "settle"},
              log : SUBSET Nodes, out : {"none"} \cup Results]

Types ==
  /\ status \in [AllTasks -> {"working", "blocked"} \cup Finished]
  /\ record \in [AllTasks -> {"none"} \cup Results]
  /\ pr \in [AllTasks -> {"none", "open", "merged", "closed"}]
  /\ node \in [AllTasks -> {"pending", "running", "blocked", "unpublished", "satisfied"}]
  /\ run \in [AllTasks -> RunStates]
  /\ sweep \in [pc : {"off", "scan", "ask", "merged", "complete"},
                todo : SUBSET AllTasks, at : SUBSET AllTasks]
  /\ hosted \in BOOLEAN
  /\ carried \in SUBSET Nodes

\* What must be so before task t may be called complete.
Delivered(t) == t \notin diff \/ (t \in carried /\ pr[Integ] = "merged")

Evidence ==
  /\ mergeLog \subseteq carried
  /\ \A t \in AllTasks : run[t].log \subseteq carried
  /\ \A t \in AllTasks : record[t] = "empty" \/ run[t].out = "empty" => t \notin diff
  /\ \A t \in AllTasks : sweep.at = {t} =>
       /\ sweep.pc = "merged" => pr[t] = "merged"
       /\ sweep.pc = "complete" => Delivered(t)
  /\ SettledOnEvidence

\* Node n, by where its runner is.
InOrderAt(n) ==
  /\ node[n] = "pending" => run[n].pc = "off" /\ status[n] = "working"
  /\ run[n].pc = "work" => status[n] = "working"
  /\ run[n].pc # "off" => node[n] \in {"running", "unpublished"}
  /\ run[n].pc \in {"publish", "record"} => status[n] \in Finished
  /\ run[n].pc = "record" => run[n].out # "none"
  /\ run[n].pc = "settle" /\ status[n] \in Finished => record[n] # "none"
  /\ run[n].pc = "settle" => status[n] # "working"
  /\ node[n] \in {"unpublished", "satisfied"} => status[n] \in Finished
  /\ record[n] = "url" \/ run[n].out = "url" => pr[n] # "none"
  /\ node[n] = "satisfied" => run[n].pc = "off" /\ record[n] \in {"url", "skipped"}

Order ==
  /\ \A n \in Nodes : InOrderAt(n)
  /\ node[Integ] # "pending" \/ run[Integ].pc # "off" => \A n \in Nodes : node[n] = "satisfied"

LEMMA InitTypes == DeliveryInit => Types
BY DEF DeliveryInit, Types, RunStates, Results, Finished, AllTasks, Off, Resting

\* A run whose place or result is changed is a run.
LEMMA RunMoves ==
  ASSUME NEW r \in RunStates, NEW o \in Results
  PROVE  [r EXCEPT !.pc = "record", !.out = o] \in RunStates
BY DEF RunStates

LEMMA RunGoes ==
  ASSUME NEW f \in [AllTasks -> RunStates], NEW t \in AllTasks,
         NEW pc \in {"off", "work", "publish", "record", "settle"}
  PROVE  [f EXCEPT ![t].pc = pc] \in [AllTasks -> RunStates]
BY DEF RunStates

\* Where a runner goes changes nothing of what it merged and of what publishing gave.
LEMMA RunGoesOn ==
  ASSUME Types, NEW t \in AllTasks, NEW u \in AllTasks
  PROVE  /\ \A pc : /\ [run EXCEPT ![t].pc = pc][u].log = run[u].log
                     /\ [run EXCEPT ![t].pc = pc][u].out = run[u].out
                     /\ [run EXCEPT ![t].pc = pc][u].pc = IF u = t THEN pc ELSE run[u].pc
         /\ [run EXCEPT ![t] = Off][u] = IF u = t THEN Off ELSE run[u]
         /\ Off.log = {} /\ Off.out = "none" /\ Off.pc = "off"
BY DEF Types, RunStates, Off

\* What the objective notes when a run is over.
LEMMA SettleFields ==
  ASSUME NEW t, Settle(t)
  PROVE  /\ run' = [run EXCEPT ![t] = Off]
         /\ mergeLog' = mergeLog \/ mergeLog' = run[Integ].log
         /\ UNCHANGED <<status, diff, hosted, record, pr, built, carried, sweep, deaths>>
         /\ run[t].pc = "settle"
         /\ t \in Nodes => node' = [node EXCEPT ![t] = IF status[t] # "ready" THEN "blocked"
                                     ELSE IF Published(t) THEN "satisfied" ELSE "unpublished"]
         /\ t \notin Nodes => node' = [node EXCEPT ![Integ] = IF status[t] = "ready"
                                          THEN "satisfied" ELSE "blocked"]
BY DEF Settle, EndRun, Note, Patch

\* Every step keeps the shapes of the variables.
LEMMA StepTypes ==
  ASSUME Types, [DeliveryNext]_deliveryVars
  PROVE  Types'
<1> USE DEF Types, Move, EndRun, Off, Note, Patch, objective, Finished, Results, RunStates
<1> Integ \in AllTasks /\ Nodes \subseteq AllTasks
  BY DEF AllTasks
<1>1. ASSUME NEW merged \in SUBSET Nodes, Integrate(merged)
      PROVE  Types'
  <2>1. run' \in [AllTasks -> RunStates]
    <3>1. merged = Nodes => [run[Integ] EXCEPT !.log = merged] \in RunStates
      OBVIOUS
    <3>2. QED
      BY <1>1, <3>1 DEF Integrate
  <2>2. status' \in [AllTasks -> {"working", "blocked"} \cup Finished]
    BY <1>1 DEF Integrate
  <2>3. QED
    BY <1>1, <2>1, <2>2 DEF Integrate
<1>2. ASSUME NEW t \in AllTasks, Start(t)
      PROVE  Types'
  BY <1>2 DEF Start
<1>3. ASSUME NEW t \in AllTasks, Release(t) \/ Block(t) \/ Yield(t) \/ Die(t)
      PROVE  Types'
  <2>1. run' \in [AllTasks -> RunStates]
    <3>1. CASE Release(t)
      <4>1. run' = [run EXCEPT ![t].pc = "publish"]
        BY <3>1 DEF Release
      <4>2. QED
        BY <4>1, RunGoes
    <3>2. CASE Block(t)
      BY <3>2, SMTT(20) DEF Block
    <3>3. CASE Yield(t) \/ Die(t)
      BY <3>3 DEF Yield, Die
    <3>4. QED
      BY <1>3, <3>1, <3>2, <3>3
  <2>2. status' \in [AllTasks -> {"working", "blocked"} \cup Finished]
    BY <1>3 DEF Release, Block, Yield, Die
  <2>3. UNCHANGED <<record, pr, node, sweep, hosted, carried>>
    BY <1>3 DEF Release, Block, Yield, Die
  <2>4. QED
    BY <2>1, <2>2, <2>3
<1>4. ASSUME NEW t \in AllTasks, NEW out \in {"url", "empty", "failed", "skipped"}, Publish(t, out)
      PROVE  Types'
  <2>1. run' \in [AllTasks -> RunStates]
    <3>1. [run[t] EXCEPT !.pc = "record", !.out = out] \in RunStates
      <4>1. run[t] \in RunStates
        OBVIOUS
      <4>2. QED
        BY <4>1, RunMoves, ZenonT(40)
    <3>2. run' = [run EXCEPT ![t] = [run[t] EXCEPT !.pc = "record", !.out = out]]
      BY <1>4 DEF Publish
    <3>3. QED
      BY <3>1, <3>2
  <2>2. pr' \in [AllTasks -> {"none", "open", "merged", "closed"}]
    BY <1>4 DEF Publish
  <2>3. UNCHANGED <<status, record, node, sweep, hosted, carried>>
    BY <1>4 DEF Publish
  <2>4. QED
    BY <2>1, <2>2, <2>3
<1>5. ASSUME NEW t \in AllTasks, RecordPublish(t) \/ Settle(t) \/ Republish(t)
      PROVE  Types'
  <2>1. CASE RecordPublish(t)
    BY <2>1 DEF RecordPublish
  <2>2. CASE Settle(t)
    BY <2>2 DEF Settle
  <2>3. CASE Republish(t)
    BY <2>3, SMTT(20) DEF Republish
  <2>4. QED
    BY <1>5, <2>1, <2>2, <2>3
<1>6. ASSUME NEW t \in AllTasks, Resume(t) \/ LateThrow(t)
      PROVE  Types'
  <2>1. CASE Resume(t)
    BY <2>1 DEF Resume
  <2>2. CASE LateThrow(t)
    BY <2>2 DEF LateThrow
  <2>3. QED
    BY <1>6, <2>1, <2>2
<1>7. ASSUME NEW t \in AllTasks, NEW s \in {"merged", "closed"}, Decide(t, s)
      PROVE  Types'
  BY <1>7 DEF Decide
<1>8. ASSUME NEW t \in AllTasks, Visit(t) \/ Apply(t)
      PROVE  Types'
  <2>1. CASE Visit(t)
    BY <2>1 DEF Visit
  <2>2. CASE Apply(t)
    BY <2>2 DEF Apply
  <2>3. QED
    BY <1>8, <2>1, <2>2
<1>9. ASSUME NEW t \in AllTasks, NEW answer, Answer(t, answer)
      PROVE  Types'
  BY <1>9 DEF Answer
<1>10. ASSUME BeginSweep \/ EndSweep \/ SweepDies
       PROVE  Types'
  <2>1. sweep' \in [pc : {"off", "scan", "ask", "merged", "complete"},
                    todo : SUBSET AllTasks, at : SUBSET AllTasks]
    BY <1>10 DEF BeginSweep, EndSweep, SweepDies, Resting
  <2>2. UNCHANGED <<status, record, pr, node, run, hosted, carried>>
    BY <1>10 DEF BeginSweep, EndSweep, SweepDies
  <2>3. QED
    BY <2>1, <2>2
<1>11. CASE UNCHANGED deliveryVars
  BY <1>11 DEF deliveryVars
<1>12. QED
  BY <1>1, <1>2, <1>3, <1>4, <1>5, <1>6, <1>7, <1>8, <1>9, <1>10, <1>11 DEF DeliveryNext, Sweep

-----------------------------------------------------------------------------
(* Settled on evidence *)

LEMMA InitEvidence == DeliveryInit => Evidence
BY DEF DeliveryInit, Evidence, SettledOnEvidence, Off, Resting, Delivered

\* A pull request that is merged stays merged, and so does what was delivered.
LEMMA MergedStays ==
  ASSUME Types, [DeliveryNext]_deliveryVars, NEW t \in AllTasks
  PROVE  /\ pr[t] = "merged" => pr'[t] = "merged"
         /\ carried \subseteq carried' /\ UNCHANGED diff
<1>1. pr[t] = "merged" => pr'[t] = "merged"
  BY ZenonT(60) DEF DeliveryNext, deliveryVars, Sweep, Integrate, Start, Release, Block, Yield, Die, Publish,
         RecordPublish, Settle, Republish, Resume, LateThrow, Decide, Visit, Answer, Apply,
         BeginSweep, EndSweep, SweepDies, Types
<1>2. carried \subseteq carried' /\ UNCHANGED diff
  BY DEF DeliveryNext, deliveryVars, Sweep, Integrate, Start, Release, Block, Yield, Die, Publish,
         RecordPublish, Settle, Republish, Resume, LateThrow, Decide, Visit, Answer, Apply,
         BeginSweep, EndSweep, SweepDies, objective
<1>3. QED
  BY <1>1, <1>2

LEMMA DeliveredStays ==
  ASSUME Types, [DeliveryNext]_deliveryVars, NEW t \in AllTasks, Delivered(t)
  PROVE  Delivered(t)'
<1>1. Integ \in AllTasks
  BY DEF AllTasks
<1>2. QED
  BY <1>1, MergedStays DEF Delivered

\* A step that leaves records, runs, the merge log and the statuses of settled tasks alone,
\* and asks nothing new of the sweep, keeps the evidence.
LEMMA StepEvidence ==
  ASSUME Types, Evidence, [DeliveryNext]_deliveryVars
  PROVE  Evidence'
<1> USE DEF Types, Evidence, SettledOnEvidence, Move, EndRun, Note, Patch, objective
<1>0. /\ Integ \in AllTasks /\ Nodes \subseteq AllTasks
      /\ \A t \in AllTasks : pr[t] = "merged" => pr'[t] = "merged"
      /\ \A t \in AllTasks : Delivered(t) => Delivered(t)'
      /\ carried \subseteq carried' /\ UNCHANGED diff
  BY MergedStays, DeliveredStays DEF AllTasks
<1>1. ASSUME NEW merged \in SUBSET Nodes, Integrate(merged)
      PROVE  Evidence'
  <2>1. /\ carried' = carried \cup merged /\ UNCHANGED <<diff, hosted, record, pr, sweep, deaths>>
        /\ mergeLog' = mergeLog \/ mergeLog' = merged
        /\ \A u \in AllTasks : status'[u] \in {status[u], "blocked"}
    BY <1>1 DEF Integrate
  <2>2. \A u \in AllTasks : /\ run'[u].log \subseteq carried'
                          /\ run'[u].out \in {run[u].out, "none"}
    BY <1>1, <2>1, RunGoesOn DEF Integrate, RunStates
  <2>3. QED
    BY <1>0, <2>1, <2>2
<1>2. ASSUME NEW t \in AllTasks, Start(t)
      PROVE  Evidence'
  BY <1>0, <1>2 DEF Start, Delivered, Off
<1>3. ASSUME NEW t \in AllTasks, Release(t) \/ Block(t) \/ Yield(t) \/ Die(t)
      PROVE  Evidence'
  <2>1. /\ UNCHANGED <<record, mergeLog, sweep, carried, pr>>
        /\ run' = [run EXCEPT ![t].pc = "publish"] \/ run' = [run EXCEPT ![t].pc = "settle"]
             \/ run' = [run EXCEPT ![t] = Off]
    BY <1>3 DEF Release, Block, Yield, Die
  <2>2. ASSUME NEW u \in AllTasks
        PROVE  run'[u].log \subseteq carried /\ run'[u].out \in {run[u].out, "none"}
    <3>1. CASE run' = [run EXCEPT ![t] = Off]
      BY <3>1, RunGoesOn
    <3>2. CASE run' = [run EXCEPT ![t].pc = "publish"]
      BY <3>2, RunGoesOn
    <3>3. CASE run' = [run EXCEPT ![t].pc = "settle"]
      BY <3>3, RunGoesOn
    <3>4. QED
      BY <2>1, <3>1, <3>2, <3>3
  <2>3. \A u \in AllTasks : status'[u] \in {status[u], "ready", "blocked"}
    BY <1>3 DEF Release, Block, Yield, Die
  <2>4. QED
    BY <1>0, <2>1, <2>2, <2>3
<1>4. ASSUME NEW t \in AllTasks, NEW out \in {"url", "empty", "failed", "skipped"}, Publish(t, out)
      PROVE  Evidence'
  BY <1>0, <1>4 DEF Publish, Delivered
<1>5. ASSUME NEW t \in AllTasks, RecordPublish(t) \/ Settle(t) \/ Republish(t)
      PROVE  Evidence'
  <2>1. CASE RecordPublish(t)
    BY <1>0, <2>1 DEF RecordPublish, RunStates
  <2>2. CASE Settle(t)
    <3>1. \A u \in AllTasks : run'[u].log \subseteq carried /\ run'[u].out \in {run[u].out, "none"}
      BY <2>2, SettleFields, RunGoesOn
    <3>2. mergeLog' \subseteq carried /\ UNCHANGED <<status, record, pr, carried, sweep>>
      BY <1>0, <2>2, SettleFields
    <3>3. QED
      BY <1>0, <3>1, <3>2
  <2>3. CASE Republish(t)
    BY <1>0, <2>3 DEF Republish, RunStates
  <2>4. QED
    BY <1>5, <2>1, <2>2, <2>3
<1>6. ASSUME NEW t \in AllTasks, Resume(t) \/ LateThrow(t)
      PROVE  Evidence'
  BY <1>0, <1>6 DEF Resume, LateThrow, Delivered
<1>7. ASSUME NEW t \in AllTasks, NEW s \in {"merged", "closed"}, Decide(t, s)
      PROVE  Evidence'
  BY <1>0, <1>7 DEF Decide, Delivered
<1>8. ASSUME NEW t \in AllTasks, Visit(t) \/ Apply(t)
      PROVE  Evidence'
  <2>1. UNCHANGED <<record, run, mergeLog, pr, carried>>
    BY <1>8 DEF Visit, Apply
  <2>2. CASE Visit(t)
    <3>1. /\ UNCHANGED status /\ sweep'.pc # "merged"
          /\ sweep'.pc = "complete" => sweep'.at = {t} /\ record[t] = "empty"
      BY <2>2 DEF Visit
    <3>2. \A u \in AllTasks : sweep'.at = {u} /\ sweep'.pc = "complete" => Delivered(u)'
      <4>1. sweep'.pc = "complete" => t \notin diff
        BY <3>1
      <4>2. QED
        BY <1>0, <3>1, <4>1 DEF Delivered
    <3>3. QED
      BY <1>0, <2>1, <3>1, <3>2
  <2>3. CASE Apply(t)
    <3>1. /\ sweep'.pc = "scan" /\ sweep.at = {t}
          /\ \A u \in AllTasks : status'[u] # status[u] => u = t /\ status'[u] = sweep.pc
      BY <2>3 DEF Apply
    <3>2. \A u \in AllTasks : (status'[u] = "merged" => pr'[u] = "merged")
                           /\ (status'[u] = "complete" => Delivered(u)')
      BY <1>0, <2>1, <2>3, <3>1 DEF Apply, Delivered
    <3>3. QED
      BY <1>0, <2>1, <3>1, <3>2 DEF Delivered
  <2>4. QED
    BY <1>8, <2>2, <2>3
<1>9. ASSUME NEW t \in AllTasks, NEW answer, Answer(t, answer)
      PROVE  Evidence'
  BY <1>0, <1>9 DEF Answer, Landed, Delivered
<1>10. ASSUME BeginSweep \/ EndSweep \/ SweepDies
       PROVE  Evidence'
  BY <1>0, <1>10 DEF BeginSweep, EndSweep, SweepDies, Resting, Delivered
<1>11. CASE UNCHANGED deliveryVars
  BY <1>11 DEF deliveryVars, Delivered
<1>12. QED
  BY <1>1, <1>2, <1>3, <1>4, <1>5, <1>6, <1>7, <1>8, <1>9, <1>10, <1>11 DEF DeliveryNext, Sweep

\* A task is called merged or complete only on what GitHub or the record says (recordMerge,
\* recordDelivered, deliveredByIntegration), whatever changes while a sweep waits.
THEOREM AlwaysSettledOnEvidence == DeliverySpec => []SettledOnEvidence
<1>1. Evidence => SettledOnEvidence
  BY DEF Evidence
<1>2. QED
  BY InitTypes, StepTypes, InitEvidence, StepEvidence, <1>1, PTL DEF DeliverySpec

-----------------------------------------------------------------------------
(* Reviewable, or skipped *)

LEMMA InitOrder == DeliveryInit => Order
BY DEF DeliveryInit, Order, InOrderAt, Off, AllTasks, Finished

\* A step of another task, of GitHub or of the sweep takes no pull request away and moves a
\* node's status only within Finished.
LEMMA OthersSteps ==
  ASSUME NEW n, InOrderAt(n), UNCHANGED <<node[n], run[n], record[n]>>,
         pr'[n] = pr[n] \/ pr'[n] # "none",
         status'[n] = status[n] \/ {status[n], status'[n]} \subseteq Finished
  PROVE  InOrderAt(n)'
BY DEF InOrderAt, Finished

LEMMA StepOrderAt ==
  ASSUME Types, Order, IntegIsNoNode, [DeliveryNext]_deliveryVars, NEW n \in Nodes
  PROVE  InOrderAt(n)'
<1> USE DEF Types, IntegIsNoNode, Move, EndRun, Note, Patch, objective
<1>0. n \in AllTasks /\ Integ \in AllTasks /\ n # Integ /\ InOrderAt(n)
  BY DEF AllTasks, Order
<1>1. ASSUME NEW merged \in SUBSET Nodes, Integrate(merged)
      PROVE  InOrderAt(n)'
  BY <1>0, <1>1, OthersSteps DEF Integrate
<1>2. ASSUME NEW t \in AllTasks, Start(t)
      PROVE  InOrderAt(n)'
  BY <1>0, <1>2, OthersSteps DEF Start, MayRun, InOrderAt, RunStates, Off
<1>3. ASSUME NEW t \in AllTasks, Release(t) \/ Block(t) \/ Yield(t) \/ Die(t)
      PROVE  InOrderAt(n)'
  BY <1>0, <1>3 DEF Release, Block, Yield, Die, InOrderAt, RunStates, Off, Finished
<1>4. ASSUME NEW t \in AllTasks, NEW out \in {"url", "empty", "failed", "skipped"}, Publish(t, out)
      PROVE  InOrderAt(n)'
  <2>1. /\ pr'[n] = pr[n] \/ pr'[n] # "none"
        /\ t = n /\ out = "url" => pr'[n] # "none"
    BY <1>0, <1>4 DEF Publish
  <2>2. /\ run'[n].pc = IF t = n THEN "record" ELSE run[n].pc
        /\ run'[n].out = IF t = n THEN out ELSE run[n].out
        /\ t = n => run[n].pc = "publish"
    BY <1>0, <1>4 DEF Publish, RunStates
  <2>3. QED
    BY <1>0, <1>4, <2>1, <2>2 DEF Publish, InOrderAt
<1>5. ASSUME NEW t \in AllTasks, RecordPublish(t)
      PROVE  InOrderAt(n)'
  BY <1>0, <1>5 DEF RecordPublish, InOrderAt, RunStates, Finished
<1>6. ASSUME NEW t \in AllTasks, Settle(t)
      PROVE  InOrderAt(n)'
  BY <1>0, <1>6, SettleFields, RunGoesOn DEF InOrderAt, Finished, Published
<1>7. ASSUME NEW t \in AllTasks, Republish(t)
      PROVE  InOrderAt(n)'
  BY <1>0, <1>7 DEF Republish, InOrderAt, RunStates, Finished
<1>8. ASSUME NEW t \in AllTasks, Resume(t) \/ LateThrow(t)
      PROVE  InOrderAt(n)'
  BY <1>0, <1>8 DEF Resume, LateThrow, InOrderAt, Finished
<1>9. ASSUME NEW t \in AllTasks, (\E s \in {"merged", "closed"} : Decide(t, s)) \/ Visit(t)
      PROVE  InOrderAt(n)'
  BY <1>0, <1>9, OthersSteps DEF Decide, Visit
<1>10. ASSUME NEW t \in AllTasks, Apply(t)
       PROVE  InOrderAt(n)'
  BY <1>0, <1>10, OthersSteps DEF Apply, Finished
<1>11. ASSUME NEW t \in AllTasks, NEW answer, Answer(t, answer)
       PROVE  InOrderAt(n)'
  BY <1>0, <1>11, OthersSteps DEF Answer
<1>12. ASSUME BeginSweep \/ EndSweep \/ SweepDies \/ UNCHANGED deliveryVars
       PROVE  InOrderAt(n)'
  BY <1>0, <1>12, OthersSteps DEF BeginSweep, EndSweep, SweepDies, deliveryVars
<1>13. QED
  BY <1>1, <1>2, <1>3, <1>4, <1>5, <1>6, <1>7, <1>8, <1>9, <1>10, <1>11, <1>12
     DEF DeliveryNext, Sweep

\* The integration is started only when every node is done, and a node that is done stays so.
LEMMA StepOrder ==
  ASSUME Types, Order, IntegIsNoNode, [DeliveryNext]_deliveryVars
  PROVE  Order'
<1> USE DEF Types, IntegIsNoNode, Move, EndRun, Note, Patch, objective
<1> DEFINE Begun == node[Integ] # "pending" \/ run[Integ].pc # "off"
           AllDone == \A n \in Nodes : node[n] = "satisfied"
<1>0. Integ \in AllTasks /\ \A n \in Nodes : n \in AllTasks /\ n # Integ /\ InOrderAt(n)
  BY DEF AllTasks, Order
<1>1. Begun => AllDone
  BY DEF Order
<1>2. AllDone => AllDone'
  <2> SUFFICES ASSUME NEW n \in Nodes, node[n] = "satisfied"
               PROVE  node'[n] = "satisfied"
    OBVIOUS
  <2>0. run[n].pc = "off" /\ status[n] \in Finished
    BY <1>0 DEF InOrderAt
  <2>1. ASSUME NEW merged \in SUBSET Nodes, Integrate(merged)
        PROVE  node'[n] = node[n]
    BY <1>0, <2>1 DEF Integrate
  <2>2. ASSUME NEW t \in AllTasks, Start(t)
        PROVE  node'[n] = node[n]
    BY <1>0, <2>2 DEF Start, MayRun
  <2>3. ASSUME NEW t \in AllTasks, Settle(t)
        PROVE  node'[n] = node[n]
    BY <1>0, <2>0, <2>3, SettleFields
  <2>4. ASSUME NEW t \in AllTasks, Resume(t)
        PROVE  node'[n] = node[n]
    BY <1>0, <2>0, <2>4 DEF Resume, Finished
  <2>5. CASE UNCHANGED node
    BY <2>5
  <2>6. QED
    BY <2>1, <2>2, <2>3, <2>4, <2>5
       DEF DeliveryNext, Sweep, Release, Block, Yield, Die, Publish, RecordPublish, Republish,
           LateThrow, Decide, Visit, Answer, Apply, BeginSweep, EndSweep, SweepDies, deliveryVars
<1>3. ASSUME ~Begun, Begun'
      PROVE  AllDone
  <2>1. ASSUME NEW merged \in SUBSET Nodes, Integrate(merged)
        PROVE  FALSE
    BY <1>0, <1>3, <2>1 DEF Integrate
  <2>2. ASSUME NEW t \in AllTasks, Start(t)
        PROVE  AllDone
    BY <1>0, <1>3, <2>2 DEF Start, MayRun, RunStates
  <2>3. ASSUME NEW t \in AllTasks,
               Release(t) \/ Block(t) \/ Yield(t) \/ Die(t) \/ RecordPublish(t) \/ Republish(t)
        PROVE  FALSE
    BY <1>0, <1>3, <2>3, RunGoesOn DEF Release, Block, Yield, Die, RecordPublish, Republish
  <2>4. ASSUME NEW t \in AllTasks, Settle(t)
        PROVE  FALSE
    BY <1>0, <1>3, <2>4, SettleFields, RunGoesOn DEF AllTasks
  <2>5. ASSUME NEW t \in AllTasks, NEW out \in {"url", "empty", "failed", "skipped"}, Publish(t, out)
        PROVE  FALSE
    BY <1>0, <1>3, <2>5 DEF Publish, RunStates
  <2>6. ASSUME NEW t \in AllTasks, Resume(t)
        PROVE  FALSE
    BY <1>0, <1>3, <2>6 DEF Resume
  <2>7. CASE UNCHANGED <<node, run>>
    BY <1>3, <2>7
  <2>8. QED
    BY <2>1, <2>2, <2>3, <2>4, <2>5, <2>6, <2>7
       DEF DeliveryNext, Sweep, LateThrow, Decide, Visit, Answer, Apply, BeginSweep, EndSweep,
           SweepDies, deliveryVars
<1>4. Begun' => AllDone'
  BY <1>1, <1>2, <1>3
<1>5. \A n \in Nodes : InOrderAt(n)'
  BY StepOrderAt
<1>6. QED
  BY <1>4, <1>5 DEF Order

\* No node's publication is owing, empty or failed when the integration starts, whichever run
\* made it last and whichever runs were lost (classifyNodePublish, recordNodePublish): there is
\* a recorded pull request, or the record says that the repository was not tried.
THEOREM AlwaysReviewableOrSkipped ==
  ASSUME IntegIsNoNode
  PROVE  DeliverySpec => []ReviewableOrSkipped
<1>1. Order => ReviewableOrSkipped
  BY DEF Order, InOrderAt, ReviewableOrSkipped
<1>2. QED
  BY InitTypes, StepTypes, InitOrder, StepOrder, <1>1, PTL DEF DeliverySpec

-----------------------------------------------------------------------------
(* The queue of the night                                                  *)
(*                                                                         *)
(* The items of the night are honest, for any number of processes, items   *)
(* and restarts.                                                           *)
(*                                                                         *)
(* What a status says needs only that an answer carries its item.  That an *)
(* item is spawned once per process is a count: a spawn still owed is owed *)
(* from the moment the item was chosen, and it is chosen only before       *)
(* anybody started it, when nothing was spawned for it yet.  That nothing  *)
(* is left running where one process is alone ties every place of a call   *)
(* to the owner of the queue.                                              *)

NightSpec == NightInit /\ [][NightNext]_nightVars

\* The bounds are numbers and the sharing processes finitely many.
NightBounds ==
  /\ MaxItems \in [Users -> Nat] /\ MaxPids \in [Users -> Nat]
  /\ \A u \in Users : IsFiniteSet(u)

Pcs == Ops \cup {Settling[op] : op \in Ops}
       \cup {"idle", "next", "drain", "launch", "spawn", "finish"}
Calls == [pc : Pcs, saw : SUBSET {"running", "queued", "stop"}, item : Nat, ok : BOOLEAN]
Statuses == {"idle", "running", "stopped", "needs-attention", "complete"}
Items == Seq({"queued", "running", "complete", "failed", "removed"})
Queues == [status : Statuses, items : Items, stop : BOOLEAN, owner : Nat]

Typed ==
  /\ users \in Users
  /\ q \in Queues /\ Len(q.items) <= MaxItems[users]
  /\ pid \in [AllUsers -> Nat] /\ lastPid \in Nat
  /\ inFlight \in [AllUsers -> BOOLEAN]
  /\ child \in [AllUsers -> Nat]
  /\ at \in [AllUsers -> Calls]
  /\ said \in [1..MaxItems[users] -> Statuses \cup {"none"}]
  /\ spawned \in [1..MaxItems[users] -> Nat]

\* What a process works on is in the list, and is started once it was marked.
Pointed ==
  /\ started \subseteq 1 .. Len(q.items)
  /\ \A i \in 1 .. Len(q.items) : q.items[i] = "queued" => i \notin started
  /\ \A i \in 1..MaxItems[users] : said[i] # "none" => i \in started
  /\ \A p \in AllUsers :
       /\ child[p] # 0 => child[p] \in started
       /\ at[p].pc \in {"spawn", "finish"} => at[p].item \in started
       /\ at[p].pc = "launch" => at[p].item \in 1 .. Len(q.items)

Earned ==
  /\ \A i \in 1 .. Len(q.items) : q.items[i] = "complete" => i \in earned
  /\ \A p \in AllUsers : at[p].ok => at[p].item \in earned

\* The processes that have chosen an item and not spawned its child yet.
Owing(i) == {p \in users : at[p].pc \in {"launch", "spawn"} /\ at[p].item = i}

Counted ==
  \A i \in 1..MaxItems[users] :
    /\ i \notin started => spawned[i] = 0
    /\ spawned[i] + Cardinality(Owing(i)) <= Cardinality(users)

SharedInv == Typed /\ Pointed /\ Earned /\ Counted

\* Where one process is alone, its calls, its child and its flag agree with the queue.
Solo(p) ==
  /\ q.owner <= lastPid /\ pid[p] <= lastPid
  /\ at[p].pc # "idle" => pid[p] # 0
  /\ at[p].pc \in {"next", "drain", "launch", "spawn", "finish"} \/ child[p] # 0 \/ inFlight[p]
       => pid[p] # 0 /\ q.status = "running" /\ q.owner = pid[p]
  /\ pid[p] # 0 /\ q.status = "running" /\ q.owner = pid[p] =>
       inFlight[p] \/ at[p].pc = "next"
  /\ at[p].pc = "next" => ~inFlight[p]
  /\ at[p].pc \in {"drain", "launch", "spawn", "finish"} \/ child[p] # 0 => inFlight[p]
  /\ at[p].pc \in {"next", "drain", "launch", "spawn"} => child[p] = 0
  /\ at[p].pc = "finish" => child[p] \in {0, at[p].item}
  /\ at[p].pc \in {Settling[op] : op \in Ops} =>
       q.status = "running" /\ child[p] = 0 /\ ~inFlight[p]
  /\ at[p].pc = "start" => ("running" \in at[p].saw <=> q.status = "running")

\* And only what it holds is running.
Held(p) ==
  /\ q.status # "running" => \A i \in 1 .. Len(q.items) : q.items[i] # "running"
  /\ pid[p] # 0 /\ q.owner = pid[p] =>
       \A i \in 1 .. Len(q.items) :
         q.items[i] = "running" =>
           i = child[p] \/ (at[p].pc \in {"spawn", "finish"} /\ i = at[p].item)
  /\ at[p].pc = "launch" => q.items[at[p].item] = "queued"
  /\ at[p].pc \in {"spawn", "finish"} => said[at[p].item] = "none"
  /\ child[p] # 0 => said[child[p]] = "none"

AloneInv == \A p \in users : users = {p} => Solo(p) /\ Held(p)

-----------------------------------------------------------------------------
(* What each step changes                                                  *)

\* A step of p leaves the other processes' calls, children and flags alone.
Others(p) ==
  /\ users' = users
  /\ \A r \in AllUsers \ {p} :
       at'[r] = at[r] /\ child'[r] = child[r] /\ inFlight'[r] = inFlight[r]

LEMMA Members ==
  ASSUME NightBounds, Typed, NEW p \in users
  PROVE  /\ p \in AllUsers /\ at[p] \in Calls /\ users \in Users
         /\ MaxItems[users] \in Nat /\ MaxPids[users] \in Nat /\ IsFiniteSet(users)
         /\ q.items \in Items /\ Len(q.items) \in Nat /\ DOMAIN q.items = 1 .. Len(q.items)
         /\ q.status \in Statuses /\ q.owner \in Nat /\ q.stop \in BOOLEAN
BY DEF NightBounds, Typed, AllUsers, Queues, Items

LEMMA SettlingIs ==
  {Settling[op] : op \in Ops} = {"settle add", "settle remove", "settle start", "settle stop"}
<1>1. /\ Settling["add"] = "settle add" /\ Settling["remove"] = "settle remove"
      /\ Settling["start"] = "settle start" /\ Settling["stop"] = "settle stop"
  BY DEF Settling
<1>2. QED
  BY <1>1 DEF Ops

LEMMA SettlingTyped ==
  ASSUME NEW op \in Ops
  PROVE  /\ Settling[op] \in Pcs /\ op \in Pcs
         /\ Settling[op] \notin Ops \cup {"idle", "next", "drain", "launch", "spawn", "finish"}
         /\ Settling[op] \in {Settling[o] : o \in Ops}
         /\ op \notin {Settling[o] : o \in Ops}
<1>1. Settling[op] \in {Settling[o] : o \in Ops}
  OBVIOUS
<1>2. QED
  BY <1>1, SettlingIs DEF Pcs, Ops

LEMMA PlainPcs ==
  /\ {"idle", "next", "drain", "launch", "spawn", "finish"} \subseteq Pcs
  /\ \A pc \in {"idle", "next", "drain", "launch", "spawn", "finish"} \cup Ops :
       pc \notin {Settling[o] : o \in Ops}
BY SettlingIs DEF Pcs, Ops

LEMMA LeastItem ==
  ASSUME NEW S, S \subseteq Nat, S # {}
  PROVE  \E m \in S : \A k \in S : m <= k
<1>1. PICK m \in S : \A k \in S : <<k, m>> \notin OpToRel(<, Nat)
  BY WFMin, NatLessThanWellFounded, Zenon
<1>2. \A k \in S : ~(k < m)
  BY <1>1, Zenon DEF OpToRel
<1>3. QED
  BY <1>2

LEMMA WaitingTyped == Waiting \in Calls
BY PlainPcs DEF Waiting, Calls

\* The call of p becomes c.
Becomes(p, c) == at' = [at EXCEPT ![p] = c]

LEMMA CallSet ==
  ASSUME Typed, NEW p \in AllUsers, NEW c \in Calls, Becomes(p, c)
  PROVE  /\ at' \in [AllUsers -> Calls] /\ at'[p] = c
         /\ \A r \in AllUsers \ {p} : at'[r] = at[r]
BY DEF Typed, Becomes

LEMMA CallMoved ==
  ASSUME NEW c \in Calls, NEW pc \in Pcs
  PROVE  LET m == [c EXCEPT !.pc = pc]
         IN m \in Calls /\ m.pc = pc /\ m.item = c.item /\ m.ok = c.ok /\ m.saw = c.saw
BY DEF Calls

\* The status of the queue and of the items, changed one at a time.
LEMMA QueueFields ==
  ASSUME NEW r \in Queues, NEW i \in 1 .. Len(r.items),
         NEW s \in {"queued", "running", "complete", "failed", "removed"},
         NEW n, n = [r EXCEPT !.items[i] = s]
  PROVE  /\ n \in Queues /\ Len(n.items) = Len(r.items)
         /\ n.status = r.status /\ n.owner = r.owner /\ n.stop = r.stop
         /\ n.items[i] = s
         /\ \A j \in 1 .. Len(r.items) : j # i => n.items[j] = r.items[j]
<1> DEFINE items == [r.items EXCEPT ![i] = s]
           m == [r EXCEPT !.items = items]
<1>1. r.items \in Items /\ Len(r.items) \in Nat
  BY DEF Queues, Items
<1>2. /\ items \in Items /\ Len(items) = Len(r.items) /\ items[i] = s
      /\ \A j \in 1 .. Len(r.items) : j # i => items[j] = r.items[j]
  BY <1>1 DEF Items
<1>3. n = m
  BY DEF Queues
<1> HIDE DEF items
<1>4. /\ m \in Queues /\ m.items = items
      /\ m.status = r.status /\ m.owner = r.owner /\ m.stop = r.stop
  BY <1>2 DEF Queues
<1> HIDE DEF m
<1>5. QED
  BY <1>2, <1>3, <1>4

LEMMA CallFields ==
  ASSUME NightBounds, Typed, NEW p \in users, NEW op \in Ops, Call(p, op)
  PROVE  /\ Typed' /\ Others(p)
         /\ UNCHANGED <<q, pid, lastPid, inFlight, child, started, said, spawned, earned>>
         /\ pid[p] # 0 /\ at[p].pc = "idle" /\ at'[p].ok = FALSE
         /\ at'[p].saw = Facts(q)
         /\ LET gone == q.status = "running" /\ ~Alive(p, q.owner)
            IN at'[p].pc = IF gone THEN Settling[op] ELSE op
<1> DEFINE gone == q.status = "running" /\ ~Alive(p, q.owner)
           pc == IF gone THEN Settling[op] ELSE op
           c == [Waiting EXCEPT !.pc = pc, !.saw = Facts(q)]
<1>1. p \in AllUsers /\ pc \in Pcs
  BY Members, SettlingTyped
<1>2. Becomes(p, c)
  BY DEF Call, Becomes
<1> HIDE DEF gone, pc
<1>3. Facts(q) \in SUBSET {"running", "queued", "stop"}
  BY DEF Facts
<1>4. c \in Calls /\ c.pc = pc /\ c.ok = FALSE /\ c.saw = Facts(q)
  BY <1>1, <1>3, WaitingTyped DEF Waiting, Calls
<1> HIDE DEF c
<1>5. /\ at' \in [AllUsers -> Calls] /\ at'[p] = c
      /\ \A r \in AllUsers \ {p} : at'[r] = at[r]
  BY <1>1, <1>2, <1>4, CallSet
<1>6. /\ UNCHANGED <<q, pid, lastPid, inFlight, child, started, said, spawned, earned, users>>
      /\ pid[p] # 0 /\ at[p].pc = "idle"
  BY DEF Call, stored
<1>7. Typed'
  BY <1>5, <1>6 DEF Typed, AllUsers
<1>8. Others(p)
  BY <1>5, <1>6 DEF Others
<1>9. QED
  BY <1>4, <1>5, <1>6, <1>7, <1>8 DEF pc, gone

LEMMA NightSettleFields ==
  ASSUME NightBounds, Typed, NEW p \in users, NEW op \in Ops, Reconcile(p, op)
  PROVE  /\ Typed' /\ Others(p)
         /\ UNCHANGED <<pid, lastPid, inFlight, child, started, said, spawned, earned>>
         /\ at[p].pc = Settling[op] /\ at'[p].pc = op /\ at'[p].saw = Facts(q')
         /\ at'[p].ok = at[p].ok /\ at'[p].item = at[p].item
         /\ q'.status \in {"needs-attention", "stopped"} /\ q'.owner = 0
         /\ Len(q'.items) = Len(q.items)
         /\ \A i \in 1 .. Len(q.items) :
              q'.items[i] = IF q.items[i] = "running" THEN "failed" ELSE q.items[i]
<1> DEFINE items == [i \in DOMAIN q.items |->
                       IF q.items[i] = "running" THEN "failed" ELSE q.items[i]]
           failed == \E i \in DOMAIN items : items[i] = "failed"
           ended == IF failed THEN "needs-attention" ELSE "stopped"
           r == [status |-> ended, items |-> items, stop |-> FALSE, owner |-> 0]
           c == [at[p] EXCEPT !.pc = op, !.saw = Facts(q')]
<1>1. /\ p \in AllUsers /\ at[p] \in Calls /\ op \in Pcs /\ Len(q.items) \in Nat
      /\ q.items \in Items /\ DOMAIN q.items = 1 .. Len(q.items)
  BY Members, SettlingTyped
<1>2. q' = r
  BY DEF Reconcile, Settled
<1>3. /\ items \in Items /\ Len(items) = Len(q.items)
      /\ \A i \in 1 .. Len(q.items) :
           items[i] = IF q.items[i] = "running" THEN "failed" ELSE q.items[i]
  BY <1>1 DEF Items
<1> HIDE DEF items
<1>4. ended \in {"needs-attention", "stopped"}
  OBVIOUS
<1> HIDE DEF ended
<1>5. r \in Queues /\ r.status = ended /\ r.owner = 0 /\ r.items = items
  BY <1>3, <1>4 DEF Queues, Statuses
<1> HIDE DEF r
<1>6. Becomes(p, c)
  BY <1>1 DEF Reconcile, Becomes, Typed
<1>7. Facts(q') \in SUBSET {"running", "queued", "stop"}
  BY DEF Facts
<1>8. /\ c \in Calls /\ c.pc = op /\ c.ok = at[p].ok /\ c.item = at[p].item
      /\ c.saw = Facts(q')
  BY <1>1, <1>7 DEF Calls
<1> HIDE DEF c
<1>9. /\ at' \in [AllUsers -> Calls] /\ at'[p] = c
      /\ \A s \in AllUsers \ {p} : at'[s] = at[s]
  BY <1>1, <1>6, <1>8, CallSet
<1>10. /\ UNCHANGED <<pid, lastPid, inFlight, child, started, said, spawned, earned, users>>
       /\ at[p].pc = Settling[op]
  BY DEF Reconcile
<1>11. Typed'
  BY <1>2, <1>3, <1>5, <1>9, <1>10 DEF Typed, AllUsers
<1>12. Others(p)
  BY <1>9, <1>10 DEF Others
<1>13. QED
  BY <1>2, <1>3, <1>4, <1>5, <1>8, <1>9, <1>10, <1>11, <1>12

\* A call that is over.
LEMMA DoneFields ==
  ASSUME Typed, NEW p \in AllUsers, Done(p)
  PROVE  /\ at' \in [AllUsers -> Calls] /\ at'[p] = Waiting
         /\ at'[p].pc = "idle" /\ at'[p].ok = FALSE /\ at'[p].item = 0
         /\ \A r \in AllUsers \ {p} : at'[r] = at[r]
<1>1. Becomes(p, Waiting)
  BY DEF Done, Becomes
<1>2. /\ at' \in [AllUsers -> Calls] /\ at'[p] = Waiting
      /\ \A r \in AllUsers \ {p} : at'[r] = at[r]
  BY <1>1, CallSet, WaitingTyped
<1>3. QED
  BY <1>2 DEF Waiting

LEMMA AddFields ==
  ASSUME NightBounds, Typed, NEW p \in users, Add(p)
  PROVE  /\ Typed' /\ Others(p)
         /\ UNCHANGED <<pid, lastPid, inFlight, child, started, said, spawned, earned>>
         /\ at[p].pc = "add" /\ at'[p].pc = "idle" /\ at'[p].ok = FALSE
         /\ q'.status = q.status /\ q'.owner = q.owner
         /\ \A i \in 1 .. Len(q.items) : q'.items[i] = q.items[i]
         /\ \/ Len(q'.items) = Len(q.items)
            \/ /\ Len(q'.items) = Len(q.items) + 1
               /\ q'.items[Len(q.items) + 1] = "queued"
               /\ q.status # "running"
<1> DEFINE items == Append(q.items, "queued")
           r == [q EXCEPT !.items = items]
<1>1. /\ p \in AllUsers /\ Len(q.items) \in Nat /\ q.items \in Items /\ q \in Queues
      /\ MaxItems[users] \in Nat /\ Len(q.items) <= MaxItems[users]
  BY Members DEF Typed
<1>2. /\ UNCHANGED <<pid, lastPid, inFlight, child, started, said, spawned, earned, users>>
      /\ at[p].pc = "add" /\ Done(p)
  BY DEF Add
<1>3. /\ at' \in [AllUsers -> Calls] /\ at'[p].pc = "idle" /\ at'[p].ok = FALSE
      /\ \A s \in AllUsers \ {p} : at'[s] = at[s]
  BY <1>1, <1>2, DoneFields
<1>4. /\ items \in Items /\ Len(items) = Len(q.items) + 1
      /\ items[Len(q.items) + 1] = "queued"
      /\ \A i \in 1 .. Len(q.items) : items[i] = q.items[i]
  BY <1>1 DEF Items
<1> HIDE DEF items
<1>5. r \in Queues /\ r.items = items /\ r.status = q.status /\ r.owner = q.owner
  BY <1>1, <1>4 DEF Queues
<1> HIDE DEF r
<1>6. \/ q' = q
      \/ q' = r /\ q.status # "running" /\ Len(q.items) # MaxItems[users]
  BY DEF Add, r, items
<1>7. q' \in Queues /\ Len(q'.items) <= MaxItems[users]
  BY <1>1, <1>4, <1>5, <1>6
<1>8. Typed'
  BY <1>2, <1>3, <1>7 DEF Typed, AllUsers
<1>9. Others(p)
  BY <1>2, <1>3 DEF Others
<1>10. QED
  BY <1>2, <1>3, <1>4, <1>5, <1>6, <1>8, <1>9

LEMMA RemoveFields ==
  ASSUME NightBounds, Typed, NEW p \in users, Remove(p)
  PROVE  /\ Typed' /\ Others(p)
         /\ UNCHANGED <<pid, lastPid, inFlight, child, started, said, spawned, earned>>
         /\ at[p].pc = "remove" /\ at'[p].pc = "idle" /\ at'[p].ok = FALSE
         /\ q'.status = q.status /\ q'.owner = q.owner
         /\ Len(q'.items) = Len(q.items)
         /\ \A i \in 1 .. Len(q.items) : q'.items[i] \in {q.items[i], "removed"}
<1>1. /\ p \in AllUsers /\ DOMAIN q.items = 1 .. Len(q.items) /\ q \in Queues
      /\ Len(q.items) <= MaxItems[users]
  BY Members DEF Typed
<1>2. /\ UNCHANGED <<pid, lastPid, inFlight, child, started, said, spawned, earned, users>>
      /\ at[p].pc = "remove" /\ Done(p)
  BY DEF Remove
<1>3. /\ at' \in [AllUsers -> Calls] /\ at'[p].pc = "idle" /\ at'[p].ok = FALSE
      /\ \A s \in AllUsers \ {p} : at'[s] = at[s]
  BY <1>1, <1>2, DoneFields
<1>4. q' = q \/ \E i \in 1 .. Len(q.items) : q' = [q EXCEPT !.items[i] = "removed"]
  BY <1>1 DEF Remove
<1>5. /\ q' \in Queues /\ q'.status = q.status /\ q'.owner = q.owner
      /\ Len(q'.items) = Len(q.items)
      /\ \A i \in 1 .. Len(q.items) : q'.items[i] \in {q.items[i], "removed"}
  <2>1. CASE q' = q
    BY <1>1, <2>1
  <2>2. ASSUME NEW i \in 1 .. Len(q.items), q' = [q EXCEPT !.items[i] = "removed"]
        PROVE  /\ q' \in Queues /\ q'.status = q.status /\ q'.owner = q.owner
               /\ Len(q'.items) = Len(q.items)
               /\ \A j \in 1 .. Len(q.items) : q'.items[j] \in {q.items[j], "removed"}
    <3>1. PICK r, n : r = q /\ n = q'
      OBVIOUS
    <3>2. /\ n \in Queues /\ Len(n.items) = Len(r.items)
          /\ n.status = r.status /\ n.owner = r.owner
          /\ n.items[i] = "removed"
          /\ \A j \in 1 .. Len(r.items) : j # i => n.items[j] = r.items[j]
      BY <1>1, <2>2, <3>1, QueueFields
    <3>3. QED
      BY <3>1, <3>2
  <2>3. QED
    BY <1>4, <2>1, <2>2
<1>6. Typed'
  BY <1>1, <1>2, <1>3, <1>5 DEF Typed, AllUsers
<1>7. Others(p)
  BY <1>2, <1>3 DEF Others
<1>8. QED
  BY <1>2, <1>3, <1>5, <1>6, <1>7

LEMMA StartFields ==
  ASSUME NightBounds, Typed, NEW p \in users, StartNight(p)
  PROVE  /\ Typed' /\ Others(p)
         /\ UNCHANGED <<pid, lastPid, inFlight, child, started, said, spawned, earned>>
         /\ at[p].pc = "start" /\ q'.items = q.items
         /\ \/ at'[p].pc = "idle" /\ at'[p].ok = FALSE /\ q' = q
            \/ /\ at'[p].pc = "next" /\ at'[p].ok = at[p].ok /\ at'[p].item = at[p].item
               /\ "running" \notin at[p].saw
               /\ q'.status = "running" /\ q'.owner = pid[p]
<1> DEFINE r == [q EXCEPT !.status = "running", !.stop = FALSE, !.owner = pid[p]]
           c == [at[p] EXCEPT !.pc = "next"]
<1>1. /\ p \in AllUsers /\ at[p] \in Calls /\ q \in Queues /\ pid[p] \in Nat
      /\ Len(q.items) <= MaxItems[users]
  BY Members DEF Typed
<1>2. /\ UNCHANGED <<pid, lastPid, inFlight, child, started, said, spawned, earned, users>>
      /\ at[p].pc = "start"
  BY DEF StartNight
<1>3. CASE Done(p) /\ q' = q
  <2>1. /\ at' \in [AllUsers -> Calls] /\ at'[p].pc = "idle" /\ at'[p].ok = FALSE
        /\ \A s \in AllUsers \ {p} : at'[s] = at[s]
    BY <1>1, <1>3, DoneFields
  <2>2. Typed' /\ Others(p)
    BY <1>1, <1>2, <1>3, <2>1 DEF Typed, AllUsers, Others
  <2>3. QED
    BY <1>2, <1>3, <2>1, <2>2
<1>4. CASE q' = r /\ Go(p, "next") /\ "running" \notin at[p].saw
  <2>1. r \in Queues /\ r.items = q.items /\ r.status = "running" /\ r.owner = pid[p]
    BY <1>1 DEF Queues, Statuses
  <2>2. c \in Calls /\ c.pc = "next" /\ c.ok = at[p].ok /\ c.item = at[p].item
    BY <1>1, CallMoved, PlainPcs
  <2>3. Becomes(p, c)
    BY <1>1, <1>4 DEF Go, Becomes, Typed
  <2> HIDE DEF r, c
  <2>4. /\ at' \in [AllUsers -> Calls] /\ at'[p] = c
        /\ \A s \in AllUsers \ {p} : at'[s] = at[s]
    BY <1>1, <2>2, <2>3, CallSet
  <2>5. Typed' /\ Others(p)
    BY <1>1, <1>2, <1>4, <2>1, <2>4 DEF Typed, AllUsers, Others
  <2>6. QED
    BY <1>2, <1>4, <2>1, <2>2, <2>4, <2>5
<1>5. QED
  BY <1>3, <1>4 DEF StartNight

LEMMA StopFields ==
  ASSUME NightBounds, Typed, NEW p \in users, Stop(p)
  PROVE  /\ Typed' /\ Others(p)
         /\ UNCHANGED <<pid, lastPid, inFlight, child, started, said, spawned, earned>>
         /\ at[p].pc = "stop" /\ at'[p].pc = "idle" /\ at'[p].ok = FALSE
         /\ q'.items = q.items /\ q'.status = q.status /\ q'.owner = q.owner
<1>1. /\ p \in AllUsers /\ q \in Queues /\ Len(q.items) <= MaxItems[users]
  BY Members DEF Typed
<1>2. /\ UNCHANGED <<pid, lastPid, inFlight, child, started, said, spawned, earned, users>>
      /\ at[p].pc = "stop" /\ Done(p)
  BY DEF Stop
<1>3. /\ at' \in [AllUsers -> Calls] /\ at'[p].pc = "idle" /\ at'[p].ok = FALSE
      /\ \A s \in AllUsers \ {p} : at'[s] = at[s]
  BY <1>1, <1>2, DoneFields
<1>4. q' \in {q, [q EXCEPT !.stop = TRUE]}
  BY DEF Stop
<1>5. q' \in Queues /\ q'.items = q.items /\ q'.status = q.status /\ q'.owner = q.owner
  BY <1>1, <1>4 DEF Queues
<1>6. Typed' /\ Others(p)
  BY <1>1, <1>2, <1>3, <1>5 DEF Typed, AllUsers, Others
<1>7. QED
  BY <1>2, <1>3, <1>5, <1>6

-----------------------------------------------------------------------------
(* The steps of runNext                                                    *)

LEMMA RunNextFields ==
  ASSUME NightBounds, Typed, NEW p \in users, RunNext(p)
  PROVE  /\ Typed' /\ Others(p)
         /\ UNCHANGED <<q, pid, lastPid, child, started, said, spawned, earned>>
         /\ at[p].pc = "next" /\ at'[p].ok = FALSE
         /\ \/ inFlight[p] /\ inFlight' = inFlight /\ at'[p].pc = "idle"
            \/ /\ ~inFlight[p] /\ inFlight'[p]
               /\ \/ at'[p].pc = "drain"
                  \/ /\ at'[p].pc = "launch" /\ at'[p].item \in 1 .. Len(q.items)
                     /\ q.items[at'[p].item] = "queued"
<1>1. /\ p \in AllUsers /\ DOMAIN q.items = 1 .. Len(q.items)
      /\ Len(q.items) \in Nat /\ q.items \in Items
  BY Members
<1>2. /\ UNCHANGED <<q, pid, lastPid, child, started, said, spawned, earned, users>>
      /\ at[p].pc = "next"
  BY DEF RunNext, stored
<1>3. CASE inFlight[p]
  <2>1. Done(p) /\ inFlight' = inFlight
    BY <1>3 DEF RunNext
  <2>2. /\ at' \in [AllUsers -> Calls] /\ at'[p].pc = "idle" /\ at'[p].ok = FALSE
        /\ \A s \in AllUsers \ {p} : at'[s] = at[s]
    BY <1>1, <2>1, DoneFields
  <2>3. Typed' /\ Others(p)
    BY <1>1, <1>2, <2>1, <2>2 DEF Typed, AllUsers, Others
  <2>4. QED
    BY <1>2, <1>3, <2>1, <2>2, <2>3
<1>4. CASE ~inFlight[p]
  <2> DEFINE stops  == [Waiting EXCEPT !.pc = "drain", !.saw = {"stop"}]
             drains == [Waiting EXCEPT !.pc = "drain"]
             takes  == [Waiting EXCEPT !.pc = "launch", !.item = First(q)]
             c == IF q.stop THEN stops ELSE IF Is("queued", q) = {} THEN drains ELSE takes
  <2>1. /\ inFlight' \in [AllUsers -> BOOLEAN] /\ inFlight'[p]
        /\ \A s \in AllUsers \ {p} : inFlight'[s] = inFlight[s]
    BY <1>1, <1>4 DEF RunNext, Typed
  <2>2. Becomes(p, c)
    BY <1>4 DEF RunNext, Becomes
  <2>3. stops \in Calls /\ stops.pc = "drain" /\ stops.ok = FALSE
    BY PlainPcs DEF Waiting, Calls
  <2>4. drains \in Calls /\ drains.pc = "drain" /\ drains.ok = FALSE
    BY PlainPcs DEF Waiting, Calls
  <2>5. ASSUME Is("queued", q) # {} PROVE First(q) \in Is("queued", q)
    <3>1. Is("queued", q) \subseteq Nat
      BY <1>1 DEF Is
    <3>2. PICK i \in Is("queued", q) : \A j \in Is("queued", q) : i <= j
      BY <2>5, <3>1, LeastItem
    <3>3. QED
      BY <3>2 DEF First
  <2>6. ASSUME Is("queued", q) # {}
        PROVE  /\ takes \in Calls /\ takes.pc = "launch" /\ takes.ok = FALSE
               /\ takes.item \in 1 .. Len(q.items) /\ q.items[takes.item] = "queued"
    <3>1. First(q) \in 1 .. Len(q.items) /\ q.items[First(q)] = "queued"
      BY <1>1, <2>5, <2>6 DEF Is
    <3>2. PICK n : n = First(q)
      OBVIOUS
    <3>3. n \in Nat
      BY <1>1, <3>1, <3>2
    <3>4. takes = [Waiting EXCEPT !.pc = "launch", !.item = n]
      BY <3>2
    <3> DEFINE t == [Waiting EXCEPT !.pc = "launch", !.item = n]
    <3>5. t \in Calls /\ t.pc = "launch" /\ t.ok = FALSE /\ t.item = n
      BY <3>3, PlainPcs DEF Waiting, Calls
    <3> HIDE DEF t
    <3>6. takes = t
      BY <3>4 DEF t
    <3> HIDE DEF takes
    <3>7. QED
      BY <3>1, <3>2, <3>5, <3>6
  <2> HIDE DEF stops, drains, takes
  <2>7. /\ c \in Calls /\ c.ok = FALSE
        /\ \/ c.pc = "drain"
           \/ /\ c.pc = "launch" /\ c.item \in 1 .. Len(q.items)
              /\ q.items[c.item] = "queued"
    BY <2>3, <2>4, <2>6
  <2> HIDE DEF c
  <2>8. /\ at' \in [AllUsers -> Calls] /\ at'[p] = c
        /\ \A s \in AllUsers \ {p} : at'[s] = at[s]
    BY <1>1, <2>2, <2>7, CallSet
  <2>9. Typed' /\ Others(p)
    BY <1>1, <1>2, <2>1, <2>8 DEF Typed, AllUsers, Others
  <2>10. QED
    BY <1>2, <1>4, <2>1, <2>7, <2>8, <2>9
<1>5. QED
  BY <1>3, <1>4

LEMMA DrainFields ==
  ASSUME NightBounds, Typed, NEW p \in users, Drain(p)
  PROVE  /\ Typed' /\ Others(p)
         /\ UNCHANGED <<pid, lastPid, child, started, said, spawned, earned>>
         /\ at[p].pc = "drain" /\ at'[p].pc = "idle" /\ at'[p].ok = FALSE
         /\ inFlight'[p] = FALSE
         /\ q'.items = q.items /\ q'.status # "running" /\ q'.owner = 0
<1> DEFINE s == IF "stop" \in at[p].saw THEN "stopped"
                ELSE IF Is("failed", q) # {} THEN "needs-attention" ELSE "complete"
           r == [q EXCEPT !.status = s, !.owner = 0]
<1>1. /\ p \in AllUsers /\ q \in Queues /\ Len(q.items) <= MaxItems[users]
  BY Members DEF Typed
<1>2. /\ UNCHANGED <<pid, lastPid, child, started, said, spawned, earned, users>>
      /\ at[p].pc = "drain" /\ Done(p) /\ q' = r
      /\ inFlight' = [inFlight EXCEPT ![p] = FALSE]
  BY DEF Drain
<1>3. /\ at' \in [AllUsers -> Calls] /\ at'[p].pc = "idle" /\ at'[p].ok = FALSE
      /\ \A u \in AllUsers \ {p} : at'[u] = at[u]
  BY <1>1, <1>2, DoneFields
<1>4. s \in Statuses /\ s # "running"
  BY DEF Statuses
<1> HIDE DEF s
<1>5. r \in Queues /\ r.items = q.items /\ r.status # "running" /\ r.owner = 0
  BY <1>1, <1>4 DEF Queues
<1> HIDE DEF r
<1>6. /\ inFlight' \in [AllUsers -> BOOLEAN] /\ inFlight'[p] = FALSE
      /\ \A u \in AllUsers \ {p} : inFlight'[u] = inFlight[u]
  BY <1>1, <1>2 DEF Typed
<1>7. Typed' /\ Others(p)
  BY <1>1, <1>2, <1>3, <1>5, <1>6 DEF Typed, AllUsers, Others
<1>8. QED
  BY <1>2, <1>3, <1>5, <1>6, <1>7

LEMMA LaunchFields ==
  ASSUME NightBounds, Typed, Pointed, NEW p \in users, Launch(p)
  PROVE  LET i == at[p].item IN
         /\ Typed' /\ Others(p)
         /\ UNCHANGED <<pid, lastPid, inFlight, child, said, spawned, earned>>
         /\ at[p].pc = "launch" /\ i \in 1 .. Len(q.items)
         /\ \/ i \in started /\ q' = q /\ started' = started
            \/ /\ i \notin started /\ started' = started \cup {i}
               /\ q'.status = q.status /\ q'.owner = q.owner
               /\ Len(q'.items) = Len(q.items) /\ q'.items[i] = "running"
               /\ \A j \in 1 .. Len(q.items) : j # i => q'.items[j] = q.items[j]
            \/ /\ q.items[i] = "removed" /\ q' = q /\ started' = started
               /\ at'[p].pc = "idle"
         /\ \/ at'[p].pc = "spawn" /\ at'[p].item = i /\ at'[p].ok = at[p].ok
            \/ q.items[i] = "removed" /\ at'[p].pc = "idle" /\ at'[p].ok = FALSE
<1> DEFINE i == at[p].item
           c == [at[p] EXCEPT !.pc = "spawn"]
<1>1. /\ p \in AllUsers /\ at[p] \in Calls /\ q \in Queues /\ Len(q.items) <= MaxItems[users]
  BY Members DEF Typed
<1>2. /\ UNCHANGED <<pid, lastPid, inFlight, child, said, spawned, earned, users>>
      /\ at[p].pc = "launch"
  BY DEF Launch
<1>3. i \in 1 .. Len(q.items)
  BY <1>1, <1>2 DEF Pointed
<1>4. c \in Calls /\ c.pc = "spawn" /\ c.item = i /\ c.ok = at[p].ok
  BY <1>1, CallMoved, PlainPcs
<1>5. ASSUME at' = [at EXCEPT ![p].pc = "spawn"]
      PROVE  /\ at' \in [AllUsers -> Calls] /\ at'[p] = c
             /\ \A s \in AllUsers \ {p} : at'[s] = at[s]
  <2>1. Becomes(p, c)
    BY <1>1, <1>5 DEF Becomes, Typed
  <2> HIDE DEF c
  <2>2. QED
    BY <1>1, <1>4, <2>1, CallSet
<1> HIDE DEF c
<1>6. CASE i \in started /\ at' = [at EXCEPT ![p].pc = "spawn"] /\ q' = q /\ started' = started
  <2>1. Typed' /\ Others(p)
    BY <1>1, <1>2, <1>5, <1>6 DEF Typed, AllUsers, Others
  <2>2. QED
    BY <1>2, <1>3, <1>4, <1>5, <1>6, <2>1
<1>7. CASE /\ i \notin started /\ q' = [q EXCEPT !.items[i] = "running"]
           /\ started' = started \cup {i} /\ at' = [at EXCEPT ![p].pc = "spawn"]
  <2>1. /\ q' \in Queues /\ Len(q'.items) = Len(q.items)
        /\ q'.status = q.status /\ q'.owner = q.owner /\ q'.items[i] = "running"
        /\ \A j \in 1 .. Len(q.items) : j # i => q'.items[j] = q.items[j]
    <3>1. PICK r, n, k : r = q /\ n = q' /\ k = i
      OBVIOUS
    <3>2. /\ n \in Queues /\ Len(n.items) = Len(r.items)
          /\ n.status = r.status /\ n.owner = r.owner
          /\ n.items[k] = "running"
          /\ \A j \in 1 .. Len(r.items) : j # k => n.items[j] = r.items[j]
      BY <1>1, <1>3, <1>7, <3>1, QueueFields
    <3>3. QED
      BY <3>1, <3>2
  <2>2. Typed' /\ Others(p)
    BY <1>1, <1>2, <1>5, <1>7, <2>1 DEF Typed, AllUsers, Others
  <2>3. QED
    BY <1>2, <1>3, <1>4, <1>5, <1>7, <2>1, <2>2
<1>8. CASE i \notin started /\ q.items[i] = "removed" /\ Done(p) /\ q' = q /\ started' = started
  <2>1. /\ at' \in [AllUsers -> Calls] /\ at'[p].pc = "idle" /\ at'[p].ok = FALSE
        /\ \A s \in AllUsers \ {p} : at'[s] = at[s]
    BY <1>1, <1>8, DoneFields
  <2>2. Typed' /\ Others(p)
    BY <1>1, <1>2, <1>8, <2>1 DEF Typed, AllUsers, Others
  <2>3. QED
    BY <1>2, <1>3, <1>8, <2>1, <2>2
<1>9. QED
  BY <1>6, <1>7, <1>8 DEF Launch

LEMMA SpawnFields ==
  ASSUME NightBounds, Typed, Pointed, NEW p \in users, Spawn(p)
  PROVE  LET i == at[p].item IN
         /\ Typed' /\ Others(p)
         /\ UNCHANGED <<q, pid, lastPid, inFlight, started, said, earned>>
         /\ at[p].pc = "spawn" /\ at'[p].pc = "idle" /\ at'[p].ok = FALSE
         /\ child'[p] = i
         /\ i \in 1..MaxItems[users] /\ spawned'[i] = spawned[i] + 1
         /\ \A j \in 1..MaxItems[users] : j # i => spawned'[j] = spawned[j]
<1> DEFINE i == at[p].item
<1>1. /\ p \in AllUsers /\ at[p] \in Calls /\ Len(q.items) <= MaxItems[users]
      /\ Len(q.items) \in Nat /\ MaxItems[users] \in Nat
  BY Members DEF Typed
<1>2. /\ UNCHANGED <<q, pid, lastPid, inFlight, started, said, earned, users>>
      /\ at[p].pc = "spawn" /\ Done(p)
      /\ child' = [child EXCEPT ![p] = i]
      /\ spawned' = [spawned EXCEPT ![i] = spawned[i] + 1]
  BY DEF Spawn, stored
<1>3. i \in Nat /\ i \in 1..MaxItems[users]
  <2>1. i \in 1 .. Len(q.items)
    BY <1>1, <1>2 DEF Pointed
  <2>2. QED
    BY <1>1, <2>1
<1> HIDE DEF i
<1>4. /\ at' \in [AllUsers -> Calls] /\ at'[p].pc = "idle" /\ at'[p].ok = FALSE
      /\ \A s \in AllUsers \ {p} : at'[s] = at[s]
  BY <1>1, <1>2, DoneFields
<1>5. /\ child' \in [AllUsers -> Nat] /\ child'[p] = i
      /\ \A s \in AllUsers \ {p} : child'[s] = child[s]
  BY <1>1, <1>2, <1>3 DEF Typed
<1>6. spawned[i] \in Nat /\ spawned \in [1..MaxItems[users] -> Nat]
  BY <1>3 DEF Typed
<1>7. PICK n \in Nat : n = spawned[i] + 1
  BY <1>6
<1>8. spawned' = [spawned EXCEPT ![i] = n]
  BY <1>2, <1>7
<1>9. /\ spawned' \in [1..MaxItems[users] -> Nat] /\ spawned'[i] = n
      /\ \A j \in 1..MaxItems[users] : j # i => spawned'[j] = spawned[j]
  BY <1>3, <1>6, <1>8
<1>10. Typed' /\ Others(p)
  BY <1>1, <1>2, <1>4, <1>5, <1>9 DEF Typed, AllUsers, Others
<1>11. QED
  BY <1>2, <1>3, <1>4, <1>5, <1>7, <1>9, <1>10 DEF i

LEMMA SpawnFailsFields ==
  ASSUME NightBounds, Typed, NEW p \in users, SpawnFails(p)
  PROVE  /\ Typed' /\ Others(p)
         /\ UNCHANGED <<q, pid, lastPid, inFlight, child, started, said, spawned, earned>>
         /\ at[p].pc = "spawn" /\ at'[p].pc = "finish" /\ at'[p].ok = FALSE
         /\ at'[p].item = at[p].item
<1> DEFINE c == [at[p] EXCEPT !.pc = "finish", !.ok = FALSE]
<1>1. p \in AllUsers /\ at[p] \in Calls
  BY Members
<1>2. /\ UNCHANGED <<q, pid, lastPid, inFlight, child, started, said, spawned, earned, users>>
      /\ at[p].pc = "spawn"
  BY DEF SpawnFails, stored
<1>3. c \in Calls /\ c.pc = "finish" /\ c.ok = FALSE /\ c.item = at[p].item
  BY <1>1, PlainPcs DEF Calls
<1>4. Becomes(p, c)
  BY <1>1 DEF SpawnFails, Becomes, Typed
<1> HIDE DEF c
<1>5. /\ at' \in [AllUsers -> Calls] /\ at'[p] = c
      /\ \A s \in AllUsers \ {p} : at'[s] = at[s]
  BY <1>1, <1>3, <1>4, CallSet
<1>6. Typed' /\ Others(p)
  BY <1>1, <1>2, <1>5 DEF Typed, AllUsers, Others
<1>7. QED
  BY <1>2, <1>3, <1>5, <1>6

LEMMA ChildEndsFields ==
  ASSUME NightBounds, Typed, NEW p \in users, NEW ok \in BOOLEAN, ChildEnds(p, ok)
  PROVE  /\ Typed' /\ Others(p)
         /\ UNCHANGED <<q, pid, lastPid, inFlight, child, started, said, spawned>>
         /\ at[p].pc = "idle" /\ child[p] # 0
         /\ at'[p].pc = "finish" /\ at'[p].ok = ok /\ at'[p].item = child[p]
         /\ earned \subseteq earned' /\ (ok => child[p] \in earned')
<1>1. p \in AllUsers /\ child[p] \in Nat
  BY Members DEF Typed
<1>2. /\ UNCHANGED <<q, pid, lastPid, inFlight, child, started, said, spawned, users>>
      /\ at[p].pc = "idle" /\ child[p] # 0
      /\ earned \subseteq earned' /\ (ok => child[p] \in earned')
  BY DEF ChildEnds, stored
<1>3. PICK n \in Nat : n = child[p]
  BY <1>1
<1> DEFINE c == [Waiting EXCEPT !.pc = "finish", !.item = n, !.ok = ok]
<1>4. c \in Calls /\ c.pc = "finish" /\ c.ok = ok /\ c.item = n
  BY PlainPcs DEF Calls, Waiting
<1>5. Becomes(p, c)
  BY <1>3 DEF ChildEnds, Becomes
<1> HIDE DEF c
<1>6. /\ at' \in [AllUsers -> Calls] /\ at'[p] = c
      /\ \A s \in AllUsers \ {p} : at'[s] = at[s]
  BY <1>1, <1>4, <1>5, CallSet
<1>7. Typed' /\ Others(p)
  BY <1>1, <1>2, <1>6 DEF Typed, AllUsers, Others
<1>8. QED
  BY <1>2, <1>3, <1>4, <1>6, <1>7

LEMMA FinishFields ==
  ASSUME NightBounds, Typed, Pointed, NEW p \in users, Finish(p)
  PROVE  LET i == at[p].item
             answer == IF said[i] = "none" THEN q.status ELSE said[i]
         IN
         /\ Typed' /\ Others(p)
         /\ UNCHANGED <<pid, lastPid, started, spawned, earned>>
         /\ at[p].pc = "finish" /\ i \in 1 .. Len(q.items) /\ i \in 1..MaxItems[users]
         /\ at'[p].pc = IF answer = "running" THEN "next" ELSE "idle"
         /\ at'[p].ok = FALSE
         /\ child'[p] = 0 /\ inFlight'[p] = FALSE
         /\ \A j \in 1..MaxItems[users] : said'[j] = IF j = i THEN answer ELSE said[j]
         /\ q'.status = q.status /\ q'.owner = q.owner /\ Len(q'.items) = Len(q.items)
         /\ \A j \in 1 .. Len(q.items) : j # i => q'.items[j] = q.items[j]
         /\ said[i] # "none" => q' = q
         /\ said[i] = "none" =>
              q'.items[i] = IF q.items[i] = "removed" THEN "removed"
                            ELSE IF at[p].ok THEN "complete" ELSE "failed"
<1> DEFINE i == at[p].item
           answer == IF said[i] = "none" THEN q.status ELSE said[i]
           s == IF q.items[i] = "removed" THEN "removed"
                ELSE IF at[p].ok THEN "complete" ELSE "failed"
<1>1. /\ p \in AllUsers /\ at[p] \in Calls /\ Len(q.items) <= MaxItems[users]
      /\ Len(q.items) \in Nat /\ MaxItems[users] \in Nat /\ q \in Queues
      /\ q.items \in Items /\ DOMAIN q.items = 1 .. Len(q.items) /\ q.status \in Statuses
  BY Members DEF Typed
<1>2. /\ UNCHANGED <<pid, lastPid, started, spawned, earned, users>> /\ at[p].pc = "finish"
      /\ said' = [said EXCEPT ![i] = answer]
      /\ child' = [child EXCEPT ![p] = 0] /\ inFlight' = [inFlight EXCEPT ![p] = FALSE]
      /\ IF answer = "running" THEN at' = [at EXCEPT ![p] = [Waiting EXCEPT !.pc = "next"]]
         ELSE Done(p)
      /\ said[i] # "none" => q' = q
      /\ said[i] = "none" => q' = [q EXCEPT !.items = Outcome(q.items, i, at[p].ok)]
  BY DEF Finish
<1>3. i \in 1 .. Len(q.items) /\ i \in 1..MaxItems[users]
  <2>1. i \in 1 .. Len(q.items)
    BY <1>1, <1>2 DEF Pointed
  <2>2. QED
    BY <1>1, <2>1
<1>4. /\ said' \in [1..MaxItems[users] -> Statuses \cup {"none"}]
      /\ \A j \in 1..MaxItems[users] : said'[j] = IF j = i THEN answer ELSE said[j]
  <2>1. answer \in Statuses \cup {"none"}
    BY <1>1, <1>3 DEF Typed
  <2> HIDE DEF answer, i
  <2>2. QED
    BY <1>2, <1>3, <2>1 DEF Typed
<1>5. /\ at' \in [AllUsers -> Calls] /\ at'[p].ok = FALSE
      /\ at'[p].pc = IF answer = "running" THEN "next" ELSE "idle"
      /\ \A r \in AllUsers \ {p} : at'[r] = at[r]
  <2> HIDE DEF answer
  <2>1. CASE answer = "running"
    <3> DEFINE c == [Waiting EXCEPT !.pc = "next"]
    <3>1. c \in Calls /\ c.pc = "next" /\ c.ok = FALSE
      BY PlainPcs DEF Calls, Waiting
    <3>2. Becomes(p, c)
      BY <1>2, <2>1 DEF Becomes
    <3> HIDE DEF c
    <3>3. QED
      BY <1>1, <2>1, <3>1, <3>2, CallSet
  <2>2. CASE answer # "running"
    BY <1>1, <1>2, <2>2, DoneFields
  <2>3. QED
    BY <2>1, <2>2
<1>6. /\ child' \in [AllUsers -> Nat] /\ child'[p] = 0
      /\ inFlight' \in [AllUsers -> BOOLEAN] /\ inFlight'[p] = FALSE
      /\ \A r \in AllUsers \ {p} : child'[r] = child[r] /\ inFlight'[r] = inFlight[r]
  BY <1>1, <1>2 DEF Typed
<1>7. /\ q' \in Queues /\ q'.status = q.status /\ q'.owner = q.owner
      /\ Len(q'.items) = Len(q.items)
      /\ \A j \in 1 .. Len(q.items) : j # i => q'.items[j] = q.items[j]
      /\ said[i] = "none" => q'.items[i] = s
  <2>1. CASE said[i] # "none"
    BY <1>1, <1>2, <2>1
  <2>2. CASE said[i] = "none"
    <3>1. Outcome(q.items, i, at[p].ok) = [q.items EXCEPT ![i] = s]
      BY <1>1, <1>3 DEF Outcome
    <3>2. q' = [q EXCEPT !.items[i] = s]
      <4> HIDE DEF s, i
      <4>1. q' = [q EXCEPT !.items = [q.items EXCEPT ![i] = s]]
        BY <1>2, <2>2, <3>1
      <4>2. QED
        BY <1>1, <4>1 DEF Queues
    <3>3. s \in {"queued", "running", "complete", "failed", "removed"}
      OBVIOUS
    <3>4. PICK r, n, k, v : r = q /\ n = q' /\ k = i /\ v = s
      OBVIOUS
    <3> HIDE DEF s, i
    <3>5. /\ r \in Queues /\ k \in 1 .. Len(r.items)
          /\ v \in {"queued", "running", "complete", "failed", "removed"}
          /\ n = [r EXCEPT !.items[k] = v]
      BY <1>1, <1>3, <3>2, <3>3, <3>4
    <3>6. /\ n \in Queues /\ n.status = r.status /\ n.owner = r.owner
          /\ Len(n.items) = Len(r.items) /\ n.items[k] = v
          /\ \A j \in 1 .. Len(r.items) : j # k => n.items[j] = r.items[j]
      BY <3>5, QueueFields
    <3>7. QED
      BY <3>4, <3>6
  <2>3. QED
    BY <2>1, <2>2
<1> HIDE DEF s, answer, i
<1>8. Typed'
  BY <1>1, <1>2, <1>4, <1>5, <1>6, <1>7 DEF Typed, AllUsers
<1>9. Others(p)
  BY <1>2, <1>5, <1>6 DEF Others
<1>10. QED
  BY <1>2, <1>3, <1>4, <1>5, <1>6, <1>7, <1>8, <1>9 DEF s, answer, i

LEMMA BootFields ==
  ASSUME NightBounds, Typed, NEW p \in users, Boot(p)
  PROVE  /\ Typed' /\ Others(p)
         /\ UNCHANGED <<q, inFlight, child, at, started, said, spawned, earned>>
         /\ pid[p] = 0 /\ pid'[p] = lastPid + 1 /\ lastPid' = lastPid + 1
<1>1. p \in AllUsers /\ lastPid \in Nat
  BY Members DEF Typed
<1>2. /\ UNCHANGED <<q, inFlight, child, at, started, said, spawned, earned, users>>
      /\ pid[p] = 0 /\ pid' = [pid EXCEPT ![p] = lastPid + 1] /\ lastPid' = lastPid + 1
  BY DEF Boot, stored
<1>3. PICK n \in Nat : n = lastPid + 1
  BY <1>1
<1>4. pid' \in [AllUsers -> Nat] /\ pid'[p] = n
  BY <1>1, <1>2, <1>3 DEF Typed
<1>5. Typed' /\ Others(p)
  BY <1>1, <1>2, <1>3, <1>4 DEF Typed, AllUsers, Others
<1>6. QED
  BY <1>2, <1>3, <1>4, <1>5

LEMMA DieFields ==
  ASSUME NightBounds, Typed, NEW p \in users, ProcessDies(p)
  PROVE  /\ Typed' /\ Others(p)
         /\ UNCHANGED <<q, lastPid, started, said, spawned, earned>>
         /\ pid'[p] = 0 /\ inFlight'[p] = FALSE /\ child'[p] = 0
         /\ at'[p].pc = "idle" /\ at'[p].ok = FALSE
<1>1. p \in AllUsers
  BY Members
<1>2. /\ UNCHANGED <<q, lastPid, started, said, spawned, earned, users>>
      /\ pid' = [pid EXCEPT ![p] = 0] /\ inFlight' = [inFlight EXCEPT ![p] = FALSE]
      /\ child' = [child EXCEPT ![p] = 0] /\ Done(p)
  BY DEF ProcessDies, stored
<1>3. /\ at' \in [AllUsers -> Calls] /\ at'[p].pc = "idle" /\ at'[p].ok = FALSE
      /\ \A s \in AllUsers \ {p} : at'[s] = at[s]
  BY <1>1, <1>2, DoneFields
<1>4. /\ pid' \in [AllUsers -> Nat] /\ pid'[p] = 0
      /\ child' \in [AllUsers -> Nat] /\ child'[p] = 0
      /\ inFlight' \in [AllUsers -> BOOLEAN] /\ inFlight'[p] = FALSE
      /\ \A s \in AllUsers \ {p} : child'[s] = child[s] /\ inFlight'[s] = inFlight[s]
  BY <1>1, <1>2 DEF Typed
<1>5. Typed' /\ Others(p)
  BY <1>1, <1>2, <1>3, <1>4 DEF Typed, AllUsers, Others
<1>6. QED
  BY <1>2, <1>3, <1>4, <1>5

-----------------------------------------------------------------------------
(* What holds however many processes share the queue                       *)

\* What a step of p has to show of the list, the ledger and itself.
Faithful(p) ==
  /\ Len(q.items) <= Len(q'.items)
  /\ \A i \in 1 .. Len(q'.items) :
       /\ q'.items[i] = "queued" => i \notin started'
       /\ q'.items[i] = "complete" => i \in earned'
  /\ started \subseteq started' /\ started' \subseteq 1 .. Len(q'.items)
  /\ earned \subseteq earned'
  /\ \A i \in 1..MaxItems[users] : said'[i] # "none" => i \in started'
  /\ child'[p] # 0 => child'[p] \in started'
  /\ at'[p].pc \in {"spawn", "finish"} => at'[p].item \in started'
  /\ at'[p].pc = "launch" => at'[p].item \in 1 .. Len(q'.items)
  /\ at'[p].ok => at'[p].item \in earned'

\* p owes no spawn that it did not owe, and spawns nothing.
OwesNoMore(p) ==
  /\ spawned' = spawned
  /\ at'[p].pc \in {"launch", "spawn"} =>
       at[p].pc \in {"launch", "spawn"} /\ at'[p].item = at[p].item

LEMMA FaithfulStep ==
  ASSUME NightBounds, SharedInv, Typed', NEW p \in users, Others(p), Faithful(p)
  PROVE  Pointed' /\ Earned'
<1>1. /\ users' = users /\ Len(q.items) \in Nat /\ Len(q'.items) \in Nat
      /\ \A r \in AllUsers \ {p} : at'[r] = at[r] /\ child'[r] = child[r]
  BY Members DEF Others, SharedInv, Typed, Queues, Items
<1>2. ASSUME NEW r \in AllUsers
      PROVE  /\ child'[r] # 0 => child'[r] \in started'
             /\ at'[r].pc \in {"spawn", "finish"} => at'[r].item \in started'
             /\ at'[r].pc = "launch" => at'[r].item \in 1 .. Len(q'.items)
             /\ at'[r].ok => at'[r].item \in earned'
  <2>1. CASE r = p
    BY <2>1 DEF Faithful
  <2>2. CASE r # p
    <3>1. at'[r] = at[r] /\ child'[r] = child[r]
      BY <1>1, <2>2
    <3>2. started \subseteq started' /\ earned \subseteq earned'
          /\ Len(q.items) <= Len(q'.items)
      BY DEF Faithful
    <3>3. /\ child[r] # 0 => child[r] \in started
          /\ at[r].pc \in {"spawn", "finish"} => at[r].item \in started
          /\ at[r].pc = "launch" => at[r].item \in 1 .. Len(q.items)
          /\ at[r].ok => at[r].item \in earned
      BY DEF SharedInv, Pointed, Earned
    <3>4. 1 .. Len(q.items) \subseteq 1 .. Len(q'.items)
      BY <1>1, <3>2
    <3>5. QED
      BY <3>1, <3>2, <3>3, <3>4
  <2>3. QED
    BY <2>1, <2>2
<1>3. Pointed'
  BY <1>1, <1>2 DEF Faithful, Pointed, AllUsers
<1>4. Earned'
  BY <1>2 DEF Faithful, Earned, AllUsers
<1>5. QED
  BY <1>3, <1>4

LEMMA OwingFinite ==
  ASSUME IsFiniteSet(users), NEW i
  PROVE  /\ IsFiniteSet(Owing(i)) /\ Cardinality(Owing(i)) \in Nat
         /\ Cardinality(users) \in Nat
         /\ Cardinality(Owing(i)) <= Cardinality(users)
<1>1. Owing(i) \in SUBSET users
  BY DEF Owing
<1>2. QED
  BY <1>1, FS_Subset, FS_CardinalityType

LEMMA OwesNoMoreStep ==
  ASSUME NightBounds, SharedInv, Typed', NEW p \in users, Others(p), started \subseteq started',
         OwesNoMore(p)
  PROVE  Counted'
<1>1. /\ users' = users /\ IsFiniteSet(users) /\ users \subseteq AllUsers
      /\ \A r \in AllUsers \ {p} : at'[r] = at[r]
  BY Members DEF Others, SharedInv, AllUsers, Typed
<1>2. SUFFICES ASSUME NEW i \in 1..MaxItems[users]
               PROVE  /\ i \notin started' => spawned'[i] = 0
                      /\ spawned'[i] + Cardinality(Owing(i)') <= Cardinality(users)
  BY <1>1 DEF Counted
<1>3. Owing(i)' \subseteq Owing(i)
  BY <1>1 DEF Owing, OwesNoMore
<1>4. PICK A, B : A = Owing(i) /\ B = Owing(i)'
  OBVIOUS
<1>5. IsFiniteSet(A) /\ Cardinality(A) \in Nat /\ Cardinality(users) \in Nat
  BY <1>1, <1>4, OwingFinite
<1>6. Cardinality(B) \in Nat /\ Cardinality(B) <= Cardinality(A)
  <2>1. B \in SUBSET A
    BY <1>3, <1>4
  <2>2. QED
    BY <1>5, <2>1, FS_Subset, FS_CardinalityType
<1>7. /\ i \notin started => spawned[i] = 0
      /\ spawned[i] + Cardinality(A) <= Cardinality(users)
      /\ spawned[i] \in Nat
  BY <1>4 DEF SharedInv, Counted, Typed
<1>8. spawned'[i] = spawned[i]
  BY DEF OwesNoMore
<1>9. QED
  BY <1>4, <1>5, <1>6, <1>7, <1>8

\* An item is chosen while it is queued, hence before anybody spawned it.
LEMMA ChosenStep ==
  ASSUME NightBounds, SharedInv, Typed', NEW p \in users, RunNext(p)
  PROVE  Counted'
<1>1. /\ Others(p) /\ started' = started /\ q' = q /\ spawned' = spawned /\ at[p].pc = "next"
      /\ \/ at'[p].pc \in {"idle", "drain"}
         \/ at'[p].pc = "launch" /\ q.items[at'[p].item] = "queued"
            /\ at'[p].item \in 1 .. Len(q.items)
  BY RunNextFields DEF SharedInv
<1>2. /\ users' = users /\ IsFiniteSet(users) /\ users \subseteq AllUsers
      /\ \A r \in AllUsers \ {p} : at'[r] = at[r]
  BY <1>1, Members DEF Others, SharedInv, AllUsers, Typed
<1>3. SUFFICES ASSUME NEW i \in 1..MaxItems[users]
               PROVE  spawned[i] + Cardinality(Owing(i)') <= Cardinality(users)
  BY <1>1, <1>2 DEF Counted, SharedInv
<1>4. PICK A, B : A = Owing(i) /\ B = Owing(i)'
  OBVIOUS
<1>5. IsFiniteSet(A) /\ Cardinality(A) \in Nat /\ Cardinality(users) \in Nat
  BY <1>2, <1>4, OwingFinite
<1>6. /\ i \notin started => spawned[i] = 0
      /\ spawned[i] + Cardinality(A) <= Cardinality(users)
      /\ spawned[i] \in Nat
  BY <1>4 DEF SharedInv, Counted, Typed
<1>7. CASE B \subseteq A
  <2>1. B \in SUBSET A
    BY <1>7
  <2>2. Cardinality(B) \in Nat /\ Cardinality(B) <= Cardinality(A)
    BY <1>5, <2>1, FS_Subset, FS_CardinalityType
  <2>3. QED
    BY <1>4, <1>5, <1>6, <2>2
<1>8. CASE ~(B \subseteq A)
  <2>1. at'[p].pc = "launch" /\ at'[p].item = i
    BY <1>1, <1>2, <1>4, <1>8 DEF Owing
  <2>2. i \notin started
    BY <1>1, <2>1 DEF SharedInv, Pointed
  <2>3. B \in SUBSET users
    BY <1>2, <1>4 DEF Owing
  <2>4. Cardinality(B) \in Nat /\ Cardinality(B) <= Cardinality(users)
    BY <1>2, <2>3, FS_Subset, FS_CardinalityType
  <2>5. QED
    BY <1>4, <1>6, <2>2, <2>4
<1>9. QED
  BY <1>7, <1>8

\* A spawn pays what was owed.
LEMMA SpawnedStep ==
  ASSUME NightBounds, SharedInv, Typed', NEW p \in users, Spawn(p)
  PROVE  Counted'
<1> DEFINE k == at[p].item
<1>1. /\ Others(p) /\ started' = started /\ at[p].pc = "spawn" /\ at'[p].pc = "idle"
      /\ k \in 1..MaxItems[users] /\ spawned'[k] = spawned[k] + 1
      /\ \A j \in 1..MaxItems[users] : j # k => spawned'[j] = spawned[j]
  BY SpawnFields DEF SharedInv
<1>2. /\ users' = users /\ IsFiniteSet(users) /\ users \subseteq AllUsers
      /\ \A r \in AllUsers \ {p} : at'[r] = at[r]
  BY <1>1, Members DEF Others, SharedInv, AllUsers, Typed
<1>3. k \in started
  BY <1>1, <1>2 DEF SharedInv, Pointed
<1>4. SUFFICES ASSUME NEW i \in 1..MaxItems[users]
               PROVE  /\ i \notin started => spawned'[i] = 0
                      /\ spawned'[i] + Cardinality(Owing(i)') <= Cardinality(users)
  BY <1>1, <1>2 DEF Counted
<1>5. PICK A, B : A = Owing(i) /\ B = Owing(i)'
  OBVIOUS
<1>6. IsFiniteSet(A) /\ Cardinality(A) \in Nat /\ Cardinality(users) \in Nat
  BY <1>2, <1>5, OwingFinite
<1>7. /\ i \notin started => spawned[i] = 0
      /\ spawned[i] + Cardinality(A) <= Cardinality(users)
      /\ spawned[i] \in Nat
  BY <1>5 DEF SharedInv, Counted, Typed
<1>8. CASE i = k
  <2>1. B = A \ {p} /\ p \in A
    BY <1>1, <1>2, <1>5, <1>8 DEF Owing
  <2>2. Cardinality(B) = Cardinality(A) - 1
    BY <1>6, <2>1, FS_RemoveElement
  <2>3. QED
    BY <1>1, <1>3, <1>5, <1>6, <1>7, <1>8, <2>2
<1>9. CASE i # k
  <2>1. B = A
    BY <1>1, <1>2, <1>5, <1>9 DEF Owing
  <2>2. QED
    BY <1>1, <1>5, <1>7, <1>9, <2>1
<1>10. QED
  BY <1>8, <1>9

LEMMA SharedStep == NightBounds /\ SharedInv /\ NightNext => SharedInv'
<1> SUFFICES ASSUME NightBounds, SharedInv, NEW p \in users,
                    \/ \E op \in Ops : Call(p, op)
                    \/ Work(p) \/ ChildOf(p) \/ Boot(p) \/ ProcessDies(p)
             PROVE  SharedInv'
  BY DEF NightNext
<1>1. /\ Typed /\ Pointed /\ Earned /\ Counted /\ p \in AllUsers
      /\ Len(q.items) \in Nat /\ DOMAIN q.items = 1 .. Len(q.items)
  BY Members DEF SharedInv
<1>2. ASSUME Typed', Others(p), Faithful(p), OwesNoMore(p) PROVE SharedInv'
  <2>1. started \subseteq started'
    BY <1>2 DEF Faithful
  <2>2. QED
    BY <1>2, <2>1, FaithfulStep, OwesNoMoreStep DEF SharedInv
<1>3. ASSUME NEW op \in Ops, Call(p, op) PROVE SharedInv'
  <2>1. /\ Typed' /\ Others(p)
        /\ UNCHANGED <<q, child, started, said, spawned, earned>>
        /\ at'[p].ok = FALSE
        /\ at'[p].pc \in {Settling[op], op}
    BY <1>1, <1>3, CallFields
  <2>2. at'[p].pc \notin {"launch", "spawn", "finish"}
    BY <2>1, SettlingTyped DEF Ops
  <2>3. Faithful(p) /\ OwesNoMore(p)
    BY <1>1, <2>1, <2>2 DEF Faithful, OwesNoMore, Pointed, Earned
  <2>4. QED
    BY <1>2, <2>1, <2>3
<1>4. ASSUME NEW op \in Ops, Reconcile(p, op) PROVE SharedInv'
  <2>1. /\ Typed' /\ Others(p)
        /\ UNCHANGED <<child, started, said, spawned, earned>>
        /\ at'[p].ok = at[p].ok /\ at'[p].item = at[p].item
        /\ at'[p].pc = op /\ Len(q'.items) = Len(q.items)
        /\ \A i \in 1 .. Len(q.items) :
             q'.items[i] = IF q.items[i] = "running" THEN "failed" ELSE q.items[i]
    BY <1>1, <1>4, NightSettleFields
  <2>2. at'[p].pc \notin {"launch", "spawn", "finish"}
    BY <2>1 DEF Ops
  <2>3. Faithful(p) /\ OwesNoMore(p)
    BY <1>1, <2>1, <2>2 DEF Faithful, OwesNoMore, Pointed, Earned
  <2>4. QED
    BY <1>2, <2>1, <2>3
<1>5. CASE Add(p)
  <2>1. /\ Typed' /\ Others(p)
        /\ UNCHANGED <<child, started, said, spawned, earned>>
        /\ at'[p].pc = "idle" /\ at'[p].ok = FALSE
        /\ \A i \in 1 .. Len(q.items) : q'.items[i] = q.items[i]
        /\ \/ Len(q'.items) = Len(q.items)
           \/ /\ Len(q'.items) = Len(q.items) + 1
              /\ q'.items[Len(q.items) + 1] = "queued"
    BY <1>1, <1>5, AddFields
  <2>2. ASSUME NEW i \in 1 .. Len(q'.items)
        PROVE  /\ q'.items[i] = "queued" => i \notin started'
               /\ q'.items[i] = "complete" => i \in earned'
    <3>1. CASE i \in 1 .. Len(q.items)
      BY <1>1, <2>1, <3>1 DEF Pointed, Earned
    <3>2. CASE i = Len(q.items) + 1
      BY <1>1, <2>1, <3>2 DEF Pointed
    <3>3. QED
      BY <1>1, <2>1, <3>1, <3>2
  <2>3. 1 .. Len(q.items) \subseteq 1 .. Len(q'.items) /\ Len(q.items) <= Len(q'.items)
    BY <1>1, <2>1
  <2>4. Faithful(p) /\ OwesNoMore(p)
    BY <1>1, <2>1, <2>2, <2>3 DEF Faithful, OwesNoMore, Pointed, Earned
  <2>5. QED
    BY <1>2, <2>1, <2>4
<1>6. CASE Remove(p)
  <2>1. /\ Typed' /\ Others(p)
        /\ UNCHANGED <<child, started, said, spawned, earned>>
        /\ at'[p].pc = "idle" /\ at'[p].ok = FALSE
        /\ Len(q'.items) = Len(q.items)
        /\ \A i \in 1 .. Len(q.items) : q'.items[i] \in {q.items[i], "removed"}
    BY <1>1, <1>6, RemoveFields
  <2>2. Faithful(p) /\ OwesNoMore(p)
    BY <1>1, <2>1 DEF Faithful, OwesNoMore, Pointed, Earned
  <2>3. QED
    BY <1>2, <2>1, <2>2
<1>7. CASE StartNight(p)
  <2>1. /\ Typed' /\ Others(p)
        /\ UNCHANGED <<child, started, said, spawned, earned>>
        /\ q'.items = q.items /\ at'[p].pc \in {"idle", "next"}
        /\ at'[p].ok => at[p].ok /\ at'[p].item = at[p].item
    BY <1>1, <1>7, StartFields
  <2>2. Faithful(p) /\ OwesNoMore(p)
    BY <1>1, <2>1 DEF Faithful, OwesNoMore, Pointed, Earned
  <2>3. QED
    BY <1>2, <2>1, <2>2
<1>8. CASE Stop(p)
  <2>1. /\ Typed' /\ Others(p)
        /\ UNCHANGED <<child, started, said, spawned, earned>>
        /\ q'.items = q.items /\ at'[p].pc = "idle" /\ at'[p].ok = FALSE
    BY <1>1, <1>8, StopFields
  <2>2. Faithful(p) /\ OwesNoMore(p)
    BY <1>1, <2>1 DEF Faithful, OwesNoMore, Pointed, Earned
  <2>3. QED
    BY <1>2, <2>1, <2>2
<1>9. CASE RunNext(p)
  <2>1. /\ Typed' /\ Others(p)
        /\ UNCHANGED <<q, child, started, said, earned>>
        /\ at'[p].ok = FALSE
        /\ \/ at'[p].pc \in {"idle", "drain"}
           \/ at'[p].pc = "launch" /\ at'[p].item \in 1 .. Len(q.items)
    BY <1>1, <1>9, RunNextFields
  <2>2. Faithful(p)
    BY <1>1, <2>1 DEF Faithful, Pointed, Earned
  <2>3. Counted'
    BY <1>9, <2>1, ChosenStep
  <2>4. QED
    BY <2>1, <2>2, <2>3, FaithfulStep DEF SharedInv
<1>10. CASE Drain(p)
  <2>1. /\ Typed' /\ Others(p)
        /\ UNCHANGED <<child, started, said, spawned, earned>>
        /\ q'.items = q.items /\ at'[p].pc = "idle" /\ at'[p].ok = FALSE
    BY <1>1, <1>10, DrainFields
  <2>2. Faithful(p) /\ OwesNoMore(p)
    BY <1>1, <2>1 DEF Faithful, OwesNoMore, Pointed, Earned
  <2>3. QED
    BY <1>2, <2>1, <2>2
<1>11. CASE Launch(p)
  <2> DEFINE k == at[p].item
  <2>1. /\ Typed' /\ Others(p)
        /\ UNCHANGED <<child, said, spawned, earned>>
        /\ at[p].pc = "launch" /\ k \in 1 .. Len(q.items)
        /\ \/ q' = q /\ started' = started
           \/ /\ started' = started \cup {k}
              /\ Len(q'.items) = Len(q.items) /\ q'.items[k] = "running"
              /\ \A j \in 1 .. Len(q.items) : j # k => q'.items[j] = q.items[j]
        /\ \/ /\ at'[p].pc = "spawn" /\ at'[p].item = k /\ at'[p].ok = at[p].ok
              /\ k \in started' 
           \/ at'[p].pc = "idle" /\ at'[p].ok = FALSE
    BY <1>1, <1>11, LaunchFields
  <2> HIDE DEF k
  <2>2. ASSUME NEW i \in 1 .. Len(q'.items)
        PROVE  /\ q'.items[i] = "queued" => i \notin started'
               /\ q'.items[i] = "complete" => i \in earned'
    BY <1>1, <2>1 DEF Pointed, Earned
  <2>3. /\ Len(q.items) <= Len(q'.items) /\ started \subseteq started'
        /\ started' \subseteq 1 .. Len(q'.items)
    <3> DEFINE old == Len(q.items)
               new == Len(q'.items)
    <3>1. started \subseteq 1 .. old /\ old \in Nat /\ k \in 1 .. old
      BY <1>1, <2>1 DEF Pointed, Typed, Queues, Items
    <3>2. new = old
      BY <2>1
    <3>3. started' = started \/ started' = started \cup {k}
      BY <2>1
    <3> HIDE DEF old, new
    <3>4. old <= new
      BY <3>1, <3>2
    <3>5. started \subseteq started' /\ started' \subseteq 1 .. old
      BY <3>1, <3>3
    <3>6. started' \subseteq 1 .. new
      BY <3>2, <3>5
    <3>7. QED
      BY <3>4, <3>5, <3>6 DEF old, new
  <2>4. at'[p].ok => at'[p].item \in earned'
    BY <1>1, <2>1 DEF Earned, k
  <2>5. Faithful(p)
    BY <1>1, <2>1, <2>2, <2>3, <2>4 DEF Faithful, Pointed
  <2>6. OwesNoMore(p)
    BY <2>1 DEF OwesNoMore, k
  <2>7. QED
    BY <1>2, <2>1, <2>5, <2>6
<1>12. CASE Spawn(p)
  <2>1. /\ Typed' /\ Others(p)
        /\ UNCHANGED <<q, started, said, earned>>
        /\ at[p].pc = "spawn" /\ at'[p].pc = "idle" /\ at'[p].ok = FALSE
        /\ child'[p] = at[p].item
    BY <1>1, <1>12, SpawnFields
  <2>2. Faithful(p)
    BY <1>1, <2>1 DEF Faithful, Pointed, Earned
  <2>3. Counted'
    BY <1>12, <2>1, SpawnedStep
  <2>4. QED
    BY <2>1, <2>2, <2>3, FaithfulStep DEF SharedInv
<1>13. CASE SpawnFails(p)
  <2>1. /\ Typed' /\ Others(p)
        /\ UNCHANGED <<q, child, started, said, spawned, earned>>
        /\ at[p].pc = "spawn" /\ at'[p].pc = "finish" /\ at'[p].ok = FALSE
        /\ at'[p].item = at[p].item
    BY <1>1, <1>13, SpawnFailsFields
  <2>2. Faithful(p) /\ OwesNoMore(p)
    BY <1>1, <2>1 DEF Faithful, OwesNoMore, Pointed, Earned
  <2>3. QED
    BY <1>2, <2>1, <2>2
<1>14. ASSUME NEW ok \in BOOLEAN, ChildEnds(p, ok) PROVE SharedInv'
  <2>1. /\ Typed' /\ Others(p)
        /\ UNCHANGED <<q, child, started, said, spawned>>
        /\ child[p] # 0
        /\ at'[p].pc = "finish" /\ at'[p].ok = ok /\ at'[p].item = child[p]
        /\ earned \subseteq earned' /\ (ok => child[p] \in earned')
    BY <1>1, <1>14, ChildEndsFields
  <2>2. Faithful(p) /\ OwesNoMore(p)
    BY <1>1, <2>1 DEF Faithful, OwesNoMore, Pointed, Earned
  <2>3. QED
    BY <1>2, <2>1, <2>2
<1>15. CASE Finish(p)
  <2> DEFINE k == at[p].item
  <2>1. /\ Typed' /\ Others(p)
        /\ UNCHANGED <<started, spawned, earned>>
        /\ at[p].pc = "finish"
        /\ at'[p].pc \in {"next", "idle"} /\ at'[p].ok = FALSE /\ child'[p] = 0
        /\ \A j \in 1..MaxItems[users] : j # k => said'[j] = said[j]
        /\ Len(q'.items) = Len(q.items)
        /\ \A j \in 1 .. Len(q.items) : j # k => q'.items[j] = q.items[j]
        /\ said[k] # "none" => q' = q
        /\ said[k] = "none" =>
             q'.items[k] = IF q.items[k] = "removed" THEN "removed"
                           ELSE IF at[p].ok THEN "complete" ELSE "failed"
    BY <1>1, <1>15, FinishFields
  <2>2. k \in started /\ (at[p].ok => k \in earned)
    BY <1>1, <2>1 DEF Pointed, Earned
  <2> HIDE DEF k
  <2>3. ASSUME NEW i \in 1 .. Len(q'.items)
        PROVE  /\ q'.items[i] = "queued" => i \notin started'
               /\ q'.items[i] = "complete" => i \in earned'
    <3>1. CASE q' = q
      BY <1>1, <2>1, <3>1 DEF Pointed, Earned
    <3>2. CASE said[k] = "none" /\ i = k
      BY <1>1, <2>1, <2>2, <3>2
    <3>3. CASE i # k
      BY <1>1, <2>1, <3>3 DEF Pointed, Earned
    <3>4. QED
      BY <2>1, <3>1, <3>2, <3>3
  <2>4. \A i \in 1..MaxItems[users] : said'[i] # "none" => i \in started'
    BY <1>1, <2>1, <2>2 DEF Pointed
  <2>5. Faithful(p) /\ OwesNoMore(p)
    BY <1>1, <2>1, <2>3, <2>4 DEF Faithful, OwesNoMore, Pointed
  <2>6. QED
    BY <1>2, <2>1, <2>5
<1>16. CASE Boot(p)
  <2>1. /\ Typed' /\ Others(p)
        /\ UNCHANGED <<q, child, at, started, said, spawned, earned>>
    BY <1>1, <1>16, BootFields
  <2>2. Faithful(p) /\ OwesNoMore(p)
    BY <1>1, <2>1 DEF Faithful, OwesNoMore, Pointed, Earned
  <2>3. QED
    BY <1>2, <2>1, <2>2
<1>17. CASE ProcessDies(p)
  <2>1. /\ Typed' /\ Others(p)
        /\ UNCHANGED <<q, started, said, spawned, earned>>
        /\ child'[p] = 0 /\ at'[p].pc = "idle" /\ at'[p].ok = FALSE
    BY <1>1, <1>17, DieFields
  <2>2. Faithful(p) /\ OwesNoMore(p)
    BY <1>1, <2>1 DEF Faithful, OwesNoMore, Pointed, Earned
  <2>3. QED
    BY <1>2, <2>1, <2>2
<1>18. QED
  BY <1>3, <1>4, <1>5, <1>6, <1>7, <1>8, <1>9, <1>10, <1>11, <1>12, <1>13, <1>14, <1>15,
     <1>16, <1>17 DEF Work, ChildOf

-----------------------------------------------------------------------------
(* What holds where one process is alone                                   *)

LEMMA AloneStep ==
  ASSUME NightBounds, SharedInv, NEW p \in users, users = {p}, Solo(p), Held(p),
         \/ \E op \in Ops : Call(p, op)
         \/ Work(p) \/ ChildOf(p) \/ Boot(p) \/ ProcessDies(p)
  PROVE  Solo(p)' /\ Held(p)'
<1>1. /\ Typed /\ Pointed /\ p \in AllUsers /\ pid[p] \in Nat /\ lastPid \in Nat
      /\ q.owner \in Nat /\ Len(q.items) \in Nat /\ child[p] \in Nat
      /\ inFlight[p] \in BOOLEAN /\ DOMAIN q.items = 1 .. Len(q.items)
      /\ Len(q.items) <= MaxItems[users] /\ MaxItems[users] \in Nat
  BY Members DEF SharedInv, Typed, Queues
<1>2. ASSUME NEW op \in Ops, Call(p, op) PROVE Solo(p)' /\ Held(p)'
  <2> DEFINE gone == q.status = "running" /\ ~Alive(p, q.owner)
  <2>1. /\ UNCHANGED <<q, pid, lastPid, inFlight, child, said>>
        /\ pid[p] # 0 /\ at[p].pc = "idle"
        /\ at'[p].saw = Facts(q)
        /\ at'[p].pc = IF gone THEN Settling[op] ELSE op
    BY <1>1, <1>2, CallFields
  <2>2. gone => q.status = "running" /\ ~inFlight[p] /\ child[p] = 0
    <3>1. SUFFICES ASSUME gone PROVE ~inFlight[p] /\ child[p] = 0
      OBVIOUS
    <3>2. q.owner # pid[p] \/ ~inFlight[p]
      BY <2>1, <3>1 DEF Alive
    <3>3. QED
      BY <2>1, <3>1, <3>2 DEF Solo
  <2>3. "running" \in Facts(q) <=> q.status = "running"
    BY DEF Facts
  <2> HIDE DEF gone
  <2>4. at'[p].pc \notin {"idle", "next", "drain", "launch", "spawn", "finish"}
    BY <2>1, SettlingTyped DEF Ops
  <2>5. at'[p].pc \in {Settling[o] : o \in Ops} => gone
    BY <2>1, SettlingTyped
  <2>6. Solo(p)'
    BY <1>1, <2>1, <2>2, <2>3, <2>4, <2>5 DEF Solo
  <2>7. Held(p)'
    BY <1>1, <2>1, <2>4 DEF Held
  <2>8. QED
    BY <2>6, <2>7
<1>3. ASSUME NEW op \in Ops, Reconcile(p, op) PROVE Solo(p)' /\ Held(p)'
  <2>1. /\ UNCHANGED <<pid, lastPid, inFlight, child, said>>
        /\ at[p].pc = Settling[op] /\ at'[p].pc = op /\ at'[p].saw = Facts(q')
        /\ q'.status \in {"needs-attention", "stopped"} /\ q'.owner = 0
        /\ Len(q'.items) = Len(q.items)
        /\ \A i \in 1 .. Len(q.items) :
             q'.items[i] = IF q.items[i] = "running" THEN "failed" ELSE q.items[i]
    BY <1>1, <1>3, NightSettleFields
  <2>2. ~inFlight[p] /\ child[p] = 0
    BY <2>1, SettlingTyped DEF Solo
  <2>3. at[p].pc # "idle"
    BY <2>1, SettlingTyped
  <2>4. op \notin {"idle", "next", "drain", "launch", "spawn", "finish"}
        /\ op \notin {Settling[o] : o \in Ops}
    BY SettlingTyped DEF Ops
  <2>5. "running" \in Facts(q') <=> q'.status = "running"
    BY DEF Facts
  <2>6. Solo(p)'
    BY <1>1, <2>1, <2>2, <2>3, <2>4, <2>5 DEF Solo
  <2>7. Held(p)'
    BY <1>1, <2>1, <2>2, <2>4 DEF Held
  <2>8. QED
    BY <2>6, <2>7
\* A call that ends without touching what p holds.
<1>4. ASSUME UNCHANGED <<pid, lastPid, inFlight, child, said>>,
             at[p].pc \in Ops, at'[p].pc = "idle",
             q'.status = q.status, q'.owner = q.owner,
             \A i \in 1 .. Len(q'.items) :
               q'.items[i] = "running" => i \in 1 .. Len(q.items) /\ q.items[i] = "running"
      PROVE  Solo(p)' /\ Held(p)'
  <2>1. at[p].pc \notin {"idle", "next", "drain", "launch", "spawn", "finish"}
    BY <1>4 DEF Ops
  <2>2. at'[p].pc \notin {Settling[o] : o \in Ops}
    BY <1>4, PlainPcs
  <2>3. Solo(p)'
    BY <1>1, <1>4, <2>1, <2>2 DEF Solo
  <2>4. Held(p)'
    BY <1>1, <1>4, <2>1 DEF Held
  <2>5. QED
    BY <2>3, <2>4
<1>5. CASE Add(p)
  <2>1. /\ UNCHANGED <<pid, lastPid, inFlight, child, said>>
        /\ at[p].pc = "add" /\ at'[p].pc = "idle"
        /\ q'.status = q.status /\ q'.owner = q.owner
        /\ \A i \in 1 .. Len(q.items) : q'.items[i] = q.items[i]
        /\ \/ Len(q'.items) = Len(q.items)
           \/ /\ Len(q'.items) = Len(q.items) + 1
              /\ q'.items[Len(q.items) + 1] = "queued"
    BY <1>1, <1>5, AddFields
  <2>2. ASSUME NEW i \in 1 .. Len(q'.items), q'.items[i] = "running"
        PROVE  i \in 1 .. Len(q.items) /\ q.items[i] = "running"
    <3>1. i \in 1 .. Len(q.items) \/ i = Len(q.items) + 1
      BY <1>1, <2>1
    <3>2. QED
      BY <2>1, <2>2, <3>1
  <2>3. QED
    BY <1>4, <2>1, <2>2 DEF Ops
<1>6. CASE Remove(p)
  <2>1. /\ UNCHANGED <<pid, lastPid, inFlight, child, said>>
        /\ at[p].pc = "remove" /\ at'[p].pc = "idle"
        /\ q'.status = q.status /\ q'.owner = q.owner /\ Len(q'.items) = Len(q.items)
        /\ \A i \in 1 .. Len(q.items) : q'.items[i] \in {q.items[i], "removed"}
    BY <1>1, <1>6, RemoveFields
  <2>2. \A i \in 1 .. Len(q'.items) :
          q'.items[i] = "running" => i \in 1 .. Len(q.items) /\ q.items[i] = "running"
    BY <2>1
  <2>3. QED
    BY <1>4, <2>1, <2>2 DEF Ops
<1>7. CASE StartNight(p)
  <2>1. /\ UNCHANGED <<pid, lastPid, inFlight, child, said>>
        /\ at[p].pc = "start" /\ q'.items = q.items
        /\ \/ at'[p].pc = "idle" /\ q' = q
           \/ /\ at'[p].pc = "next" /\ "running" \notin at[p].saw
              /\ q'.status = "running" /\ q'.owner = pid[p]
    BY <1>1, <1>7, StartFields
  <2>2. CASE at'[p].pc = "idle" /\ q' = q
    BY <1>4, <2>1, <2>2 DEF Ops
  <2>3. CASE /\ at'[p].pc = "next" /\ "running" \notin at[p].saw
             /\ q'.status = "running" /\ q'.owner = pid[p]
    <3>1. q.status # "running" /\ pid[p] # 0 /\ child[p] = 0 /\ ~inFlight[p]
      BY <2>1, <2>3 DEF Solo
    <3>2. at'[p].pc \notin {Settling[o] : o \in Ops}
      BY <2>3, PlainPcs
    <3>3. Solo(p)'
      BY <1>1, <2>1, <2>3, <3>1, <3>2 DEF Solo
    <3>4. Held(p)'
      BY <1>1, <2>1, <2>3, <3>1 DEF Held
    <3>5. QED
      BY <3>3, <3>4
  <2>4. QED
    BY <2>1, <2>2, <2>3
<1>8. CASE Stop(p)
  <2>1. /\ UNCHANGED <<pid, lastPid, inFlight, child, said>>
        /\ at[p].pc = "stop" /\ at'[p].pc = "idle"
        /\ q'.items = q.items /\ q'.status = q.status /\ q'.owner = q.owner
    BY <1>1, <1>8, StopFields
  <2>2. QED
    BY <1>4, <2>1 DEF Ops
<1>9. CASE RunNext(p)
  <2>1. /\ UNCHANGED <<q, pid, lastPid, child, said>> /\ at[p].pc = "next"
        /\ ~inFlight[p] => /\ inFlight'[p]
                           /\ \/ at'[p].pc = "drain"
                              \/ /\ at'[p].pc = "launch"
                                 /\ q.items[at'[p].item] = "queued"
    BY <1>1, <1>9, RunNextFields
  <2>2. ~inFlight[p] /\ child[p] = 0 /\ pid[p] # 0 /\ q.status = "running" /\ q.owner = pid[p]
    BY <2>1 DEF Solo
  <2>3. at'[p].pc \notin {Settling[o] : o \in Ops}
    BY <2>1, <2>2, PlainPcs
  <2>4. Solo(p)'
    BY <1>1, <2>1, <2>2, <2>3 DEF Solo
  <2>5. Held(p)'
    BY <1>1, <2>1, <2>2 DEF Held
  <2>6. QED
    BY <2>4, <2>5
<1>10. CASE Drain(p)
  <2>1. /\ UNCHANGED <<pid, lastPid, child, said>>
        /\ at[p].pc = "drain" /\ at'[p].pc = "idle" /\ inFlight'[p] = FALSE
        /\ q'.items = q.items /\ q'.status # "running" /\ q'.owner = 0
    BY <1>1, <1>10, DrainFields
  <2>2. child[p] = 0 /\ pid[p] # 0 /\ q.owner = pid[p]
    BY <2>1 DEF Solo
  <2>3. at'[p].pc \notin {Settling[o] : o \in Ops}
    BY <2>1, PlainPcs
  <2>4. \A i \in 1 .. Len(q.items) : q.items[i] # "running"
    BY <1>1, <2>1, <2>2 DEF Held
  <2>5. Solo(p)'
    BY <1>1, <2>1, <2>2, <2>3 DEF Solo
  <2>6. Held(p)'
    BY <2>1, <2>2, <2>4 DEF Held
  <2>7. QED
    BY <2>5, <2>6
<1>11. CASE Launch(p)
  <2> DEFINE k == at[p].item
  <2>1. /\ UNCHANGED <<pid, lastPid, inFlight, child, said>>
        /\ at[p].pc = "launch" /\ k \in 1 .. Len(q.items)
        /\ \/ k \in started
           \/ /\ q'.status = q.status /\ q'.owner = q.owner
              /\ Len(q'.items) = Len(q.items) /\ q'.items[k] = "running"
              /\ \A j \in 1 .. Len(q.items) : j # k => q'.items[j] = q.items[j]
           \/ q.items[k] = "removed"
        /\ \/ at'[p].pc = "spawn" /\ at'[p].item = k
           \/ q.items[k] = "removed"
    BY <1>1, <1>11, LaunchFields
  <2>2. q.items[k] = "queued" /\ k \notin started
    BY <1>1, <2>1 DEF Held, Pointed
  <2>3. said[k] = "none"
    BY <1>1, <2>1, <2>2 DEF Pointed
  <2> HIDE DEF k
  <2>4. child[p] = 0 /\ pid[p] # 0 /\ q.status = "running" /\ q.owner = pid[p] /\ inFlight[p]
    BY <2>1 DEF Solo
  <2>5. at'[p].pc = "spawn" /\ at'[p].item = k /\ at'[p].pc \notin {Settling[o] : o \in Ops}
    BY <2>1, <2>2, PlainPcs
  <2>6. /\ q'.status = q.status /\ q'.owner = q.owner /\ Len(q'.items) = Len(q.items)
        /\ \A j \in 1 .. Len(q.items) : j # k => q'.items[j] = q.items[j]
    BY <2>1, <2>2
  <2>7. Solo(p)'
    BY <1>1, <2>1, <2>4, <2>5, <2>6 DEF Solo
  <2>8. \A i \in 1 .. Len(q.items) : q.items[i] # "running"
    BY <1>1, <2>1, <2>4 DEF Held
  <2>9. Held(p)'
    BY <2>1, <2>3, <2>4, <2>5, <2>6, <2>8 DEF Held
  <2>10. QED
    BY <2>7, <2>9
<1>12. CASE Spawn(p)
  <2>1. /\ UNCHANGED <<q, pid, lastPid, inFlight, said>>
        /\ at[p].pc = "spawn" /\ at'[p].pc = "idle" /\ child'[p] = at[p].item
    BY <1>1, <1>12, SpawnFields DEF SharedInv
  <2>2. child[p] = 0 /\ pid[p] # 0 /\ q.status = "running" /\ q.owner = pid[p] /\ inFlight[p]
    BY <2>1 DEF Solo
  <2>3. at'[p].pc \notin {Settling[o] : o \in Ops}
    BY <2>1, PlainPcs
  <2>4. Solo(p)'
    BY <1>1, <2>1, <2>2, <2>3 DEF Solo
  <2>5. Held(p)'
    BY <1>1, <2>1, <2>2 DEF Held
  <2>6. QED
    BY <2>4, <2>5
<1>13. CASE SpawnFails(p)
  <2>1. /\ UNCHANGED <<q, pid, lastPid, inFlight, child, said>>
        /\ at[p].pc = "spawn" /\ at'[p].pc = "finish" /\ at'[p].item = at[p].item
    BY <1>1, <1>13, SpawnFailsFields
  <2>2. child[p] = 0 /\ pid[p] # 0 /\ q.status = "running" /\ q.owner = pid[p] /\ inFlight[p]
    BY <2>1 DEF Solo
  <2>3. at'[p].pc \notin {Settling[o] : o \in Ops}
    BY <2>1, PlainPcs
  <2>4. Solo(p)'
    BY <1>1, <2>1, <2>2, <2>3 DEF Solo
  <2>5. Held(p)'
    BY <1>1, <2>1, <2>2 DEF Held
  <2>6. QED
    BY <2>4, <2>5
<1>14. ASSUME NEW ok \in BOOLEAN, ChildEnds(p, ok) PROVE Solo(p)' /\ Held(p)'
  <2>1. /\ UNCHANGED <<q, pid, lastPid, inFlight, child, said>>
        /\ at[p].pc = "idle" /\ child[p] # 0
        /\ at'[p].pc = "finish" /\ at'[p].item = child[p]
    BY <1>1, <1>14, ChildEndsFields
  <2>2. pid[p] # 0 /\ q.status = "running" /\ q.owner = pid[p] /\ inFlight[p]
    BY <2>1 DEF Solo
  <2>3. at'[p].pc \notin {Settling[o] : o \in Ops}
    BY <2>1, PlainPcs
  <2>4. Solo(p)'
    BY <1>1, <2>1, <2>2, <2>3 DEF Solo
  <2>5. Held(p)'
    BY <1>1, <2>1, <2>2 DEF Held
  <2>6. QED
    BY <2>4, <2>5
<1>15. CASE Finish(p)
  <2> DEFINE k == at[p].item
  <2>1. at[p].pc = "finish"
    BY <1>15 DEF Finish
  <2>2. /\ said[k] = "none" /\ child[p] \in {0, k} /\ pid[p] # 0 /\ q.status = "running"
        /\ q.owner = pid[p]
    BY <2>1 DEF Solo, Held
  <2>3. /\ UNCHANGED <<pid, lastPid>> /\ k \in 1 .. Len(q.items)
        /\ at'[p].pc = "next" /\ child'[p] = 0 /\ inFlight'[p] = FALSE
        /\ q'.status = q.status /\ q'.owner = q.owner /\ Len(q'.items) = Len(q.items)
        /\ \A j \in 1 .. Len(q.items) : j # k => q'.items[j] = q.items[j]
        /\ q'.items[k] # "running"
    BY <1>1, <1>15, <2>2, FinishFields
  <2> HIDE DEF k
  <2>4. at'[p].pc \notin {Settling[o] : o \in Ops}
    BY <2>3, PlainPcs
  <2>5. Solo(p)'
    BY <1>1, <2>2, <2>3, <2>4 DEF Solo
  <2>6. \A i \in 1 .. Len(q.items) : q.items[i] = "running" => i = k
    BY <1>1, <2>1, <2>2 DEF Held, k
  <2>7. \A i \in 1 .. Len(q'.items) : q'.items[i] # "running"
    BY <2>3, <2>6
  <2>8. Held(p)'
    BY <2>3, <2>7 DEF Held
  <2>9. QED
    BY <2>5, <2>8
<1>16. CASE Boot(p)
  <2>1. /\ UNCHANGED <<q, inFlight, child, at, said>>
        /\ pid[p] = 0 /\ pid'[p] = lastPid + 1 /\ lastPid' = lastPid + 1
    BY <1>1, <1>16, BootFields
  <2>2. at[p].pc = "idle" /\ child[p] = 0 /\ ~inFlight[p]
    BY <2>1 DEF Solo
  <2>3. q.owner <= lastPid
    BY DEF Solo
  <2>4. q'.owner # pid'[p] /\ q'.owner <= lastPid' /\ pid'[p] <= lastPid'
    BY <1>1, <2>1, <2>3
  <2>5. at'[p].pc \notin {Settling[o] : o \in Ops}
    BY <2>1, <2>2, PlainPcs
  <2>6. Solo(p)'
    BY <2>1, <2>2, <2>4, <2>5 DEF Solo
  <2>7. Held(p)'
    BY <2>1, <2>2, <2>4 DEF Held
  <2>8. QED
    BY <2>6, <2>7
<1>17. CASE ProcessDies(p)
  <2>1. /\ UNCHANGED <<q, lastPid, said>>
        /\ pid'[p] = 0 /\ inFlight'[p] = FALSE /\ child'[p] = 0 /\ at'[p].pc = "idle"
    BY <1>1, <1>17, DieFields
  <2>2. at'[p].pc \notin {Settling[o] : o \in Ops}
    BY <2>1, PlainPcs
  <2>3. Solo(p)'
    BY <1>1, <2>1, <2>2 DEF Solo
  <2>4. Held(p)'
    BY <1>1, <2>1 DEF Held
  <2>5. QED
    BY <2>3, <2>4
<1>18. QED
  BY <1>2, <1>3, <1>5, <1>6, <1>7, <1>8, <1>9, <1>10, <1>11, <1>12, <1>13, <1>14, <1>15,
     <1>16, <1>17 DEF Work, ChildOf

-----------------------------------------------------------------------------
(* The theorem                                                             *)

NightInv == SharedInv /\ AloneInv

LEMMA InitNight == NightBounds /\ NightInit => NightInv
<1> SUFFICES ASSUME NightBounds, NightInit PROVE NightInv
  OBVIOUS
<1>1. /\ users \in Users /\ users \subseteq AllUsers /\ IsFiniteSet(users)
      /\ MaxItems[users] \in Nat
  BY DEF NightInit, NightBounds, AllUsers
<1>2. /\ q.status = "idle" /\ q.items = <<>> /\ q.owner = 0 /\ q \in Queues
      /\ Len(q.items) = 0
  BY DEF NightInit, Blank, Queues, Statuses, Items
<1>3. \A p \in AllUsers : /\ pid[p] = 0 /\ ~inFlight[p] /\ child[p] = 0
                          /\ at[p] = Waiting /\ at[p].pc = "idle" /\ ~at[p].ok
  BY DEF NightInit, Waiting
<1>4. lastPid = 0 /\ started = {} /\ earned = {}
      /\ \A i \in 1..MaxItems[users] : said[i] = "none" /\ spawned[i] = 0
  BY DEF NightInit
<1>5. Typed
  BY <1>1, <1>2, WaitingTyped DEF NightInit, Typed
<1>6. Pointed /\ Earned
  BY <1>2, <1>3, <1>4 DEF Pointed, Earned
<1>7. Counted
  <2>1. \A i : Owing(i) = {}
    BY <1>1, <1>3 DEF Owing
  <2>2. Cardinality(users) \in Nat
    BY <1>1, FS_CardinalityType
  <2>3. QED
    BY <1>4, <2>1, <2>2, FS_EmptySet DEF Counted
<1>8. AloneInv
  <2>1. SUFFICES ASSUME NEW p \in users PROVE Solo(p) /\ Held(p)
    BY DEF AloneInv
  <2>2. p \in AllUsers
    BY <1>1
  <2>3. "idle" \notin {Settling[o] : o \in Ops}
    BY PlainPcs
  <2>4. QED
    BY <1>2, <1>3, <1>4, <2>2, <2>3 DEF Solo, Held
<1>9. QED
  BY <1>5, <1>6, <1>7, <1>8 DEF NightInv, SharedInv

LEMMA StepNight == NightBounds /\ NightInv /\ [NightNext]_nightVars => NightInv'
<1> SUFFICES ASSUME NightBounds, NightInv, [NightNext]_nightVars PROVE NightInv'
  OBVIOUS
<1>1. CASE UNCHANGED nightVars
  <2>1. UNCHANGED <<users, q, pid, lastPid, inFlight, child, at, started, said, spawned, earned>>
    BY <1>1 DEF nightVars
  <2>2. Typed' /\ Pointed' /\ Earned'
    BY <2>1 DEF NightInv, SharedInv, Typed, Pointed, Earned, AllUsers
  <2>3. \A i : Owing(i)' = Owing(i)
    BY <2>1 DEF Owing
  <2>4. Counted'
    BY <2>1, <2>3 DEF NightInv, SharedInv, Counted
  <2>5. \A p : (Solo(p)' <=> Solo(p)) /\ (Held(p)' <=> Held(p))
    BY <2>1 DEF Solo, Held
  <2>6. AloneInv'
    BY <2>1, <2>5 DEF NightInv, AloneInv
  <2>7. QED
    BY <2>2, <2>4, <2>6 DEF NightInv, SharedInv
<1>2. CASE NightNext
  <2>1. SharedInv'
    BY <1>2, SharedStep DEF NightInv
  <2>2. users' = users
    <3>1. ASSUME NEW p \in users, Work(p) PROVE users' = users
      BY <3>1 DEF Work, Reconcile, Add, Remove, StartNight, Stop, RunNext, Drain, Launch, Spawn,
                  SpawnFails, Finish
    <3>2. ASSUME NEW p \in users, ChildOf(p) \/ Boot(p) \/ ProcessDies(p) PROVE users' = users
      BY <3>2 DEF ChildOf, ChildEnds, Boot, ProcessDies
    <3>3. ASSUME NEW p \in users, NEW op \in Ops, Call(p, op) PROVE users' = users
      BY <3>3 DEF Call
    <3>4. QED
      BY <1>2, <3>1, <3>2, <3>3 DEF NightNext
  <2>3. ASSUME NEW p \in users, users = {p} PROVE Solo(p)' /\ Held(p)'
    BY <1>2, <2>3, AloneStep DEF NightInv, AloneInv, NightNext
  <2>4. AloneInv'
    BY <2>2, <2>3 DEF AloneInv
  <2>5. QED
    BY <2>1, <2>4 DEF NightInv
<1>3. QED
  BY <1>1, <1>2

\* Complete means a child ended well; each process runs an item at most once, across
\* restarts, settlements and replayed answers; and where one process alone uses the queue,
\* a night that is not running has no item running.
THEOREM AlwaysHonestItems ==
  ASSUME NightBounds
  PROVE  NightSpec => []ItemsAreHonest
<1>1. ASSUME NightInv PROVE ItemsAreHonest
  <2>1. Typed /\ DOMAIN q.items = 1 .. Len(q.items) /\ users \in Users /\ IsFiniteSet(users)
    BY <1>1 DEF NightInv, SharedInv, Typed, Queues, Items, NightBounds
  <2>2. Is("complete", q) \subseteq earned
    BY <1>1, <2>1 DEF NightInv, SharedInv, Earned, Is
  <2>3. ASSUME NEW i \in 1..MaxItems[users] PROVE spawned[i] <= Cardinality(users)
    <3>1. spawned[i] + Cardinality(Owing(i)) <= Cardinality(users)
      BY <1>1 DEF NightInv, SharedInv, Counted
    <3>2. spawned[i] \in Nat /\ Cardinality(Owing(i)) \in Nat /\ Cardinality(users) \in Nat
      BY <2>1, OwingFinite DEF Typed
    <3>3. QED
      BY <3>1, <3>2
  <2>4. ASSUME Alone, q.status # "running" PROVE Is("running", q) = {}
    <3>1. PICK p : users = {p}
      BY <2>1, <2>4, FS_Singleton DEF Alone
    <3>2. Held(p)
      BY <1>1, <3>1 DEF NightInv, AloneInv
    <3>3. QED
      BY <2>1, <2>4, <3>2 DEF Held, Is
  <2>5. QED
    BY <2>2, <2>3, <2>4 DEF ItemsAreHonest
<1>2. QED
  BY <1>1, InitNight, StepNight, PTL DEF NightSpec

=================================================================================
