--------------------------- MODULE FounderDeskProofs ---------------------------
(***************************************************************************)
(* One job for a request, and a reply for whoever waits for one, for any   *)
(* processes that share the control file, any number of conversations and   *)
(* jobs, any restarts and deaths.                                           *)
(*                                                                          *)
(* What makes it work without a lock is that a write which another write    *)
(* has overtaken is a lost update (`clobbered'), and short of one a process *)
(* only ever writes what it derived from the file as it is.  So the         *)
(* invariant speaks of the file and, with the same words, of every write    *)
(* that is pending and not overtaken.                                       *)
(***************************************************************************)
EXTENDS FounderDesk, WellFoundedInduction, FiniteSetTheorems, TLAPS

-----------------------------------------------------------------------------
(* The specification and its types *)

DeskSpec == DeskInit /\ [][DeskNext]_deskVars

JobStates == {"none", "decomposing", "running", "blocked", "error", "complete"}
ControlFile == [threads  : [Threads -> [status : {"gone", "idle", "running", "failed"}, asked : Nat]],
                opened   : Nat,
                question : {"none", "queued", "running", "answered", "failed"},
                jobs     : [Jobs -> JobStates],
                paused   : BOOLEAN]

Calls == {r \in [by : Everyone, on : {"thread", "question", "job"}, id : Threads \cup Jobs \cup {1}, n : Nat] :
            /\ r.on = "thread" => r.id \in Threads /\ r.by = Dashboard
            /\ r.on = "job" => r.id \in Jobs}

Acts == [pc : {"idle", "write", "ask", "take"}, new : ControlFile \cup {<<>>}, then : SUBSET Calls]

\* the process has a write to do that no other write has overtaken
Pending(p) == p \in desk /\ act[p].pc \in Writing /\ p \notin stale

DeskTypes ==
  /\ desk \in Desks /\ up \subseteq desk
  /\ control \in ControlFile
  /\ act \in [Everyone -> Acts]
  /\ runs \subseteq Calls
  /\ \A p \in Everyone : act[p].pc \in Writing => act[p].new \in ControlFile
  /\ \A p \in Everyone : act[p].pc = "ask" => act[p].then = {}

-----------------------------------------------------------------------------
(* One job for the request *)

\* With the calls R in progress and jobs recorded so: a call's job is in flight and has no
\* other call, and of the jobs that are not aged at most one is in flight.
OneEach(R, jobs, aged) ==
  /\ \A r \in R : r.on = "job" => jobs[r.id] \in InFlight
  /\ \A r, s \in R : r.on = "job" /\ s.on = "job" /\ r.id = s.id => r = s
  /\ \A i, j \in Jobs \ aged : jobs[i] \in InFlight /\ jobs[j] \in InFlight => i = j

JobsInv ==
  ~clobbered =>
    /\ OneEach(runs, control.jobs, old)
    /\ \A p \in desk : Pending(p) => OneEach(runs \cup act[p].then, act[p].new.jobs, old)

-----------------------------------------------------------------------------
(* Replies are coming *)

Answered(R, threads) ==
  \A t \in Threads : threads[t].status = "running" => \E r \in R : r.on = "thread" /\ r.id = t

RepliesInv ==
  ~clobbered =>
    /\ \A p \in desk \ {Dashboard} : Pending(p) => act[p].new.threads = control.threads
    /\ Dashboard \in up =>
         /\ act[Dashboard].pc # "write" => Answered(runs, control.threads)
         /\ Pending(Dashboard) => Answered(runs \cup act[Dashboard].then, act[Dashboard].new.threads)

-----------------------------------------------------------------------------
(* Documents *)

ThreadRecord == [status : {"gone", "idle", "running", "failed"}, asked : Nat]

LEMMA FileFields ==
  ASSUME NEW f \in ControlFile
  PROVE  /\ f.threads \in [Threads -> ThreadRecord] /\ f.opened \in Nat
         /\ f.jobs \in [Jobs -> JobStates] /\ f.paused \in BOOLEAN
         /\ f.question \in {"none", "queued", "running", "answered", "failed"}
BY DEF ControlFile, ThreadRecord

LEMMA WithStatus ==
  ASSUME NEW f \in ControlFile, NEW t \in Threads, NEW s \in {"gone", "idle", "running", "failed"}, NEW g,
         g = [f EXCEPT !.threads[t].status = s]
  PROVE  /\ g \in ControlFile /\ g.jobs = f.jobs
         /\ g.threads[t].status = s /\ \A u \in Threads \ {t} : g.threads[u] = f.threads[u]
BY DEF ControlFile

LEMMA WithQuestion ==
  ASSUME NEW f \in ControlFile, NEW q \in {"none", "queued", "running", "answered", "failed"}, NEW g,
         g = [f EXCEPT !.question = q]
  PROVE  g \in ControlFile /\ g.jobs = f.jobs /\ g.threads = f.threads
BY DEF ControlFile

LEMMA WithJob ==
  ASSUME NEW f \in ControlFile, NEW j \in Jobs, NEW s \in JobStates, NEW g,
         g = [f EXCEPT !.jobs[j] = s]
  PROVE  /\ g \in ControlFile /\ g.threads = f.threads
         /\ g.jobs[j] = s /\ \A i \in Jobs \ {j} : g.jobs[i] = f.jobs[i]
BY DEF ControlFile

LEMMA WithPause ==
  ASSUME NEW f \in ControlFile, NEW b \in BOOLEAN, NEW g, g = [f EXCEPT !.paused = b]
  PROVE  g \in ControlFile /\ g.jobs = f.jobs /\ g.threads = f.threads
BY DEF ControlFile

LEMMA WithRestart ==
  ASSUME NEW f \in ControlFile, NEW th \in [Threads -> ThreadRecord], NEW g,
         NEW q \in {"none", "queued", "running", "answered", "failed"},
         g = [f EXCEPT !.question = q, !.threads = th]
  PROVE  g \in ControlFile /\ g.threads = th /\ g.jobs = f.jobs
BY DEF ControlFile, ThreadRecord

-----------------------------------------------------------------------------
(* Processes *)

LEMMA NoActIsAct == NoAct \in Acts /\ NoAct.pc = "idle" /\ NoAct.then = {}
BY DEF NoAct, Acts

LEMMA DecideFields ==
  ASSUME act \in [Everyone -> Acts], NEW p \in Everyone, NEW new \in ControlFile,
         NEW then \in SUBSET Calls, Decide(p, new, then)
  PROVE  /\ act' \in [Everyone -> Acts] /\ \A q \in Everyone \ {p} : act'[q] = act[q]
         /\ act'[p].pc = "write" /\ act'[p].new = new /\ act'[p].then = then
         /\ stale' = stale \ {p}
<1>1. [pc |-> "write", new |-> new, then |-> then] \in Acts
  BY DEF Acts
<1>2. QED
  BY <1>1 DEF Decide

LEMMA ActFields ==
  ASSUME act \in [Everyone -> Acts], NEW p \in Everyone, NEW a \in Acts, act' = [act EXCEPT ![p] = a]
  PROVE  /\ act' \in [Everyone -> Acts] /\ act'[p] = a
         /\ \A q \in Everyone \ {p} : act'[q] = act[q]
OBVIOUS

LEMMA FewerCalls ==
  ASSUME NEW R, NEW R2 \in SUBSET R, NEW jobs, NEW aged, NEW aged2, aged \subseteq aged2,
         OneEach(R, jobs, aged)
  PROVE  OneEach(R2, jobs, aged2)
BY DEF OneEach

LEMMA DeskInEveryone ==
  ASSUME DeskTypes, NEW p \in desk
  PROVE  p \in Everyone /\ act[p] \in Acts
BY DEF DeskTypes, Everyone

\* A step that leaves the file alone, takes away calls of p only, and stages at most a
\* write of p's.
LEMMA StagingKeeps ==
  ASSUME DeskTypes, JobsInv, RepliesInv, NEW p \in desk,
         UNCHANGED <<desk, control, clobbered>>, old \subseteq old',
         act' \in [Everyone -> Acts], \A q \in Everyone \ {p} : act'[q] = act[q],
         stale \ {p} \subseteq stale', 
         runs' \subseteq runs, \A r \in runs \ runs' : r.by = p,
         up' \subseteq up \cup {p},
         act'[p].pc = "ask" => act'[p].then = {},
         act'[p].pc \in Writing => act'[p].new \in ControlFile,
         ~clobbered /\ act'[p].pc \in Writing =>
           /\ OneEach(runs' \cup act'[p].then, act'[p].new.jobs, old)
           /\ p # Dashboard => act'[p].new.threads = control.threads
           /\ p = Dashboard => Answered(runs' \cup act'[p].then, act'[p].new.threads),
         ~clobbered /\ p = Dashboard /\ p \in up' /\ act'[p].pc # "write"
           => Answered(runs', control.threads)
  PROVE  (DeskTypes /\ JobsInv /\ RepliesInv)'
<1>0. /\ desk' = desk /\ control' = control /\ clobbered' = clobbered
      /\ p \in Everyone /\ \A q \in desk : q \in Everyone
  BY DeskInEveryone
<1>1. DeskTypes'
  BY <1>0 DEF DeskTypes, Everyone
<1>2. \A q \in desk \ {p} : Pending(q)' => Pending(q) /\ act'[q] = act[q]
  BY <1>0 DEF Pending
<1>3. JobsInv'
  <2>1. SUFFICES ASSUME ~clobbered
                 PROVE  /\ OneEach(runs', control.jobs, old')
                        /\ \A q \in desk : Pending(q)' => OneEach(runs' \cup act'[q].then, act'[q].new.jobs, old')
    BY <1>0 DEF JobsInv
  <2>2. OneEach(runs', control.jobs, old')
    BY <2>1, FewerCalls DEF JobsInv
  <2>3. ASSUME NEW q \in desk, Pending(q)'
        PROVE  OneEach(runs' \cup act'[q].then, act'[q].new.jobs, old')
    <3>1. CASE q = p
      <4>1. act'[p].pc \in Writing
        BY <2>3, <3>1 DEF Pending
      <4>2. OneEach(runs' \cup act'[p].then, act'[p].new.jobs, old)
        BY <2>1, <4>1
      <4>3. QED
        BY <3>1, <4>2, FewerCalls
    <3>2. CASE q # p
      <4>1. Pending(q) /\ act'[q] = act[q]
        BY <1>2, <2>3, <3>2
      <4>2. OneEach(runs \cup act[q].then, act[q].new.jobs, old)
        BY <2>1, <4>1 DEF JobsInv
      <4>3. runs' \cup act[q].then \in SUBSET (runs \cup act[q].then)
        OBVIOUS
      <4>4. QED
        BY <4>1, <4>2, <4>3, FewerCalls
    <3>3. QED
      BY <3>1, <3>2
  <2>4. QED
    BY <2>2, <2>3
<1>4. RepliesInv'
  <2>1. SUFFICES ASSUME ~clobbered
                 PROVE  /\ \A q \in desk \ {Dashboard} : Pending(q)' => act'[q].new.threads = control.threads
                        /\ Dashboard \in up' =>
                             /\ act'[Dashboard].pc # "write" => Answered(runs', control.threads)
                             /\ Pending(Dashboard)' =>
                                  Answered(runs' \cup act'[Dashboard].then, act'[Dashboard].new.threads)
    BY <1>0 DEF RepliesInv
  <2>2. ASSUME NEW q \in desk \ {Dashboard}, Pending(q)'
        PROVE  act'[q].new.threads = control.threads
    <3>1. CASE q = p
      BY <2>1, <2>2, <3>1 DEF Pending
    <3>2. CASE q # p
      BY <1>2, <2>1, <2>2, <3>2 DEF RepliesInv
    <3>3. QED
      BY <3>1, <3>2
  <2>3. CASE p = Dashboard
    BY <2>1, <2>2, <2>3 DEF Pending
  <2>4. CASE p # Dashboard
    <3>1. SUFFICES ASSUME Dashboard \in up'
                   PROVE  /\ act'[Dashboard].pc # "write" => Answered(runs', control.threads)
                          /\ Pending(Dashboard)' =>
                               Answered(runs' \cup act'[Dashboard].then, act'[Dashboard].new.threads)
      BY <2>2
    <3>2. Dashboard \in up /\ Dashboard \in desk \ {p} /\ act'[Dashboard] = act[Dashboard]
      BY <1>0, <2>4, <3>1 DEF DeskTypes
    <3>3. /\ act[Dashboard].pc # "write" => Answered(runs, control.threads)
          /\ Pending(Dashboard) => Answered(runs \cup act[Dashboard].then, act[Dashboard].new.threads)
      BY <2>1, <3>2 DEF RepliesInv
    <3>4. \A r \in runs : r.on = "thread" => r \in runs'
      BY <2>4 DEF DeskTypes, Calls
    <3>5. Pending(Dashboard)' => Pending(Dashboard)
      BY <1>2, <3>2
    <3>6. QED
      BY <3>2, <3>3, <3>4, <3>5 DEF Answered
  <2>5. QED
    BY <2>3, <2>4
<1>5. QED
  BY <1>1, <1>3, <1>4

\* A write puts what was staged into the file; it was staged from the file as it was, or
\* an update is lost.  Every other write that is pending is overtaken.
LEMMA WritingKeeps ==
  ASSUME DeskTypes, JobsInv, RepliesInv, NEW p \in desk, act[p].pc \in Writing,
         UNCHANGED <<desk, old, up>>,
         control' = act[p].new, runs' = runs \cup act[p].then,
         act' \in [Everyone -> Acts], \A q \in Everyone \ {p} : act'[q] = act[q],
         act'[p].pc \in {"idle", "take"}, act'[p].then = {},
         stale' = (stale \ {p}) \cup {r \in desk \ {p} : act[r].pc \in Writing},
         clobbered' = (clobbered \/ p \in stale)
  PROVE  (DeskTypes /\ JobsInv /\ RepliesInv)'
<1>0. p \in Everyone /\ act[p] \in Acts /\ \A q \in desk : q \in Everyone
  BY DeskInEveryone
<1>1. DeskTypes'
  <2>1. act[p].new \in ControlFile /\ act[p].then \subseteq Calls
    BY <1>0 DEF DeskTypes, Acts
  <2>2. act'[p].pc \notin Writing
    BY DEF Writing
  <2>3. QED
    BY <1>0, <2>1, <2>2 DEF DeskTypes, Writing
<1>2. \A q : ~Pending(q)'
  BY <1>0 DEF Pending, Writing
<1>3. SUFFICES ASSUME ~clobbered, p \notin stale
               PROVE  (JobsInv /\ RepliesInv)'
  BY <1>1, <1>2 DEF JobsInv, RepliesInv
<1>4. Pending(p)
  BY <1>3 DEF Pending
<1>5. OneEach(runs', control'.jobs, old')
  BY <1>3, <1>4 DEF JobsInv
<1>6. ASSUME Dashboard \in up', act'[Dashboard].pc # "write"
      PROVE  Answered(runs', control'.threads)
  <2>1. CASE p = Dashboard
    <3>1. Answered(runs \cup act[p].then, act[p].new.threads)
      BY <1>3, <1>4, <1>6, <2>1 DEF RepliesInv
    <3>2. QED
      BY <3>1
  <2>2. CASE p # Dashboard
    <3>1. Dashboard \in Everyone \ {p} /\ Dashboard \in up
      BY <1>0, <1>6, <2>2 DEF DeskTypes
    <3>2. act[Dashboard].pc # "write"
      BY <1>6, <3>1
    <3>3. control'.threads = control.threads /\ Answered(runs, control.threads)
      BY <1>3, <1>4, <2>2, <3>1, <3>2 DEF RepliesInv
    <3>4. QED
      BY <3>3 DEF Answered
  <2>3. QED
    BY <2>1, <2>2
<1>7. JobsInv'
  BY <1>2, <1>5 DEF JobsInv
<1>8. RepliesInv'
  BY <1>2, <1>6 DEF RepliesInv
<1>9. QED
  BY <1>7, <1>8


DeskInv == DeskTypes /\ JobsInv /\ RepliesInv

\* A step in which p decides on a write, and calls of its that ended are gone.
LEMMA DecidingKeeps ==
  ASSUME DeskInv, NEW p \in desk, NEW new \in ControlFile, NEW then \in SUBSET Calls,
         NEW ended \in SUBSET runs, \A r \in ended : r.by = p, runs' = runs \ ended,
         Decide(p, new, then), UNCHANGED <<desk, control, old, clobbered>>, up' \subseteq up \cup {p},
         ~clobbered => /\ OneEach((runs \ ended) \cup then, new.jobs, old)
                       /\ p # Dashboard => new.threads = control.threads
                       /\ p = Dashboard => Answered((runs \ ended) \cup then, new.threads)
  PROVE  DeskInv'
<1>1. DeskTypes /\ JobsInv /\ RepliesInv /\ p \in Everyone /\ act \in [Everyone -> Acts]
  BY DeskInEveryone DEF DeskInv, DeskTypes
<1>2. /\ act' \in [Everyone -> Acts] /\ \A q \in Everyone \ {p} : act'[q] = act[q]
      /\ act'[p].pc = "write" /\ act'[p].new = new /\ act'[p].then = then
      /\ stale' = stale \ {p}
  BY <1>1, DecideFields
<1>3. /\ runs' \subseteq runs /\ \A r \in runs \ runs' : r.by = p
      /\ old \subseteq old' /\ stale \ {p} \subseteq stale'
  BY <1>2
<1>4. act'[p].pc = "ask" => act'[p].then = {}
  BY <1>2
<1>5. act'[p].pc \in Writing => act'[p].new \in ControlFile
  BY <1>2
<1>6. ~clobbered /\ act'[p].pc \in Writing =>
        /\ OneEach(runs' \cup act'[p].then, act'[p].new.jobs, old)
        /\ p # Dashboard => act'[p].new.threads = control.threads
        /\ p = Dashboard => Answered(runs' \cup act'[p].then, act'[p].new.threads)
  BY <1>2
<1>7. ~clobbered /\ p = Dashboard /\ p \in up' /\ act'[p].pc # "write" => Answered(runs', control.threads)
  BY <1>2
<1>8. (DeskTypes /\ JobsInv /\ RepliesInv)'
  BY <1>1, <1>2, <1>3, <1>4, <1>5, <1>6, <1>7, StagingKeeps
<1>9. QED
  BY <1>8 DEF DeskInv

LEMMA StartingKeeps ==
  ASSUME DeskInv, NEW p \in desk, NEW new \in ControlFile, NEW then \in SUBSET Calls, runs' = runs,
         Decide(p, new, then), UNCHANGED <<desk, control, old, clobbered>>, up' \subseteq up \cup {p},
         ~clobbered => /\ OneEach(runs \cup then, new.jobs, old)
                       /\ p # Dashboard => new.threads = control.threads
                       /\ p = Dashboard => Answered(runs \cup then, new.threads)
  PROVE  DeskInv'
<1> DEFINE ended == {}
<1>1. /\ ended \in SUBSET runs /\ (\A r \in ended : r.by = p) /\ runs' = runs \ ended
      /\ (runs \ ended) \cup then = runs \cup then
  OBVIOUS
<1> HIDE DEF ended
<1>2. ~clobbered => /\ OneEach((runs \ ended) \cup then, new.jobs, old)
                    /\ p # Dashboard => new.threads = control.threads
                    /\ p = Dashboard => Answered((runs \ ended) \cup then, new.threads)
  BY <1>1
<1>3. QED
  BY <1>1, <1>2, DecidingKeeps

LEMMA EndingKeeps ==
  ASSUME DeskInv, NEW p \in desk, NEW r \in runs, r.by = p, runs' = runs \ {r},
         NEW new \in ControlFile, NEW then \in SUBSET Calls,
         Decide(p, new, then), UNCHANGED <<desk, control, old, clobbered>>, up' \subseteq up \cup {p},
         ~clobbered => /\ OneEach((runs \ {r}) \cup then, new.jobs, old)
                       /\ p # Dashboard => new.threads = control.threads
                       /\ p = Dashboard => Answered((runs \ {r}) \cup then, new.threads)
  PROVE  DeskInv'
<1> DEFINE ended == {r}
<1>1. ended \in SUBSET runs /\ (\A c \in ended : c.by = p) /\ runs' = runs \ ended
  OBVIOUS
<1>2. ~clobbered => /\ OneEach((runs \ ended) \cup then, new.jobs, old)
                    /\ p # Dashboard => new.threads = control.threads
                    /\ p = Dashboard => Answered((runs \ ended) \cup then, new.threads)
  OBVIOUS
<1> HIDE DEF ended
<1>3. QED
  BY <1>1, <1>2, DecidingKeeps

\* A step in which p puts its write aside, or has none, and calls of its that ended are gone.
LEMMA PassingKeeps ==
  ASSUME DeskInv, NEW p \in desk, NEW ended \in SUBSET runs, \A r \in ended : r.by = p,
         runs' = runs \ ended, UNCHANGED <<desk, control, old, clobbered>>, up' \subseteq up \cup {p},
         act' \in [Everyone -> Acts], \A q \in Everyone \ {p} : act'[q] = act[q],
         act'[p].pc \notin Writing, stale \ {p} \subseteq stale',
         ~clobbered /\ p = Dashboard /\ p \in up' => Answered(runs \ ended, control.threads)
  PROVE  DeskInv'
<1>1. DeskTypes /\ JobsInv /\ RepliesInv
  BY DEF DeskInv
<1>2. runs' \subseteq runs /\ (\A r \in runs \ runs' : r.by = p) /\ old \subseteq old' /\ act'[p].pc # "ask"
  BY DEF Writing
<1>3. (DeskTypes /\ JobsInv /\ RepliesInv)'
  BY <1>1, <1>2, StagingKeeps
<1>4. QED
  BY <1>3 DEF DeskInv

\* What a process that is free to act knows of the file, short of a lost update.
LEMMA FileIsRight ==
  ASSUME DeskInv
  PROVE  /\ control \in ControlFile /\ runs \subseteq Calls
         /\ ~clobbered => OneEach(runs, control.jobs, old)
         /\ ~clobbered /\ Ready(Dashboard) => Answered(runs, control.threads)
<1>1. "idle" # "write"
  OBVIOUS
<1>2. QED
  BY <1>1 DEF DeskInv, DeskTypes, JobsInv, RepliesInv, Ready

-----------------------------------------------------------------------------
(* Conversations *)

LEMMA OpenThreadKeeps ==
  ASSUME DeskInv, NEW p \in desk, OpenThread(p)
  PROVE  DeskInv'
<1> DEFINE new == control.opened + 1
           keep == {t \in Kept : Cardinality({u \in Kept : u > t}) < KeptThreads - 1}
           th == [t \in Threads |-> IF t = new THEN [Gone EXCEPT !.status = "idle"]
                                    ELSE IF t \in keep THEN control.threads[t] ELSE Gone]
           f == [control EXCEPT !.opened = new, !.threads = th]
<1>1. p = Dashboard /\ Ready(p) /\ Decide(p, f, {}) /\ UNCHANGED <<desk, control, up, runs, old, clobbered>>
  BY DEF OpenThread
<1>2. control \in ControlFile /\ runs \subseteq Calls /\ control.threads \in [Threads -> ThreadRecord] /\ new \in Nat
  BY FileIsRight, FileFields
<1>3. th \in [Threads -> ThreadRecord] /\ \A t \in Threads : th[t].status = "running" => th[t] = control.threads[t]
  <2> HIDE DEF keep, new
  <2>1. [Gone EXCEPT !.status = "idle"] \in ThreadRecord /\ [Gone EXCEPT !.status = "idle"].status = "idle"
    BY DEF Gone, ThreadRecord
  <2>2. Gone \in ThreadRecord /\ Gone.status = "gone"
    BY DEF Gone, ThreadRecord
  <2> DEFINE fresh == [Gone EXCEPT !.status = "idle"]
  <2> HIDE DEF fresh
  <2>3. fresh \in ThreadRecord /\ fresh.status = "idle"
    BY <2>1 DEF fresh
  <2>4. th = [t \in Threads |-> IF t = new THEN fresh ELSE IF t \in keep THEN control.threads[t] ELSE Gone]
    BY DEF fresh
  <2>5. QED
    BY <1>2, <2>2, <2>3, <2>4
<1> HIDE DEF th, new
<1>4. f \in ControlFile /\ f.threads = th /\ f.jobs = control.jobs
  BY <1>2, <1>3 DEF ControlFile, ThreadRecord
<1> HIDE DEF f
<1>5. ~clobbered => OneEach(runs \cup {}, f.jobs, old) /\ Answered(runs \cup {}, f.threads)
  BY <1>1, <1>3, <1>4, FileIsRight DEF Answered
<1>6. QED
  BY <1>1, <1>4, <1>5, StartingKeeps

LEMMA DeleteThreadKeeps ==
  ASSUME DeskInv, NEW p \in desk, NEW t \in Threads, DeleteThread(p, t)
  PROVE  DeskInv'
<1> DEFINE f == [control EXCEPT !.threads[t] = Gone]
<1>1. p = Dashboard /\ Ready(p) /\ Decide(p, f, {}) /\ UNCHANGED <<desk, control, up, runs, old, clobbered>>
  BY DEF DeleteThread
<1>2. Gone \in ThreadRecord /\ Gone.status = "gone" /\ control \in ControlFile
  BY FileIsRight DEF Gone, ThreadRecord
<1>3. /\ f \in ControlFile /\ f.jobs = control.jobs
      /\ f.threads[t] = Gone /\ \A u \in Threads \ {t} : f.threads[u] = control.threads[u]
  BY <1>2 DEF ControlFile, ThreadRecord
<1> HIDE DEF f
<1>4. ~clobbered => OneEach(runs \cup {}, f.jobs, old) /\ Answered(runs \cup {}, f.threads)
  BY <1>1, <1>2, <1>3, FileIsRight DEF Answered
<1>5. QED
  BY <1>1, <1>3, <1>4, StartingKeeps

LEMMA PostTurnKeeps ==
  ASSUME DeskInv, NEW p \in desk, NEW t \in Threads, PostTurn(p, t)
  PROVE  DeskInv'
<1> DEFINE n == control.threads[t].asked + 1
           f == [control EXCEPT !.threads[t].status = "running", !.threads[t].asked = n]
           r == Run(p, "thread", t, n)
<1>1. p = Dashboard /\ Ready(p) /\ Decide(p, f, {r}) /\ UNCHANGED <<desk, control, up, runs, old, clobbered>>
  BY DEF PostTurn
<1>2. control \in ControlFile /\ n \in Nat /\ p \in Everyone
  BY FileIsRight, FileFields, DeskInEveryone DEF ThreadRecord, DeskInv
<1> HIDE DEF n
<1>3. /\ f \in ControlFile /\ f.jobs = control.jobs
      /\ f.threads[t].status = "running" /\ \A u \in Threads \ {t} : f.threads[u] = control.threads[u]
  BY <1>2, ZenonT(40) DEF ControlFile
<1>4. r \in Calls /\ r.on = "thread" /\ r.id = t
  BY <1>1, <1>2 DEF Run, Calls
<1> HIDE DEF f, r
<1>5. ~clobbered => Answered(runs \cup {r}, f.threads)
  BY <1>1, <1>3, <1>4, FileIsRight DEF Answered
<1>6. ~clobbered => OneEach(runs \cup {r}, f.jobs, old)
  BY <1>3, <1>4, FileIsRight DEF OneEach
<1>7. QED
  BY <1>1, <1>3, <1>4, <1>5, <1>6, StartingKeeps

LEMMA ReplyToKeeps ==
  ASSUME DeskInv, NEW p \in desk, NEW r \in runs, NEW s \in {"idle", "failed"}, ReplyTo(p, r, s)
  PROVE  DeskInv'
<1> DEFINE f == [control EXCEPT !.threads[r.id].status = s]
<1>1. Ready(p) /\ r.by = p /\ r.on = "thread" /\ runs' = runs \ {r} /\ UNCHANGED <<desk, control, up, old, clobbered>>
  BY DEF ReplyTo
<1>2. control \in ControlFile /\ p = Dashboard /\ r.id \in Threads /\ p \in Everyone /\ act \in [Everyone -> Acts]
  BY <1>1, FileIsRight, DeskInEveryone DEF Calls, DeskInv, DeskTypes
<1>3. ~clobbered => Answered(runs, control.threads) /\ OneEach(runs \ {r}, control.jobs, old)
  BY <1>1, <1>2, FileIsRight, FewerCalls
<1>4. CASE r.id \in Kept
  <2>1. Decide(p, f, {})
    BY <1>4 DEF ReplyTo
  <2>2. /\ f \in ControlFile /\ f.jobs = control.jobs
        /\ f.threads[r.id].status = s /\ \A u \in Threads \ {r.id} : f.threads[u] = control.threads[u]
    BY <1>2, WithStatus
  <2> HIDE DEF f
  <2>3. s # "running"
    OBVIOUS
  <2>4. ~clobbered => Answered((runs \ {r}) \cup {}, f.threads)
    BY <1>3, <2>2, <2>3 DEF Answered
  <2>5. ~clobbered => OneEach((runs \ {r}) \cup {}, f.jobs, old)
    BY <1>3, <2>2
  <2>6. QED
    BY <1>1, <1>2, <2>1, <2>2, <2>4, <2>5, EndingKeeps
<1>5. CASE r.id \notin Kept
  <2>1. UNCHANGED <<act, stale>>
    BY <1>5 DEF ReplyTo
  <2>2. ~clobbered => Answered(runs \ {r}, control.threads)
    BY <1>2, <1>3, <1>5 DEF Answered, Kept
  <2>3. act'[p].pc \notin Writing
    BY <1>1, <2>1 DEF Ready, Writing
  <2> DEFINE ended == {r}
  <2>4. /\ ended \in SUBSET runs /\ (\A c \in ended : c.by = p) /\ runs' = runs \ ended
        /\ ~clobbered /\ p = Dashboard /\ p \in up' => Answered(runs \ ended, control.threads)
    BY <1>1, <2>2
  <2> HIDE DEF ended
  <2>5. act' \in [Everyone -> Acts] /\ (\A q \in Everyone \ {p} : act'[q] = act[q]) /\ stale \ {p} \subseteq stale'
    BY <1>2, <2>1
  <2>6. QED
    BY <1>1, <2>3, <2>4, <2>5, PassingKeeps
<1>6. QED
  BY <1>4, <1>5

-----------------------------------------------------------------------------
(* Questions *)

LEMMA AskKeeps ==
  ASSUME DeskInv, NEW p \in desk, Ask(p)
  PROVE  DeskInv'
<1> DEFINE f == [control EXCEPT !.question = "queued"]
           a == [pc |-> "ask", new |-> f, then |-> {}]
<1>1. /\ Ready(p) /\ act' = [act EXCEPT ![p] = a] /\ stale' = stale \ {p}
      /\ UNCHANGED <<desk, control, up, runs, old, clobbered>>
  BY DEF Ask
<1>2. /\ DeskTypes /\ JobsInv /\ RepliesInv /\ control \in ControlFile /\ p \in Everyone
      /\ act \in [Everyone -> Acts]
  BY FileIsRight, DeskInEveryone DEF DeskInv, DeskTypes
<1>3. f \in ControlFile /\ f.jobs = control.jobs /\ f.threads = control.threads
  BY <1>2, WithQuestion
<1> HIDE DEF f
<1>4. a \in Acts /\ a.pc = "ask" /\ a.new = f /\ a.then = {}
  BY <1>3 DEF Acts
<1> HIDE DEF a
<1>5. act' \in [Everyone -> Acts] /\ act'[p] = a /\ \A q \in Everyone \ {p} : act'[q] = act[q]
  BY <1>1, <1>2, <1>4, ActFields
<1>6. ~clobbered => OneEach(runs, control.jobs, old) /\ (p = Dashboard => Answered(runs, control.threads))
  BY <1>1, FileIsRight
<1>7. /\ ~clobbered /\ act'[p].pc \in Writing =>
           /\ OneEach(runs' \cup act'[p].then, act'[p].new.jobs, old)
           /\ p # Dashboard => act'[p].new.threads = control.threads
           /\ p = Dashboard => Answered(runs' \cup act'[p].then, act'[p].new.threads)
      /\ ~clobbered /\ p = Dashboard /\ p \in up' /\ act'[p].pc # "write" => Answered(runs', control.threads)
  BY <1>1, <1>3, <1>4, <1>5, <1>6
<1>8. /\ act'[p].pc = "ask" => act'[p].then = {}
      /\ act'[p].pc \in Writing => act'[p].new \in ControlFile
      /\ runs' \subseteq runs /\ (\A r \in runs \ runs' : r.by = p) /\ up' \subseteq up \cup {p}
      /\ old \subseteq old' /\ stale \ {p} \subseteq stale'
  BY <1>1, <1>3, <1>4, <1>5
<1>9. (DeskTypes /\ JobsInv /\ RepliesInv)'
  BY <1>1, <1>2, <1>5, <1>7, <1>8, StagingKeeps
<1>10. QED
  BY <1>9 DEF DeskInv

LEMMA TakeKeeps ==
  ASSUME DeskInv, NEW p \in desk, Take(p)
  PROVE  DeskInv'
<1> DEFINE f == [control EXCEPT !.question = "running"]
           r == Run(p, "question", 1, 1)
<1>1. p \in up /\ act[p].pc = "take" /\ UNCHANGED <<desk, control, up, runs, old, clobbered>>
  BY DEF Take
<1>2. control \in ControlFile /\ p \in Everyone /\ act \in [Everyone -> Acts]
  BY FileIsRight, DeskInEveryone DEF DeskInv, DeskTypes
<1>3. ~clobbered => OneEach(runs, control.jobs, old) /\ (p = Dashboard => Answered(runs, control.threads))
  <2>1. "take" # "write"
    OBVIOUS
  <2>2. QED
    BY <1>1, <2>1 DEF DeskInv, JobsInv, RepliesInv
<1>4. CASE control.question = "none"
  <2>1. act' = [act EXCEPT ![p] = NoAct] /\ UNCHANGED stale
    BY <1>4 DEF Take
  <2>2. act' \in [Everyone -> Acts] /\ act'[p] = NoAct /\ \A q \in Everyone \ {p} : act'[q] = act[q]
    BY <1>2, <2>1, NoActIsAct, ActFields
  <2> DEFINE ended == {}
  <2>3. /\ ended \in SUBSET runs /\ (\A c \in ended : c.by = p) /\ runs' = runs \ ended
        /\ ~clobbered /\ p = Dashboard /\ p \in up' => Answered(runs \ ended, control.threads)
    BY <1>1, <1>3
  <2> HIDE DEF ended
  <2>4. act'[p].pc \notin Writing
    BY <2>2, NoActIsAct DEF Writing
  <2>5. QED
    BY <1>1, <2>1, <2>2, <2>3, <2>4, PassingKeeps
<1>5. CASE control.question # "none"
  <2>1. Decide(p, f, {r})
    BY <1>5 DEF Take
  <2>2. f \in ControlFile /\ f.jobs = control.jobs /\ f.threads = control.threads
    BY <1>2 DEF ControlFile
  <2>3. r \in Calls /\ r.on = "question"
    BY <1>2 DEF Run, Calls
  <2> HIDE DEF f, r
  <2>4. ~clobbered => OneEach(runs \cup {r}, f.jobs, old)
    BY <1>3, <2>2, <2>3 DEF OneEach
  <2>5. ~clobbered /\ p = Dashboard => Answered(runs \cup {r}, f.threads)
    BY <1>3, <2>2 DEF Answered
  <2>6. QED
    BY <1>1, <2>1, <2>2, <2>3, <2>4, <2>5, StartingKeeps
<1>6. QED
  BY <1>4, <1>5

LEMMA AnswerKeeps ==
  ASSUME DeskInv, NEW p \in desk, NEW r \in runs, NEW s \in {"answered", "failed"}, Answer(p, r, s)
  PROVE  DeskInv'
<1> DEFINE f == [control EXCEPT !.question = s]
<1>1. Ready(p) /\ r.by = p /\ r.on = "question" /\ runs' = runs \ {r} /\ UNCHANGED <<desk, control, up, old, clobbered>>
  BY DEF Answer
<1>2. control \in ControlFile /\ p \in Everyone /\ act \in [Everyone -> Acts]
  BY FileIsRight, DeskInEveryone DEF DeskInv, DeskTypes
<1>3. ~clobbered => OneEach(runs \ {r}, control.jobs, old) /\ (p = Dashboard => Answered(runs, control.threads))
  BY <1>1, FileIsRight, FewerCalls
<1>4. ~clobbered /\ p = Dashboard => Answered(runs \ {r}, control.threads)
  BY <1>1, <1>3 DEF Answered
<1>5. CASE control.question = "none"
  <2>1. UNCHANGED <<act, stale>>
    BY <1>5 DEF Answer
  <2> DEFINE ended == {r}
  <2>2. /\ ended \in SUBSET runs /\ (\A c \in ended : c.by = p) /\ runs' = runs \ ended
        /\ ~clobbered /\ p = Dashboard /\ p \in up' => Answered(runs \ ended, control.threads)
    BY <1>1, <1>4
  <2> HIDE DEF ended
  <2>3. /\ act' \in [Everyone -> Acts] /\ (\A q \in Everyone \ {p} : act'[q] = act[q])
        /\ stale \ {p} \subseteq stale' /\ act'[p].pc \notin Writing
    BY <1>1, <1>2, <2>1 DEF Ready, Writing
  <2>4. QED
    BY <1>1, <2>2, <2>3, PassingKeeps
<1>6. CASE control.question # "none"
  <2>1. Decide(p, f, {})
    BY <1>6 DEF Answer
  <2>2. f \in ControlFile /\ f.jobs = control.jobs /\ f.threads = control.threads
    BY <1>2 DEF ControlFile
  <2> HIDE DEF f
  <2>3. ~clobbered => OneEach((runs \ {r}) \cup {}, f.jobs, old)
    BY <1>3, <2>2
  <2>4. ~clobbered /\ p = Dashboard => Answered((runs \ {r}) \cup {}, f.threads)
    BY <1>4, <2>2
  <2>5. QED
    BY <1>1, <2>1, <2>2, <2>3, <2>4, EndingKeeps
<1>7. QED
  BY <1>5, <1>6

-----------------------------------------------------------------------------
(* Jobs *)

\* There is a next job when some job was never started.
LEMMA NextJobIsFree ==
  ASSUME Jobs \in SUBSET Nat, \E j \in Jobs : control.jobs[j] = "none"
  PROVE  NextJob \in Jobs /\ control.jobs[NextJob] = "none"
<1> DEFINE T == {j \in Jobs : control.jobs[j] = "none"}
<1>1. T \in SUBSET Nat /\ T # {}
  OBVIOUS
<1>2. PICK x \in T : \A y \in T : ~ (<<y, x>> \in OpToRel(<, Nat))
  BY <1>1, NatLessThanWellFounded, WFMin
<1>3. \A i \in Jobs : i < x => control.jobs[i] # "none"
  BY <1>1, <1>2 DEF OpToRel
<1>4. \E j \in Jobs : control.jobs[j] = "none" /\ \A i \in Jobs : i < j => control.jobs[i] # "none"
  BY <1>2, <1>3
<1>5. QED
  BY <1>4 DEF NextJob

LEMMA StartRequestKeeps ==
  ASSUME DeskInv, Jobs \in SUBSET Nat, NEW p \in desk, StartRequest(p)
  PROVE  DeskInv'
<1> DEFINE k == NextJob
           f == [control EXCEPT !.jobs[k] = "decomposing"]
           r == Run(p, "job", k, 1)
<1>1. /\ Ready(p) /\ Decide(p, f, {r}) /\ Duplicates = {}
      /\ UNCHANGED <<desk, control, up, runs, old, clobbered>>
  BY DEF StartRequest
<1>2. k \in Jobs /\ control.jobs[k] = "none"
  BY NextJobIsFree DEF StartRequest
<1> HIDE DEF k
<1>3. control \in ControlFile /\ runs \subseteq Calls /\ p \in Everyone
  BY FileIsRight, DeskInEveryone DEF DeskInv
<1>4. /\ f \in ControlFile /\ f.threads = control.threads
      /\ f.jobs[k] = "decomposing" /\ \A i \in Jobs \ {k} : f.jobs[i] = control.jobs[i]
  BY <1>2, <1>3 DEF ControlFile, JobStates
<1>5. r \in Calls /\ r.on = "job" /\ r.id = k
  BY <1>2, <1>3 DEF Run, Calls
<1> HIDE DEF f, r
<1>6. ASSUME ~clobbered
      PROVE  OneEach(runs \cup {r}, f.jobs, old) /\ (p = Dashboard => Answered(runs \cup {r}, f.threads))
  <2>1. OneEach(runs, control.jobs, old) /\ (p = Dashboard => Answered(runs, control.threads))
    BY <1>1, <1>6, FileIsRight
  <2>2. "none" \notin InFlight /\ "decomposing" \in InFlight
    BY DEF InFlight
  <2>3. \A c \in runs : c.on = "job" => c.id \in Jobs /\ control.jobs[c.id] \in InFlight /\ c.id # k
    BY <1>2, <1>3, <2>1, <2>2 DEF OneEach, Calls
  <2>4. \A j \in Jobs \ old : control.jobs[j] \notin InFlight
    BY <1>1 DEF Duplicates
  <2>5. \A c \in runs \cup {r} : c.on = "job" => f.jobs[c.id] \in InFlight
    BY <1>4, <1>5, <2>2, <2>3
  <2>6. \A c, d \in runs \cup {r} : c.on = "job" /\ d.on = "job" /\ c.id = d.id => c = d
    BY <1>5, <2>1, <2>3 DEF OneEach
  <2>7. \A i, j \in Jobs \ old : f.jobs[i] \in InFlight /\ f.jobs[j] \in InFlight => i = j
    BY <1>4, <2>4
  <2>8. OneEach(runs \cup {r}, f.jobs, old)
    BY <2>5, <2>6, <2>7 DEF OneEach
  <2>9. QED
    BY <1>4, <2>1, <2>8 DEF Answered
<1>7. QED
  BY <1>1, <1>4, <1>5, <1>6, StartingKeeps

\* A call for a job ends, and the job goes to another state; a call that follows is for it.
LEMMA JobMoves ==
  ASSUME DeskInv, NEW r \in runs, r.on = "job", NEW s \in JobStates, NEW f \in ControlFile,
         f.jobs[r.id] = s, \A i \in Jobs \ {r.id} : f.jobs[i] = control.jobs[i], f.threads = control.threads,
         NEW then \in SUBSET Calls, \A c \in then : c.on = "job" /\ c.id = r.id /\ s \in InFlight,
         \A c, d \in then : c = d, ~clobbered
  PROVE  /\ OneEach((runs \ {r}) \cup then, f.jobs, old)
         /\ Ready(Dashboard) => Answered((runs \ {r}) \cup then, f.threads)
<1>1. /\ OneEach(runs, control.jobs, old) /\ (Ready(Dashboard) => Answered(runs, control.threads))
      /\ control \in ControlFile /\ runs \subseteq Calls
  BY FileIsRight
<1>2. r.id \in Jobs /\ control.jobs[r.id] \in InFlight
  BY <1>1 DEF OneEach, Calls
<1>3. \A c \in runs \ {r} : c.on = "job" => c.id \in Jobs \ {r.id}
  BY <1>1 DEF OneEach, Calls
<1> DEFINE R == (runs \ {r}) \cup then
<1>4. \A c \in R : c.on = "job" => f.jobs[c.id] \in InFlight
  BY <1>1, <1>3 DEF OneEach
<1>5. \A c, d \in R : c.on = "job" /\ d.on = "job" /\ c.id = d.id => c = d
  BY <1>1, <1>3 DEF OneEach
<1>6. \A i \in Jobs : f.jobs[i] \in InFlight => control.jobs[i] \in InFlight
  BY <1>2
<1>7. \A i, j \in Jobs \ old : f.jobs[i] \in InFlight /\ f.jobs[j] \in InFlight => i = j
  BY <1>1, <1>6 DEF OneEach
<1>8. OneEach(R, f.jobs, old)
  BY <1>4, <1>5, <1>7 DEF OneEach
<1>9. Ready(Dashboard) => Answered(R, f.threads)
  <2>1. \A c \in runs : c.on = "thread" => c \in R
    OBVIOUS
  <2> HIDE DEF R
  <2>2. QED
    BY <1>1, <2>1 DEF Answered
<1>10. QED
  BY <1>8, <1>9

LEMMA PlannedKeeps ==
  ASSUME DeskInv, NEW p \in desk, NEW r \in runs, NEW s \in {"running", "blocked", "error"}, Planned(p, r, s)
  PROVE  DeskInv'
<1> DEFINE f == [control EXCEPT !.jobs[r.id] = s]
           then == IF s = "running" THEN {Run(p, "job", r.id, 2)} ELSE {}
<1>1. /\ Ready(p) /\ r.by = p /\ r.on = "job" /\ runs' = runs \ {r}
      /\ Decide(p, f, then) /\ UNCHANGED <<desk, control, up, old, clobbered>>
  BY DEF Planned
<1>2. control \in ControlFile /\ r.id \in Jobs /\ p \in Everyone /\ s \in JobStates
  BY <1>1, FileIsRight, DeskInEveryone DEF Calls, JobStates
<1>3. /\ f \in ControlFile /\ f.threads = control.threads
      /\ f.jobs[r.id] = s /\ \A i \in Jobs \ {r.id} : f.jobs[i] = control.jobs[i]
  BY <1>2 DEF ControlFile
<1>4. /\ then \in SUBSET Calls /\ (\A c \in then : c.on = "job" /\ c.id = r.id /\ s \in InFlight)
      /\ \A c, d \in then : c = d
  BY <1>2 DEF Run, Calls, InFlight
<1> HIDE DEF f, then
<1>5. ~clobbered => /\ OneEach((runs \ {r}) \cup then, f.jobs, old)
                    /\ Ready(Dashboard) => Answered((runs \ {r}) \cup then, f.threads)
  BY <1>1, <1>2, <1>3, <1>4, JobMoves
<1>6. QED
  BY <1>1, <1>3, <1>4, <1>5, EndingKeeps

LEMMA JobEndsKeeps ==
  ASSUME DeskInv, NEW p \in desk, NEW r \in runs, NEW s \in {"complete", "error"}, JobEnds(p, r, s)
  PROVE  DeskInv'
<1> DEFINE f == [control EXCEPT !.jobs[r.id] = s]
           then == {}
<1>1. /\ Ready(p) /\ r.by = p /\ r.on = "job" /\ runs' = runs \ {r}
      /\ Decide(p, f, then) /\ UNCHANGED <<desk, control, up, old, clobbered>>
  BY DEF JobEnds
<1>2. control \in ControlFile /\ r.id \in Jobs /\ s \in JobStates
  BY <1>1, FileIsRight DEF Calls, JobStates
<1>3. /\ f \in ControlFile /\ f.threads = control.threads
      /\ f.jobs[r.id] = s /\ \A i \in Jobs \ {r.id} : f.jobs[i] = control.jobs[i]
  BY <1>2 DEF ControlFile
<1>4. /\ then \in SUBSET Calls /\ (\A c \in then : c.on = "job" /\ c.id = r.id /\ s \in InFlight)
      /\ \A c, d \in then : c = d
  OBVIOUS
<1> HIDE DEF f, then
<1>5. ~clobbered => /\ OneEach((runs \ {r}) \cup then, f.jobs, old)
                    /\ Ready(Dashboard) => Answered((runs \ {r}) \cup then, f.threads)
  BY <1>1, <1>2, <1>3, <1>4, JobMoves
<1>6. QED
  BY <1>1, <1>3, <1>4, <1>5, EndingKeeps

LEMMA TogglePauseKeeps ==
  ASSUME DeskInv, NEW p \in desk, TogglePause(p)
  PROVE  DeskInv'
<1> DEFINE f == [control EXCEPT !.paused = ~@]
<1>1. Ready(p) /\ Decide(p, f, {}) /\ UNCHANGED <<desk, control, up, runs, old, clobbered>>
  BY DEF TogglePause
<1>2. control \in ControlFile
  BY FileIsRight
<1>3. f \in ControlFile /\ f.jobs = control.jobs /\ f.threads = control.threads
  BY <1>2 DEF ControlFile
<1> HIDE DEF f
<1>4. ~clobbered => /\ OneEach(runs \cup {}, f.jobs, old)
                    /\ p = Dashboard => Answered(runs \cup {}, f.threads)
  BY <1>1, <1>3, FileIsRight
<1>5. QED
  BY <1>1, <1>3, <1>4, StartingKeeps

LEMMA AgeOutKeeps ==
  ASSUME DeskInv, NEW j \in Jobs, AgeOut(j)
  PROVE  DeskInv'
<1>1. UNCHANGED <<desk, control, up, act, runs, stale, clobbered>> /\ old' = old \cup {j}
  BY DEF AgeOut
<1>2. DeskTypes'
  BY <1>1 DEF DeskInv, DeskTypes
<1>3. \A R, jobs : OneEach(R, jobs, old) => OneEach(R, jobs, old')
  BY <1>1 DEF OneEach
<1>4. \A p : Pending(p)' <=> Pending(p)
  BY <1>1 DEF Pending
<1>5. JobsInv'
  BY <1>1, <1>3, <1>4 DEF DeskInv, JobsInv
<1>6. RepliesInv'
  BY <1>1, <1>4 DEF DeskInv, RepliesInv
<1>7. QED
  BY <1>2, <1>5, <1>6 DEF DeskInv

-----------------------------------------------------------------------------
(* Restarts, deaths, writes *)

LEMMA BootKeeps ==
  ASSUME DeskInv, NEW p \in desk, Boot(p)
  PROVE  DeskInv'
<1>1. p \in desk \ up /\ up' = up \cup {p} /\ UNCHANGED <<desk, control, runs, old, clobbered>>
  BY DEF Boot
<1>2. CASE p = Dashboard
  <2> DEFINE resume == control.question \in {"queued", "running"}
             threads == [t \in Threads |->
                           IF control.threads[t].status = "running"
                           THEN [control.threads[t] EXCEPT !.status = "failed"]
                           ELSE control.threads[t]]
             q == IF resume THEN "running" ELSE control.question
             f == [control EXCEPT !.question = q, !.threads = threads]
             then == IF resume THEN {Run(p, "question", 1, 1)} ELSE {}
  <2>1. Decide(p, f, then)
    BY <1>2 DEF Boot
  <2>2. control \in ControlFile /\ p \in Everyone /\ control.threads \in [Threads -> ThreadRecord]
        /\ control.question \in {"none", "queued", "running", "answered", "failed"}
    BY FileIsRight, FileFields, DeskInEveryone DEF DeskInv
  <2>3. threads \in [Threads -> ThreadRecord] /\ \A t \in Threads : threads[t].status # "running"
    <3>1. \A x \in ThreadRecord : [x EXCEPT !.status = "failed"] \in ThreadRecord
                                  /\ [x EXCEPT !.status = "failed"].status = "failed"
      BY DEF ThreadRecord
    <3>2. ASSUME NEW t \in Threads
          PROVE  threads[t] \in ThreadRecord /\ threads[t].status # "running"
      BY <2>2, <3>1
    <3>3. QED
      BY <3>2
  <2>4. q \in {"none", "queued", "running", "answered", "failed"}
    BY <2>2
  <2> HIDE DEF threads, q
  <2>5. f \in ControlFile /\ f.threads = threads /\ f.jobs = control.jobs
    BY <2>2, <2>3, <2>4 DEF ControlFile, ThreadRecord
  <2>6. then \in SUBSET Calls /\ \A c \in then : c.on = "question"
    BY <2>2 DEF Run, Calls
  <2> HIDE DEF f, then
  <2>7. ~clobbered => OneEach(runs \cup then, f.jobs, old)
    BY <2>5, <2>6, FileIsRight DEF OneEach
  <2>8. Answered(runs \cup then, f.threads)
    BY <2>3, <2>5 DEF Answered
  <2>9. QED
    BY <1>1, <1>2, <2>1, <2>5, <2>6, <2>7, <2>8, StartingKeeps
<1>3. CASE p # Dashboard
  <2>1. UNCHANGED <<act, stale>>
    BY <1>3 DEF Boot
  <2>2. DeskTypes'
    BY <1>1, <2>1 DEF DeskInv, DeskTypes
  <2>3. \A r : Pending(r)' <=> Pending(r)
    BY <1>1, <2>1 DEF Pending
  <2>4. JobsInv'
    BY <1>1, <2>1, <2>3 DEF DeskInv, JobsInv
  <2>5. Dashboard \in up' <=> Dashboard \in up
    BY <1>1, <1>3
  <2>6. RepliesInv'
    BY <1>1, <2>1, <2>3, <2>5 DEF DeskInv, RepliesInv
  <2>7. QED
    BY <2>2, <2>4, <2>6 DEF DeskInv
<1>4. QED
  BY <1>2, <1>3

LEMMA DieKeeps ==
  ASSUME DeskInv, NEW p \in desk, Die(p)
  PROVE  DeskInv'
<1> DEFINE ended == {r \in runs : r.by = p}
<1>1. /\ up' = up \ {p} /\ act' = [act EXCEPT ![p] = NoAct] /\ stale' = stale \ {p}
      /\ UNCHANGED <<desk, control, old, clobbered>>
      /\ ended \in SUBSET runs /\ (\A r \in ended : r.by = p) /\ runs' = runs \ ended
  BY DEF Die
<1> HIDE DEF ended
<1>2. p \in Everyone /\ act \in [Everyone -> Acts]
  BY DeskInEveryone DEF DeskInv, DeskTypes
<1>3. act' \in [Everyone -> Acts] /\ act'[p] = NoAct /\ \A q \in Everyone \ {p} : act'[q] = act[q]
  BY <1>1, <1>2, NoActIsAct, ActFields
<1>4. act'[p].pc \notin Writing /\ p \notin up'
  BY <1>1, <1>3, NoActIsAct DEF Writing
<1>5. QED
  BY <1>1, <1>3, <1>4, PassingKeeps

LEMMA WriteKeeps ==
  ASSUME DeskInv, NEW p \in desk, Write(p) \/ Record(p)
  PROVE  DeskInv'
<1> DEFINE a == IF act[p].pc = "write" THEN NoAct ELSE [NoAct EXCEPT !.pc = "take"]
<1>1. DeskTypes /\ JobsInv /\ RepliesInv /\ p \in Everyone /\ act \in [Everyone -> Acts]
  BY DeskInEveryone DEF DeskInv, DeskTypes
<1>2. a \in Acts /\ a.pc \in {"idle", "take"} /\ a.then = {}
  BY DEF NoAct, Acts
<1>3. /\ act[p].pc \in Writing /\ UNCHANGED <<desk, old, up>> /\ control' = act[p].new
      /\ stale' = (stale \ {p}) \cup {r \in desk \ {p} : act[r].pc \in Writing}
      /\ clobbered' = (clobbered \/ p \in stale)
      /\ act' = [act EXCEPT ![p] = a]
  BY DEF Write, Record, Writing
<1>4. runs' = runs \cup act[p].then
  <2>1. CASE Write(p)
    BY <2>1 DEF Write
  <2>2. CASE Record(p)
    BY <1>1, <2>2 DEF Record, DeskTypes
  <2>3. QED
    BY <2>1, <2>2
<1> HIDE DEF a
<1>5. act' \in [Everyone -> Acts] /\ act'[p] = a /\ \A q \in Everyone \ {p} : act'[q] = act[q]
  BY <1>1, <1>2, <1>3, ActFields
<1>6. (DeskTypes /\ JobsInv /\ RepliesInv)'
  BY <1>1, <1>2, <1>3, <1>4, <1>5, WritingKeeps
<1>7. QED
  BY <1>6 DEF DeskInv

LEMMA DeskInitHolds == DeskInit => DeskInv
<1>1. SUFFICES ASSUME DeskInit PROVE DeskInv
  OBVIOUS
<1>2. /\ desk \in Desks /\ up = {} /\ act = [p \in Everyone |-> NoAct] /\ runs = {}
      /\ control = [threads  |-> [t \in Threads |-> Gone], opened |-> 0, question |-> "none",
                 jobs     |-> [j \in Jobs |-> "none"], paused   |-> FALSE]
  BY <1>1 DEF DeskInit
<1>3. control \in ControlFile /\ \A j \in Jobs : control.jobs[j] = "none"
  <2>1. Gone \in [status : {"gone", "idle", "running", "failed"}, asked : Nat]
    BY DEF Gone
  <2>2. QED
    BY <1>2, <2>1 DEF ControlFile, JobStates
<1>4. \A p \in desk : p \in Everyone /\ act[p] = NoAct
  BY <1>2 DEF Everyone
<1>5. DeskTypes
  BY <1>2, <1>3, NoActIsAct DEF DeskTypes, Writing
<1>6. \A p : ~Pending(p)
  BY <1>4, NoActIsAct DEF Pending, Writing
<1>7. JobsInv
  BY <1>2, <1>3, <1>6 DEF JobsInv, OneEach, InFlight
<1>8. RepliesInv
  BY <1>2, <1>6 DEF RepliesInv
<1>9. QED
  BY <1>5, <1>7, <1>8 DEF DeskInv

LEMMA DeskStepHolds ==
  ASSUME Jobs \in SUBSET Nat, DeskInv, [DeskNext]_deskVars
  PROVE  DeskInv'
<1>1. CASE UNCHANGED deskVars
  <2>1. UNCHANGED <<desk, control, up, act, runs, old, stale, clobbered>>
    BY <1>1 DEF deskVars
  <2>2. \A p : Pending(p)' <=> Pending(p)
    BY <2>1 DEF Pending
  <2>3. DeskTypes' /\ JobsInv'
    BY <2>1, <2>2 DEF DeskInv, DeskTypes, JobsInv
  <2>4. RepliesInv'
    BY <2>1, <2>2 DEF DeskInv, RepliesInv
  <2>5. QED
    BY <2>3, <2>4 DEF DeskInv
<1>2. ASSUME NEW j \in Jobs, AgeOut(j)
      PROVE  DeskInv'
  BY <1>2, AgeOutKeeps
<1>3. ASSUME NEW p \in desk, FounderActs(p)
      PROVE  DeskInv'
  BY <1>3, OpenThreadKeeps, DeleteThreadKeeps, PostTurnKeeps, AskKeeps, StartRequestKeeps,
     TogglePauseKeeps DEF FounderActs
<1>4. ASSUME NEW p \in desk, Proceed(p)
      PROVE  DeskInv'
  BY <1>4, WriteKeeps, TakeKeeps DEF Proceed
<1>5. ASSUME NEW p \in desk, CallEnds(p)
      PROVE  DeskInv'
  <2>1. PICK r \in runs :
          \/ \E s \in {"idle", "failed"} : ReplyTo(p, r, s)
          \/ \E s \in {"answered", "failed"} : Answer(p, r, s)
          \/ \E s \in {"running", "blocked", "error"} : Planned(p, r, s)
          \/ \E s \in {"complete", "error"} : JobEnds(p, r, s)
    BY <1>5 DEF CallEnds
  <2>2. QED
    BY <2>1, ReplyToKeeps, AnswerKeeps, PlannedKeeps, JobEndsKeeps
<1>6. ASSUME NEW p \in desk, Boot(p) \/ Die(p)
      PROVE  DeskInv'
  BY <1>6, BootKeeps, DieKeeps
<1>7. QED
  BY <1>1, <1>2, <1>3, <1>4, <1>5, <1>6 DEF DeskNext

-----------------------------------------------------------------------------
(* The theorems *)

(* Short of a lost update, a conversation that reads as being answered is being answered, for
   any number of conversations and processes and over every restart and death of them.
   (postFounderTurn, runThreadTurn, deleteThread, recovery at boot.) *)
THEOREM AlwaysRepliesAreComing ==
  ASSUME Jobs \in SUBSET Nat
  PROVE  DeskSpec => []RepliesAreComing
<1>1. DeskInv => RepliesAreComing
  <2>1. SUFFICES ASSUME DeskInv, Dashboard \in up, ~clobbered, act[Dashboard].pc # "write",
                        NEW t \in Threads, Waiting(t)
                 PROVE  Served("thread", t)
    BY DEF RepliesAreComing
  <2>2. Answered(runs, control.threads)
    BY <2>1 DEF DeskInv, RepliesInv
  <2>3. QED
    BY <2>1, <2>2 DEF Answered, Waiting, Served
<1>2. QED
  BY <1>1, DeskInitHolds, DeskStepHolds, PTL DEF DeskSpec

(* Short of a lost update, at most one job inside the duplicate window is being planned or
   run for a request, however often and in how many processes it is submitted.
   (findInFlightDuplicateJob, startFounderRequest, finishFounderJob.) *)
THEOREM AlwaysOneJobPerRequest ==
  ASSUME Jobs \in SUBSET Nat
  PROVE  DeskSpec => []OneJobPerRequest
<1> DEFINE S == {r \in runs : r.on = "job" /\ r.id \notin old}
<1>1. DeskInv => OneJobPerRequest
  <2>1. SUFFICES ASSUME DeskInv, ~clobbered
                 PROVE  Cardinality(S) <= 1
    BY DEF OneJobPerRequest
  <2>2. OneEach(runs, control.jobs, old) /\ runs \subseteq Calls
    BY <2>1, FileIsRight
  <2>3. \A r, s \in S : r = s
    BY <2>2 DEF OneEach, Calls
  <2>4. CASE S = {}
    BY <2>4, FS_EmptySet
  <2>5. CASE S # {}
    <3>1. PICK r \in S : S = {r}
      BY <2>3, <2>5
    <3> HIDE DEF S
    <3>2. Cardinality({r}) = 1
      BY FS_Singleton
    <3>3. QED
      BY <3>1, <3>2
  <2>6. QED
    BY <2>4, <2>5
<1>2. QED
  BY <1>1, DeskInitHolds, DeskStepHolds, PTL DEF DeskSpec

===============================================================================
