----------------------------- MODULE FounderDesk -----------------------------
(***************************************************************************)
(* The founder's side of the dashboard: conversations with an agent,       *)
(* questions, and the requests that became jobs, all kept in one control    *)
(* file (dashboard/backend/lib/founderControlPlane.mjs, readControl and     *)
(* writeControl) that is read whole, changed and written whole, without a   *)
(* lock.  The dashboard does all of it; the intent worker, a process of     *)
(* its own, asks questions and starts objectives too.                       *)
(*                                                                          *)
(* Within a process a read and the write that follows it are synchronous,   *)
(* so only another process can act between them.  `stale' marks a process   *)
(* whose copy another one has overtaken, `clobbered' that such a copy was   *)
(* written: an update was lost.                                             *)
(***************************************************************************)
EXTENDS Integers, Sequences, FiniteSets

CONSTANTS Threads,      \* conversations ever opened, 1..n, in order
          KeptThreads,  \* conversations the file keeps (THREAD_LIMITS.threads)
          MaxTurns,     \* founder messages a thread takes in a day (turnsPerDay)
          Jobs,         \* jobs ever started for the one request of this model, 1..n
          Desks,        \* sets of processes that may share the control file
          Topics,       \* what the founder uses in a behaviour: sets of parts of the desk,
                        \* which meet in the file only (bounds the state space)
          MaxBoots      \* starts of processes (bounds restarts)

VARIABLES desk, topic,  \* the processes and the parts of the desk of this behaviour
          control,         \* control-plane.json
          up,           \* processes that run
          boots,        \* starts so far
          act,          \* per process: nothing, or the new file it is about to write and what follows
          runs,         \* calls in progress: [by, on, id, n]
          old,            \* jobs recorded more than DUPLICATE_JOB_WINDOW_MS ago
          stale, clobbered

deskVars == <<desk, topic, control, up, boots, act, runs, old, stale, clobbered>>

Everyone == UNION Desks
Writing == {"write", "ask"}
NoAct == [pc |-> "idle", new |-> <<>>, then |-> {}]
Gone == [status |-> "gone", asked |-> 0]

DeskInit ==
  /\ desk \in Desks /\ topic \in Topics
  /\ control = [threads  |-> [t \in Threads |-> Gone], opened |-> 0,
                question |-> "none",
                jobs     |-> [j \in Jobs |-> "none"],
                paused   |-> FALSE]
  /\ up = {} /\ boots = 0
  /\ act = [p \in Everyone |-> NoAct]
  /\ runs = {} /\ old = {}
  /\ stale = {} /\ clobbered = FALSE

Run(p, on, id, n) == [by |-> p, on |-> on, id |-> id, n |-> n]
Kept == {t \in Threads : control.threads[t].status # "gone"}

\* readControl, and a change decided on: the write is the next step of this process
Decide(p, new, then) ==
  /\ act' = [act EXCEPT ![p] = [pc |-> "write", new |-> new, then |-> then]]
  /\ stale' = stale \ {p}

Ready(p) == p \in up /\ act[p].pc = "idle"

\* writeControl: a temporary file renamed over the old one; then the calls it was for start
Write(p) ==
  /\ p \in up /\ act[p].pc = "write"
  /\ control' = act[p].new
  /\ runs' = runs \cup act[p].then
  /\ act' = [act EXCEPT ![p] = NoAct]
  /\ stale' = (stale \ {p}) \cup {r \in desk \ {p} : act[r].pc \in Writing}
  /\ clobbered' = (clobbered \/ p \in stale)
  /\ UNCHANGED <<desk, topic, up, boots, old>>

-----------------------------------------------------------------------------
(* Conversations: routes of the dashboard only *)

Dashboard == "dashboard"

\* createThread: beyond the limit the oldest conversation is dropped from the file
OpenThread(p) ==
  /\ p = Dashboard /\ Ready(p)
  /\ control.opened < Cardinality(Threads)
  /\ LET new  == control.opened + 1
         keep == {t \in Kept : Cardinality({u \in Kept : u > t}) < KeptThreads - 1}
     IN Decide(p, [control EXCEPT !.opened = new,
                               !.threads = [t \in Threads |->
                                  IF t = new THEN [Gone EXCEPT !.status = "idle"]
                                  ELSE IF t \in keep THEN @[t] ELSE Gone]], {})
  /\ UNCHANGED <<desk, topic, control, up, boots, runs, old, clobbered>>

\* deleteThread, whether or not it is being answered
DeleteThread(p, t) ==
  /\ p = Dashboard /\ Ready(p)
  /\ t \in Kept
  /\ Decide(p, [control EXCEPT !.threads[t] = Gone], {})
  /\ UNCHANGED <<desk, topic, control, up, boots, runs, old, clobbered>>

\* postFounderTurn, also while an earlier message is being answered, and runThreadTurn
\* detached after it; refused when the day's messages are spent
PostTurn(p, t) ==
  /\ p = Dashboard /\ Ready(p)
  /\ t \in Kept /\ control.threads[t].asked < MaxTurns
  /\ LET n == control.threads[t].asked + 1
     IN Decide(p, [control EXCEPT !.threads[t].status = "running", !.threads[t].asked = n],
               {Run(p, "thread", t, n)})
  /\ UNCHANGED <<desk, topic, control, up, boots, runs, old, clobbered>>

\* the agent replied, failed or ran out of its time: the outcome goes onto the thread, if it
\* is still there
ReplyTo(p, r, status) ==
  /\ Ready(p)
  /\ r \in runs /\ r.by = p /\ r.on = "thread"
  /\ runs' = runs \ {r}
  /\ IF r.id \in Kept
     THEN Decide(p, [control EXCEPT !.threads[r.id].status = status], {})
     ELSE UNCHANGED <<act, stale>>
  /\ UNCHANGED <<desk, topic, control, up, boots, old, clobbered>>

-----------------------------------------------------------------------------
(* The question box: dashboard route and question.ask intent *)

\* askFounderQuestion records it, answerFounderQuestion marks it running and calls the agent
Ask(p) ==
  /\ Ready(p) /\ control.question = "none"
  /\ act' = [act EXCEPT ![p] = [pc |-> "ask", new |-> [control EXCEPT !.question = "queued"],
                                then |-> {}]]
  /\ stale' = stale \ {p}
  /\ UNCHANGED <<desk, topic, control, up, boots, runs, old, clobbered>>

Record(p) ==
  /\ p \in up /\ act[p].pc = "ask"
  /\ control' = act[p].new
  /\ act' = [act EXCEPT ![p] = [NoAct EXCEPT !.pc = "take"]]
  /\ stale' = (stale \ {p}) \cup {r \in desk \ {p} : act[r].pc \in Writing}
  /\ clobbered' = (clobbered \/ p \in stale)
  /\ UNCHANGED <<desk, topic, up, boots, runs, old>>

\* updateQuestion finds nothing when another process has overwritten the record meanwhile
Take(p) ==
  /\ p \in up /\ act[p].pc = "take"
  /\ IF control.question = "none" THEN act' = [act EXCEPT ![p] = NoAct] /\ UNCHANGED stale
     ELSE Decide(p, [control EXCEPT !.question = "running"], {Run(p, "question", 1, 1)})
  /\ UNCHANGED <<desk, topic, control, up, boots, runs, old, clobbered>>

Answer(p, r, status) ==
  /\ Ready(p)
  /\ r \in runs /\ r.by = p /\ r.on = "question"
  /\ runs' = runs \ {r}
  /\ IF control.question = "none" THEN UNCHANGED <<act, stale>>
     ELSE Decide(p, [control EXCEPT !.question = status], {})
  /\ UNCHANGED <<desk, topic, control, up, boots, old, clobbered>>

-----------------------------------------------------------------------------
(* Jobs: one request, which the founder may submit again *)

InFlight == {"decomposing", "running"}
NextJob == CHOOSE j \in Jobs : control.jobs[j] = "none" /\ \A i \in Jobs : i < j => control.jobs[i] # "none"

\* Mutant: jobs that are only being planned are not seen.
Duplicates_RunningOnly == {j \in Jobs \ old : control.jobs[j] = "running"}

\* findInFlightDuplicateJob: jobs of the same request that are in flight and not yet aged out
Duplicates == {j \in Jobs \ old : control.jobs[j] \in InFlight}

\* a job's record passes the window, whether or not its run has ended
AgeOut(j) ==
  /\ control.jobs[j] # "none" /\ j \notin old
  /\ old' = old \cup {j}
  /\ UNCHANGED <<desk, topic, control, up, boots, act, runs, stale, clobbered>>

\* the founder submits the request: refused while the project is paused or the request in
\* flight; the job is recorded before the plan is awaited
StartRequest(p) ==
  /\ Ready(p)
  /\ \E j \in Jobs : control.jobs[j] = "none"
  /\ ~control.paused
  /\ Duplicates = {}
  /\ Decide(p, [control EXCEPT !.jobs[NextJob] = "decomposing"], {Run(p, "job", NextJob, 1)})
  /\ UNCHANGED <<desk, topic, control, up, boots, runs, old, clobbered>>

\* planned: the run is detached; or it failed, or the plan waits for the founder's key
Planned(p, r, status) ==
  /\ Ready(p)
  /\ r \in runs /\ r.by = p /\ r.on = "job" /\ r.n = 1
  /\ runs' = runs \ {r}
  /\ Decide(p, [control EXCEPT !.jobs[r.id] = status],
            IF status = "running" THEN {Run(p, "job", r.id, 2)} ELSE {})
  /\ UNCHANGED <<desk, topic, control, up, boots, old, clobbered>>

\* finishFounderJob, saveFounderJob: the terminal status of the run
JobEnds(p, r, status) ==
  /\ Ready(p)
  /\ r \in runs /\ r.by = p /\ r.on = "job" /\ r.n = 2
  /\ runs' = runs \ {r}
  /\ Decide(p, [control EXCEPT !.jobs[r.id] = status], {})
  /\ UNCHANGED <<desk, topic, control, up, boots, old, clobbered>>

\* setProjectPaused; archiving and dismissing write other keys of the same file
TogglePause(p) ==
  /\ Ready(p)
  /\ Decide(p, [control EXCEPT !.paused = ~@], {})
  /\ UNCHANGED <<desk, topic, control, up, boots, runs, old, clobbered>>

-----------------------------------------------------------------------------
(* Processes *)

\* Mutant: a restart leaves the threads as they are.
Boot_ThreadsKept(p) ==
  /\ p \in desk \ up /\ boots < MaxBoots
  /\ up' = up \cup {p} /\ boots' = boots + 1
  /\ UNCHANGED <<desk, topic, control, act, runs, old, stale, clobbered>>

\* the dashboard answers again every question that is pending and fails every thread that
\* was being answered, here in one read and one write; in the code in two, one after the
\* other; the intent worker does neither
Boot(p) ==
  /\ p \in desk \ up /\ boots < MaxBoots
  /\ up' = up \cup {p} /\ boots' = boots + 1
  /\ LET resume == control.question \in {"queued", "running"}
         threads == [t \in Threads |->
                       IF control.threads[t].status = "running"
                       THEN [control.threads[t] EXCEPT !.status = "failed"]
                       ELSE control.threads[t]]
     IN IF p = Dashboard
        THEN Decide(p, [control EXCEPT !.question = IF resume THEN "running" ELSE @,
                                    !.threads = threads],
                    IF resume THEN {Run(p, "question", 1, 1)} ELSE {})
        ELSE UNCHANGED <<act, stale>>
  /\ UNCHANGED <<desk, topic, control, runs, old, clobbered>>

Die(p) ==
  /\ p \in up
  /\ up' = up \ {p}
  /\ act' = [act EXCEPT ![p] = NoAct]
  /\ runs' = {r \in runs : r.by # p}
  /\ stale' = stale \ {p}
  /\ UNCHANGED <<desk, topic, control, boots, old, clobbered>>

Proceed(p) == Write(p) \/ Record(p) \/ Take(p)
CallEnds(p) ==
  \E r \in runs :
    \/ \E s \in {"idle", "failed"} : ReplyTo(p, r, s)
    \/ \E s \in {"answered", "failed"} : Answer(p, r, s)
    \/ \E s \in {"running", "blocked", "error"} : Planned(p, r, s)
    \/ \E s \in {"complete", "error"} : JobEnds(p, r, s)

FounderActs(p) ==
  \/ "threads" \in topic /\ OpenThread(p)
  \/ "threads" \in topic /\ \E t \in Threads : DeleteThread(p, t) \/ PostTurn(p, t)
  \/ "questions" \in topic /\ Ask(p)
  \/ "jobs" \in topic /\ StartRequest(p)
  \/ TogglePause(p)

DeskNext ==
  \/ "jobs" \in topic /\ \E j \in Jobs : AgeOut(j)
  \/ \E p \in desk : FounderActs(p) \/ Proceed(p) \/ CallEnds(p) \/ Boot(p) \/ Die(p)

-----------------------------------------------------------------------------
Waiting(t) == control.threads[t].status = "running"
Served(on, id) ==
  \/ \E r \in runs : r.on = on /\ r.id = id
  \/ \E p \in desk : act[p].pc = "write" /\ \E r \in act[p].then : r.on = on /\ r.id = id

(* A conversation that shows the founder a reply is coming has a reply coming: some call on
   that thread is in progress, or the dashboard is down and will fail the thread when it is
   back, or an update of the control file was lost to another process.  The composer is
   disabled while a thread is running, so anything else is a conversation that is stuck. *)
RepliesAreComing ==
  Dashboard \in up /\ ~clobbered =>
    \A t \in Threads : Waiting(t) => Served("thread", t)
                                     \/ act[Dashboard].pc = "write"

(* One request is carried out once at a time: however often it is submitted, in whichever
   process, at most one job for it is being planned or run, inside the window
   in which duplicates are looked for and short of a lost update. *)
OneJobPerRequest ==
  ~clobbered => Cardinality({r \in runs : r.on = "job" /\ r.id \notin old}) <= 1
=============================================================================
