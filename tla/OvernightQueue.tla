--------------------------- MODULE OvernightQueue ---------------------------
(***************************************************************************)
(* The founder's plan for the night (dashboard/backend/lib/                *)
(* overnightQueue.mjs): a list of objectives kept in the state store, run   *)
(* one after another as child processes of whichever process was told to    *)
(* start.  The dashboard and the intent worker both call it.  Each store    *)
(* mutation is one step, and so is each read that a decision is taken on;   *)
(* between two of them another process may act and any process may die.     *)
(*                                                                          *)
(* An item is its position in the list; "removed" stands for an item that   *)
(* was filtered out (ids are never used again).                             *)
(***************************************************************************)
EXTENDS Integers, Sequences, FiniteSets

CONSTANTS Users,       \* sets of processes that may share the queue in a behaviour
          MaxItems,    \* per set of users, items ever added (the code allows 8 at a time)
          MaxPids      \* process incarnations (bounds restarts)

VARIABLES users,       \* the processes that use the queue
          q,           \* the stored queue: status, items, stop, owner (runnerPid)
          pid,         \* per process, its incarnation, 0 while it is down
          lastPid,     \* incarnations handed out
          inFlight,    \* per process, rootInFlight is set
          child,       \* per process, the item its child works on, 0 without a child
          at,          \* per process, where its call is: pc, saw (what it read), item, ok
          started,     \* items whose item-start command is in the ledger
          said,        \* per item, the run status its item-finish command answered, or "none"
          spawned,     \* per item, how often a child was spawned for it
          earned       \* items a child has ended with code 0

nightVars == <<users, q, pid, lastPid, inFlight, child, at, started, said, spawned, earned>>
stored == <<q, started, said>>

Blank == [status |-> "idle", items |-> <<>>, stop |-> FALSE, owner |-> 0]
Waiting == [pc |-> "idle", saw |-> {}, item |-> 0, ok |-> FALSE]
Ops == {"add", "remove", "start", "stop"}
\* Where a call is that found the runner gone.
Settling == [add |-> "settle add", remove |-> "settle remove", start |-> "settle start",
             stop |-> "settle stop"]
AllUsers == UNION Users

Is(status, queue) == {i \in DOMAIN queue.items : queue.items[i] = status}
First(queue) == CHOOSE i \in Is("queued", queue) : \A j \in Is("queued", queue) : i <= j

NightInit ==
  /\ users \in Users
  /\ q = Blank
  /\ pid = [p \in AllUsers |-> 0] /\ lastPid = 0
  /\ inFlight = [p \in AllUsers |-> FALSE]
  /\ child = [p \in AllUsers |-> 0]
  /\ at = [p \in AllUsers |-> Waiting]
  /\ started = {} /\ said = [i \in 1..MaxItems[users] |-> "none"]
  /\ spawned = [i \in 1..MaxItems[users] |-> 0] /\ earned = {}

Go(p, pc) == at' = [at EXCEPT ![p].pc = pc]
Done(p) == at' = [at EXCEPT ![p] = Waiting]

\* runnerIsAlive: ownership first, then the operating system
Alive(p, owner) ==
  /\ owner # 0
  /\ IF owner = pid[p] THEN inFlight[p] ELSE \E r \in users : pid[r] = owner

\* what an operation takes from the queue it read
Facts(queue) == (IF queue.status = "running" THEN {"running"} ELSE {})
                \cup (IF Is("queued", queue) # {} THEN {"queued"} ELSE {})

\* every operation first reconciles: it reads the queue and decides whether its runner is gone
Call(p, op) ==
  /\ pid[p] # 0 /\ at[p].pc = "idle"
  /\ LET gone == q.status = "running" /\ ~Alive(p, q.owner)
     IN at' = [at EXCEPT ![p] = [Waiting EXCEPT !.pc = IF gone THEN Settling[op] ELSE op,
                                                !.saw = Facts(q)]]
  /\ UNCHANGED <<users, stored, pid, lastPid, inFlight, child, spawned, earned>>

\* Mutant: the item that was running goes back in the queue.
Settled_Requeued(queue) ==
  [status |-> "stopped", stop |-> FALSE, owner |-> 0,
   items |-> [i \in DOMAIN queue.items |->
                IF queue.items[i] = "running" THEN "queued" ELSE queue.items[i]]]

Settled(queue) ==
  LET items == [i \in DOMAIN queue.items |->
                  IF queue.items[i] = "running" THEN "failed" ELSE queue.items[i]]
      failed == \E i \in DOMAIN items : items[i] = "failed"
  IN [status |-> IF failed THEN "needs-attention" ELSE "stopped",
      items |-> items, stop |-> FALSE, owner |-> 0]

\* reconcileOvernight's mutation does not look at the status again
Reconcile(p, op) ==
  /\ at[p].pc = Settling[op]
  /\ q' = Settled(q)
  /\ at' = [at EXCEPT ![p].pc = op, ![p].saw = Facts(q')]
  /\ UNCHANGED <<users, pid, lastPid, inFlight, child, started, said, spawned, earned>>

\* addOvernightItem: refused while the queue runs or is full
Add(p) ==
  /\ at[p].pc = "add"
  /\ IF q.status = "running" \/ Len(q.items) = MaxItems[users]
     THEN UNCHANGED q
     ELSE q' = [q EXCEPT !.items = Append(@, "queued")]
  /\ Done(p)
  /\ UNCHANGED <<users, pid, lastPid, inFlight, child, started, said, spawned, earned>>

\* removeOvernightItem, of any item
Remove(p) ==
  /\ at[p].pc = "remove"
  /\ IF q.status = "running" THEN UNCHANGED q
     ELSE \E i \in DOMAIN q.items : q' = [q EXCEPT !.items[i] = "removed"]
  /\ Done(p)
  /\ UNCHANGED <<users, pid, lastPid, inFlight, child, started, said, spawned, earned>>

\* startOvernight decides on what the reconciliation returned, then marks the queue running
StartNight(p) ==
  /\ at[p].pc = "start"
  /\ IF "running" \in at[p].saw \/ "queued" \notin at[p].saw
     THEN Done(p) /\ UNCHANGED q
     ELSE /\ q' = [q EXCEPT !.status = "running", !.stop = FALSE, !.owner = pid[p]]
          /\ Go(p, "next")
  /\ UNCHANGED <<users, pid, lastPid, inFlight, child, started, said, spawned, earned>>

\* stopOvernight asks the runner to stop after the item in flight
Stop(p) ==
  /\ at[p].pc = "stop"
  /\ IF "running" \in at[p].saw THEN q' = [q EXCEPT !.stop = TRUE] ELSE UNCHANGED q
  /\ Done(p)
  /\ UNCHANGED <<users, pid, lastPid, inFlight, child, started, said, spawned, earned>>

-----------------------------------------------------------------------------
(* runNext *)

\* one run at a time in a process; otherwise read the queue and choose
RunNext(p) ==
  /\ at[p].pc = "next"
  /\ IF inFlight[p]
     THEN Done(p) /\ UNCHANGED inFlight
     ELSE /\ inFlight' = [inFlight EXCEPT ![p] = TRUE]
          /\ at' = [at EXCEPT ![p] =
               IF q.stop THEN [Waiting EXCEPT !.pc = "drain", !.saw = {"stop"}]
               ELSE IF Is("queued", q) = {} THEN [Waiting EXCEPT !.pc = "drain"]
               ELSE [Waiting EXCEPT !.pc = "launch", !.item = First(q)]]
  /\ UNCHANGED <<users, stored, pid, lastPid, child, spawned, earned>>

\* nothing queued, or asked to stop: the night is over
Drain(p) ==
  /\ at[p].pc = "drain"
  /\ q' = [q EXCEPT !.status = IF "stop" \in at[p].saw THEN "stopped"
                               ELSE IF Is("failed", q) # {} THEN "needs-attention"
                               ELSE "complete",
                    !.owner = 0]
  /\ inFlight' = [inFlight EXCEPT ![p] = FALSE]
  /\ Done(p)
  /\ UNCHANGED <<users, pid, lastPid, child, started, said, spawned, earned>>

\* mark the first queued item running; the command id is the item's, so a second process
\* gets the answer of the first; an item removed meanwhile makes the call throw, with
\* rootInFlight still set
Launch(p) ==
  /\ at[p].pc = "launch"
  /\ LET i == at[p].item
     IN \/ /\ i \in started
           /\ at' = [at EXCEPT ![p].pc = "spawn"]
           /\ UNCHANGED <<q, started>>
        \/ /\ i \notin started /\ q.items[i] # "removed"
           /\ q' = [q EXCEPT !.items[i] = "running"]
           /\ started' = started \cup {i}
           /\ at' = [at EXCEPT ![p].pc = "spawn"]
        \/ /\ i \notin started /\ q.items[i] = "removed"
           /\ Done(p)
           /\ UNCHANGED <<q, started>>
  /\ UNCHANGED <<users, pid, lastPid, inFlight, child, said, spawned, earned>>

\* the child is spawned; its end is an event of this process
Spawn(p) ==
  /\ at[p].pc = "spawn"
  /\ child' = [child EXCEPT ![p] = at[p].item]
  /\ spawned' = [spawned EXCEPT ![at[p].item] = @ + 1]
  /\ Done(p)
  /\ UNCHANGED <<users, stored, pid, lastPid, inFlight, earned>>

\* spawn throws: finish(null)
SpawnFails(p) ==
  /\ at[p].pc = "spawn"
  /\ at' = [at EXCEPT ![p].pc = "finish", ![p].ok = FALSE]
  /\ UNCHANGED <<users, stored, pid, lastPid, inFlight, child, spawned, earned>>

\* the child's "error" or "close" event, once the process has no call in progress
ChildEnds(p, ok) ==
  /\ at[p].pc = "idle" /\ child[p] # 0
  /\ at' = [at EXCEPT ![p] = [Waiting EXCEPT !.pc = "finish", !.item = child[p], !.ok = ok]]
  /\ earned' = IF ok THEN earned \cup {child[p]} ELSE earned
  /\ UNCHANGED <<users, stored, pid, lastPid, inFlight, child, spawned>>

\* what becomes of the item, unless it is no longer in the list
Outcome(items, i, ok) ==
  [items EXCEPT ![i] = IF @ = "removed" THEN @ ELSE IF ok THEN "complete" ELSE "failed"]

\* Mutant: the next item is taken before the flag of this one is dropped.
Finish_StillInFlight(p) ==
  /\ at[p].pc = "finish"
  /\ q' = [q EXCEPT !.items = Outcome(@, at[p].item, at[p].ok)]
  /\ at' = [at EXCEPT ![p] = [Waiting EXCEPT !.pc = IF q.status = "running" THEN "next" ELSE "idle"]]
  /\ child' = [child EXCEPT ![p] = 0]
  /\ UNCHANGED <<users, pid, lastPid, inFlight, started, said, spawned, earned>>

\* the item is settled under a command id of its own and the run goes on while the queue,
\* or the answer replayed for it, says running
Finish(p) ==
  /\ at[p].pc = "finish"
  /\ LET i == at[p].item
         answer == IF said[i] = "none" THEN q.status ELSE said[i]
     IN /\ said' = [said EXCEPT ![i] = answer]
        /\ IF said[i] = "none" THEN q' = [q EXCEPT !.items = Outcome(@, i, at[p].ok)]
           ELSE UNCHANGED q
        /\ IF answer = "running" THEN at' = [at EXCEPT ![p] = [Waiting EXCEPT !.pc = "next"]]
           ELSE Done(p)
  /\ child' = [child EXCEPT ![p] = 0]
  /\ inFlight' = [inFlight EXCEPT ![p] = FALSE]
  /\ UNCHANGED <<users, pid, lastPid, started, spawned, earned>>

-----------------------------------------------------------------------------
Boot(p) ==
  /\ pid[p] = 0 /\ lastPid < MaxPids[users]
  /\ lastPid' = lastPid + 1
  /\ pid' = [pid EXCEPT ![p] = lastPid + 1]
  /\ UNCHANGED <<users, stored, inFlight, child, at, spawned, earned>>

\* the process dies: rootInFlight and its handlers with it, what is stored stays
ProcessDies(p) ==
  /\ pid[p] # 0
  /\ pid' = [pid EXCEPT ![p] = 0]
  /\ inFlight' = [inFlight EXCEPT ![p] = FALSE]
  /\ child' = [child EXCEPT ![p] = 0]
  /\ Done(p)
  /\ UNCHANGED <<users, stored, lastPid, spawned, earned>>

Work(p) ==
  \/ \E op \in Ops : Reconcile(p, op)
  \/ Add(p) \/ Remove(p) \/ StartNight(p) \/ Stop(p)
  \/ RunNext(p) \/ Drain(p) \/ Launch(p) \/ Spawn(p) \/ SpawnFails(p) \/ Finish(p)
ChildOf(p) == \E ok \in BOOLEAN : ChildEnds(p, ok)

NightNext ==
  \E p \in users :
    \/ \E op \in Ops : Call(p, op)
    \/ Work(p) \/ ChildOf(p) \/ Boot(p) \/ ProcessDies(p)

\* a process finishes what it is doing, and children end
NightFairness ==
  \A p \in AllUsers : WF_nightVars(p \in users /\ Work(p)) /\ SF_nightVars(p \in users /\ ChildOf(p))

-----------------------------------------------------------------------------
Alone == Cardinality(users) = 1

(* Complete means a child ended well, whoever else reconciled or replayed meanwhile.
   Nothing is run again: each process runs an item at most once, across restarts and
   settlements, and where one process alone uses the queue a night that is not running has
   no item running. *)
ItemsAreHonest ==
  /\ Is("complete", q) \subseteq earned
  /\ \A i \in 1..MaxItems[users] : spawned[i] <= Cardinality(users)
  /\ Alone /\ q.status # "running" => Is("running", q) = {}

(* Where one process alone uses the queue, a running night comes to its end, or loses its
   runner to a crash and is settled by the founder's next action: it never hangs with its
   runner alive. *)
NightEnds ==
  Alone /\ q.status = "running"
    ~> q.status # "running" \/ \A p \in users : pid[p] # q.owner
=============================================================================
