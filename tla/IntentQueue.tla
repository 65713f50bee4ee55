----------------------------- MODULE IntentQueue -----------------------------
(***************************************************************************)
(* What the founder asks for from the hosted console, until the machine    *)
(* has done it: control-plane/api/intents.mjs and _lib/queue.mjs (one blob *)
(* per intent, no shared document), polled by scripts/hq-intents.mjs,      *)
(* which runs a batch in order (hq/intent-worker.mjs) and reports back.    *)
(*                                                                         *)
(* The machine only calls out.  A call is a request with a 20 second       *)
(* timeout: the worker may give it up while its handler goes on in the     *)
(* control plane, and a handler is a sequence of blob operations that any  *)
(* other handler may come between.                                         *)
(*                                                                         *)
(* Abstracted: credentials, shapes and sizes, what an intent asks for and  *)
(* how it ended (a rejected one is reported like one that was run).  Ids   *)
(* are in the order of posting: one founder's requests follow one another. *)
(***************************************************************************)
EXTENDS Naturals, Sequences, FiniteSets

CONSTANTS
  Worker,      \* processes that poll
  Call,        \* handlers of GET ?claim=1 that may run at once
  MaxPending,  \* MAX_PENDING
  ListLimit,   \* entries one claim request looks at: `limit'
  Faulty,      \* blob operations that may fail
  MaxIntents,  \* model bound: intents posted
  MaxFaults    \* model bound: operations that do fail

Nobody == "nobody"
Fault  == {"read", "put", "del-pending", "del-claimed", "patch", "death"}

ASSUME IntentAssumption ==
  /\ Nobody \notin Worker
  /\ MaxPending \in Nat /\ ListLimit \in Nat /\ MaxIntents \in Nat /\ MaxFaults \in Nat
  /\ Faulty \subseteq Fault

Intent == 1 .. MaxIntents

VARIABLES
  posted,    \* intents posted so far: 1 .. posted
  pending,   \* blobs intents/pending/<id>
  claimed,   \* blobs intents/claimed/<id>
  results,   \* blobs intents/results/<id>
  call,      \* handler of a claim -> where it is, for whom, what it has done
  patches,   \* reports on their way or being handled
  at,        \* worker -> where it is in once()
  batch,     \* worker -> the intents it was given and has not run
  order,     \* history: the intents run, in order
  faults     \* operations that failed

blobs == <<pending, claimed, results>>
vars  == <<posted, pending, claimed, results, call, patches, at, batch, order, faults>>

Free == [at |-> "free", asker |-> Nobody, id |-> 0, todo |-> {}, got |-> {}]

Init ==
  /\ posted = 0 /\ pending = {} /\ claimed = {} /\ results = {}
  /\ call = [c \in Call |-> Free]
  /\ patches = {}
  /\ at = [w \in Worker |-> "idle"]
  /\ batch = [w \in Worker |-> {}]
  /\ order = << >> /\ faults = 0

Fails(what) == what \in Faulty /\ faults < MaxFaults /\ faults' = faults + 1
Works       == UNCHANGED faults

\* Mutant: sorted as the results are, newest first.
Oldest_Newest(ids) == CHOOSE i \in ids : \A j \in ids : j <= i

Oldest(ids) == CHOOSE i \in ids : \A j \in ids : i <= j

Listed == {i \in pending : Cardinality({j \in pending : j < i}) < ListLimit}

-----------------------------------------------------------------------------
(* queue.mjs: enqueue                                                      *)

\* One more than MAX_PENDING may be listed before a request is refused.
Post ==
  /\ posted < MaxIntents /\ Cardinality(pending) <= MaxPending
  /\ posted' = posted + 1
  /\ pending' = pending \cup {posted'}
  /\ UNCHANGED <<claimed, results, call, patches, at, batch, order, faults>>

-----------------------------------------------------------------------------
(* GET ?claim=1: listPending, then claim for each, oldest first            *)

Request(w, c) ==
  /\ at[w] = "idle" /\ call[c].at = "free"
  /\ at' = [at EXCEPT ![w] = "waiting"]
  /\ call' = [call EXCEPT ![c] = [Free EXCEPT !.at = "list", !.asker = w]]
  /\ UNCHANGED <<posted, blobs, patches, batch, order, faults>>

\* The 20 seconds are over; the handler does not know.
GiveUp(w, c) ==
  /\ at[w] = "waiting" /\ call[c].asker = w
  /\ at' = [at EXCEPT ![w] = "idle"]
  /\ call' = [call EXCEPT ![c].asker = Nobody]
  /\ UNCHANGED <<posted, blobs, patches, batch, order, faults>>

\* An entry that cannot be read is left out.
List(c) ==
  /\ call[c].at = "list"
  /\ \/ Works /\ call' = [call EXCEPT ![c].at = "next", ![c].todo = Listed]
     \/ \E i \in Listed : Fails("read") /\
          call' = [call EXCEPT ![c].at = "next", ![c].todo = Listed \ {i}]
  /\ UNCHANGED <<posted, blobs, patches, at, batch, order>>

\* The intent is not claimed here, the next one is tried.
Skip(c) == call' = [call EXCEPT ![c].at = "next"]

Find(c) ==
  /\ call[c].at = "next" /\ call[c].todo # {}
  /\ LET i == Oldest(call[c].todo) IN
       call' = [call EXCEPT ![c].todo = @ \ {i}, ![c].id = i,
                            ![c].at = IF i \in pending THEN "read" ELSE "next"]
  /\ UNCHANGED <<posted, blobs, patches, at, batch, order, faults>>

\* The handler throws: 502, and what it claimed so far is in nobody's hands.
Throws(c) ==
  /\ call' = [call EXCEPT ![c] = Free]
  /\ at' = [w \in Worker |-> IF call[c].asker = w THEN "idle" ELSE at[w]]

\* A blob that went between the head and the read is an error, not a miss.
Read(c) ==
  /\ call[c].at = "read"
  /\ \/ call[c].id \in pending /\ Works /\ call' = [call EXCEPT ![c].at = "put"] /\ UNCHANGED at
     \/ call[c].id \notin pending /\ Works /\ Throws(c)
     \/ Fails("read") /\ Throws(c)
  /\ UNCHANGED <<posted, blobs, patches, batch, order>>

\* Mutant: a refused claim is an error.
Put_Throws(c) ==
  /\ call[c].at = "put"
  /\ \/ /\ call[c].id \notin claimed /\ Works
        /\ claimed' = claimed \cup {call[c].id}
        /\ call' = [call EXCEPT ![c].at = "del"] /\ UNCHANGED at
     \/ call[c].id \in claimed /\ Works /\ Throws(c) /\ UNCHANGED claimed
     \/ Fails("put") /\ Throws(c) /\ claimed' \in {claimed, claimed \cup {call[c].id}}
  /\ UNCHANGED <<posted, pending, results, patches, batch, order>>

\* allowOverwrite: false.  Any error reads as "someone claimed it", one that
\* came after the write too.
Put(c) ==
  /\ call[c].at = "put"
  /\ \/ /\ call[c].id \notin claimed /\ Works
        /\ claimed' = claimed \cup {call[c].id}
        /\ call' = [call EXCEPT ![c].at = "del"]
     \/ call[c].id \in claimed /\ Works /\ Skip(c) /\ UNCHANGED claimed
     \/ Fails("put") /\ Skip(c) /\ claimed' \in {claimed, claimed \cup {call[c].id}}
  /\ UNCHANGED <<posted, pending, results, patches, at, batch, order>>

\* Mutant: the pending blob is left to the report.
DeletePending_Never(c) ==
  /\ call[c].at = "del"
  /\ Works /\ UNCHANGED pending
  /\ call' = [call EXCEPT ![c].at = "next", ![c].got = @ \cup {call[c].id}]
  /\ UNCHANGED <<posted, claimed, results, patches, at, batch, order>>

\* A failure is ignored.
DeletePending(c) ==
  /\ call[c].at = "del"
  /\ \/ Works /\ pending' = pending \ {call[c].id}
     \/ Fails("del-pending") /\ UNCHANGED pending
  /\ call' = [call EXCEPT ![c].at = "next", ![c].got = @ \cup {call[c].id}]
  /\ UNCHANGED <<posted, claimed, results, patches, at, batch, order>>

\* The answer; nobody hears it when the worker gave up.
Answer(c) ==
  /\ call[c].at = "next" /\ call[c].todo = {}
  /\ at' = [w \in Worker |-> IF call[c].asker = w THEN "run" ELSE at[w]]
  /\ batch' = [w \in Worker |-> IF call[c].asker = w THEN call[c].got ELSE batch[w]]
  /\ call' = [call EXCEPT ![c] = Free]
  /\ UNCHANGED <<posted, blobs, patches, order, faults>>

\* The control plane ends a handler where it is.
HandlerDies(c) ==
  /\ call[c].at # "free" /\ Fails("death")
  /\ Throws(c)
  /\ UNCHANGED <<posted, blobs, patches, batch, order>>

-----------------------------------------------------------------------------
(* hq-intents.mjs: once; intent-worker.mjs: executeBatch                   *)

\* The oldest of the batch is run; it may take as long as an agent does.
Execute(w) ==
  /\ at[w] = "run" /\ batch[w] # {}
  /\ order' = Append(order, Oldest(batch[w]))
  /\ at' = [at EXCEPT ![w] = "busy"]
  /\ UNCHANGED <<posted, blobs, call, patches, batch, faults>>

\* Its result is sent; a report that cannot be sent is a fault of PutResult.
Send(w) ==
  /\ at[w] = "busy"
  /\ LET i == Oldest(batch[w]) IN
       /\ batch' = [batch EXCEPT ![w] = @ \ {i}]
       /\ patches' = patches \cup {[by |-> w, id |-> i, at |-> "put"]}
  /\ at' = [at EXCEPT ![w] = "report"]
  /\ UNCHANGED <<posted, blobs, call, order, faults>>

BatchDone(w) ==
  /\ at[w] = "run" /\ batch[w] = {}
  /\ at' = [at EXCEPT ![w] = "idle"]
  /\ UNCHANGED <<posted, blobs, call, patches, batch, order, faults>>

\* The report was answered, failed or timed out: the batch goes on.
Reported(w) ==
  /\ at[w] = "report"
  /\ at' = [at EXCEPT ![w] = "run"]
  /\ UNCHANGED <<posted, blobs, call, patches, batch, order, faults>>

\* pm2 starts the worker again; what it had not run is in nobody's hands.
Kill(w) ==
  /\ at[w] # "idle"
  /\ at' = [at EXCEPT ![w] = "idle"]
  /\ batch' = [batch EXCEPT ![w] = {}]
  /\ call' = [c \in Call |-> IF call[c].asker = w THEN [call[c] EXCEPT !.asker = Nobody] ELSE call[c]]
  /\ UNCHANGED <<posted, blobs, patches, order, faults>>

-----------------------------------------------------------------------------
(* PATCH: report                                                           *)

\* Mutant: the claim is dropped whether or not its result was written.
PutResult_Finally(p) ==
  /\ p \in patches /\ p.at = "put"
  /\ \/ Works /\ results' = results \cup {p.id} /\ UNCHANGED claimed
        /\ patches' = (patches \ {p}) \cup {[p EXCEPT !.at = "del"]}
     \/ Fails("patch") /\ patches' = patches \ {p} /\ claimed' = claimed \ {p.id} /\ UNCHANGED results
  /\ UNCHANGED <<posted, pending, call, at, batch, order>>

PutResult(p) ==
  /\ p \in patches /\ p.at = "put"
  /\ \/ Works /\ results' = results \cup {p.id}
        /\ patches' = (patches \ {p}) \cup {[p EXCEPT !.at = "del"]}
     \/ Fails("patch") /\ patches' = patches \ {p} /\ UNCHANGED results
  /\ UNCHANGED <<posted, pending, claimed, call, at, batch, order>>

DeleteClaimed(p) ==
  /\ p \in patches /\ p.at = "del"
  /\ \/ Works /\ claimed' = claimed \ {p.id}
     \/ Fails("del-claimed") /\ UNCHANGED claimed
  /\ patches' = patches \ {p}
  /\ UNCHANGED <<posted, pending, results, call, at, batch, order>>

-----------------------------------------------------------------------------

HandlerStep(c) == List(c) \/ Find(c) \/ Read(c) \/ Put(c) \/ DeletePending(c) \/ Answer(c)
PatchStep      == \E p \in patches : PutResult(p) \/ DeleteClaimed(p)
Polls(w)       == \E c \in Call : Request(w, c)
BatchStep(w)   == Execute(w) \/ Send(w) \/ BatchDone(w) \/ Reported(w)

Next ==
  \/ Post \/ PatchStep
  \/ \E c \in Call : HandlerStep(c) \/ HandlerDies(c)
  \/ \E w \in Worker : Polls(w) \/ BatchStep(w) \/ Kill(w) \/ \E c \in Call : GiveUp(w, c)

\* Handlers run to their end unless the platform ends them; the worker polls
\* every 30 seconds and works its batch off.
Fairness ==
  /\ \A c \in Call : WF_vars(HandlerStep(c))
  /\ WF_vars(PatchStep)
  /\ \A w \in Worker : WF_vars(Polls(w)) /\ WF_vars(BatchStep(w))

Spec == Init /\ [][Next]_vars /\ Fairness

-----------------------------------------------------------------------------
(* Properties                                                              *)

Handler == [at : {"free", "list", "next", "read", "put", "del"},
            asker : Worker \cup {Nobody}, id : Intent \cup {0},
            todo : SUBSET Intent, got : SUBSET Intent]
Patch   == [by : Worker, id : Intent, at : {"put", "del"}]
Place   == {"idle", "waiting", "run", "busy", "report"}

Shapes ==
  /\ posted \in 0 .. MaxIntents /\ faults \in 0 .. MaxFaults
  /\ pending \subseteq Intent /\ claimed \subseteq Intent /\ results \subseteq Intent
  /\ call \in [Call -> Handler] /\ patches \subseteq Patch
  /\ at \in [Worker -> Place] /\ batch \in [Worker -> SUBSET Intent]
  /\ order \in Seq(Intent)

\* Every answer goes to the one worker that still waits for it.
Wiring ==
  /\ \A w \in Worker : at[w] = "waiting" <=> \E c \in Call : call[c].asker = w
  /\ \A c, d \in Call : call[c].asker # Nobody /\ call[c].asker = call[d].asker => c = d
  /\ \A c \in Call : call[c].at = "free" => call[c].asker = Nobody

\* The shape of the queue: what handlers and workers hold, and for whom.
IntentTypeOK ==
  /\ Shapes /\ Wiring
  /\ \A c \in Call : call[c].at \in {"read", "put", "del"} => call[c].id \in Intent
  /\ \A w \in Worker : at[w] = "busy" => batch[w] # {}

\* queue.mjs, claim: "Once-only", so that "a duplicate delivery or a replayed
\* poll loses rather than running the action twice", with polls given up,
\* workers killed and reports lost at any step.
AtMostOnce == \A i, j \in DOMAIN order : order[i] = order[j] => i = j

\* executeBatch: "The founder issued them in an order; honour it."  An intent is
\* never overtaken, unless a blob operation failed on it.
InOrder == faults = 0 => \A i, j \in DOMAIN order : i < j => order[i] <= order[j]

\* A request that was accepted leaves a trace for good: it is waiting, claimed,
\* or answered, whichever handler stopped where.
NothingIsForgotten == 1 .. posted \subseteq pending \cup claimed \cup results

\* Claimed, and in nobody's hands any more: the handler or the worker that had it
\* was given up or died, or the report was lost.  The code accepts this ("at-most-
\* once is the safer side to err on", hq-intents.mjs); nothing claims it again.
Stranded(i) ==
  /\ i \in claimed
  /\ \A c \in Call : call[c].asker = Nobody \/ (i \notin call[c].got /\ i # call[c].id)
  /\ \A w \in Worker : i \notin batch[w]
  /\ \A p \in patches : i # p.id

\* Nothing waits for ever: a request is answered or stranded, and no request at
\* the head of the queue, stranded or unreadable, holds up those behind it.
EveryIntentSettles ==
  \A i \in Intent : i \in pending ~> i \in results \/ Stranded(i)

=============================================================================
