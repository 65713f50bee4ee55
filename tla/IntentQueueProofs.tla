-------------------------- MODULE IntentQueueProofs --------------------------
(***************************************************************************)
(* Machine-checked proofs about IntentQueue, for any number of handlers,   *)
(* intents and failures.                                                   *)
(*                                                                         *)
(* No accepted request is forgotten, whatever fails.  And with one worker, *)
(* and deletes of pending blobs that do not fail, no intent is run twice.  *)
(***************************************************************************)
EXTENDS IntentQueue, WellFoundedInduction, FiniteSetTheorems, TLAPS

LEMMA OldestIn ==
  ASSUME NEW S, S \subseteq Intent, S # {}
  PROVE  Oldest(S) \in S
<1>0. S \subseteq Nat
  BY DEF Intent
<1>1. PICK m \in S : \A k \in S : <<k, m>> \notin OpToRel(<, Nat)
  BY <1>0, WFMin, NatLessThanWellFounded, Zenon
<1>2. \A k \in S : ~(k < m)
  BY <1>0, <1>1, Zenon DEF OpToRel
<1>3. \A k \in S : m <= k
  BY <1>0, <1>2
<1>4. QED
  BY <1>3 DEF Oldest

-----------------------------------------------------------------------------
(* Types                                                                   *)

LEMMA InitTyped == Init => IntentTypeOK
<1> SUFFICES ASSUME Init PROVE IntentTypeOK
  OBVIOUS
<1>1. Free \in Handler
  BY DEF Free, Handler
<1>2. Free.asker = Nobody
  BY DEF Free
<1>3. posted \in 0 .. MaxIntents /\ faults \in 0 .. MaxFaults
  BY IntentAssumption DEF Init, IntentAssumption
<1>4. \A c \in Call : call[c].asker = Nobody
  BY <1>2 DEF Init
<1>5. \A w \in Worker : w # Nobody
  BY IntentAssumption DEF IntentAssumption
<1>6. call \in [Call -> Handler]
  BY <1>1 DEF Init
<1>8. \A c \in Call : call[c].at = "free"
  BY DEF Init, Free
<1>7. QED
  BY <1>3, <1>4, <1>5, <1>6, <1>8 DEF Init, IntentTypeOK, Shapes, Wiring, Place

\* What a step does to the handlers and to the workers' places.
Seated == /\ call \in [Call -> Handler] /\ at \in [Worker -> Place] /\ Wiring
          /\ \A c \in Call : call[c].at \in {"read", "put", "del"} => call[c].id \in Intent

LEMMA FaultsTyped ==
  ASSUME IntentTypeOK, NEW what, Works \/ Fails(what)
  PROVE  faults' \in 0 .. MaxFaults
BY IntentAssumption DEF IntentTypeOK, Shapes, Works, Fails, IntentAssumption

LEMMA HandlerMoves ==
  ASSUME IntentTypeOK, NEW c \in Call, NEW h \in Handler, h.asker = call[c].asker,
         h.at \in {"read", "put", "del"} => h.id \in Intent, h.at # "free",
         call' = [call EXCEPT ![c] = h], UNCHANGED at
  PROVE  Seated'
<1>1. call \in [Call -> Handler]
  BY DEF IntentTypeOK, Shapes
<1>2. \A d \in Call : call'[d] = IF d = c THEN h ELSE call[d]
  BY <1>1
<1>3. \A d \in Call : call'[d].asker = call[d].asker
  BY <1>2
<1>4. call' \in [Call -> Handler]
  BY <1>1
<1>5. Wiring'
  BY <1>2, <1>3 DEF IntentTypeOK, Wiring
<1>6. \A d \in Call : call'[d].at \in {"read", "put", "del"} => call'[d].id \in Intent
  BY <1>2 DEF IntentTypeOK
<1>7. QED
  BY <1>4, <1>5, <1>6 DEF IntentTypeOK, Shapes, Seated

LEMMA HandlerEnds ==
  ASSUME IntentTypeOK, NEW c \in Call, NEW to \in {"idle", "run"},
         call' = [call EXCEPT ![c] = Free],
         at' = [w \in Worker |-> IF call[c].asker = w THEN to ELSE at[w]]
  PROVE  Seated'
<1>1. call \in [Call -> Handler] /\ Free \in Handler /\ Free.asker = Nobody /\ Free.at = "free"
  BY DEF IntentTypeOK, Shapes, Free, Handler
<1>2. \A d \in Call : call'[d] = IF d = c THEN Free ELSE call[d]
  BY <1>1
<1>3. call' \in [Call -> Handler]
  BY <1>1
<1>4. at' \in [Worker -> Place]
  BY DEF IntentTypeOK, Shapes, Place
<1>5. ASSUME NEW w \in Worker
      PROVE  at'[w] = "waiting" <=> \E d \in Call : call'[d].asker = w
  <2>1. w # Nobody
    BY IntentAssumption DEF IntentAssumption
  <2>2. CASE call[c].asker = w
    <3>1. \A d \in Call : call[d].asker = w => d = c
      BY <2>1, <2>2 DEF IntentTypeOK, Wiring
    <3>2. at'[w] # "waiting"
      BY <2>2
    <3>3. QED
      BY <1>1, <1>2, <2>1, <3>1, <3>2
  <2>3. CASE call[c].asker # w
    <3>1. at'[w] = at[w]
      BY <2>3
    <3>2. \A d \in Call : call'[d].asker = w <=> call[d].asker = w
      BY <1>1, <1>2, <2>1, <2>3
    <3>3. QED
      BY <3>1, <3>2 DEF IntentTypeOK, Wiring
  <2>4. QED
    BY <2>2, <2>3
<1>6. ASSUME NEW d \in Call, NEW e \in Call, call'[d].asker # Nobody, call'[d].asker = call'[e].asker
      PROVE  d = e
  BY <1>1, <1>2, <1>6 DEF IntentTypeOK, Wiring
<1>7. Wiring'
  BY <1>1, <1>2, <1>5, <1>6 DEF IntentTypeOK, Wiring
<1>8. \A d \in Call : call'[d].at \in {"read", "put", "del"} => call'[d].id \in Intent
  BY <1>1, <1>2 DEF IntentTypeOK
<1>9. QED
  BY <1>3, <1>4, <1>7, <1>8 DEF Seated

LEMMA ListTyped ==
  ASSUME IntentTypeOK, NEW c \in Call, List(c)
  PROVE  IntentTypeOK'
<1>1. PICK todo \in SUBSET Intent : call' = [call EXCEPT ![c].at = "next", ![c].todo = todo]
  BY DEF List, Listed, IntentTypeOK, Shapes
<1> DEFINE h == [call[c] EXCEPT !.at = "next", !.todo = todo]
<1>2. call[c] \in Handler
  BY DEF IntentTypeOK, Shapes
<1>3. h \in Handler /\ h.asker = call[c].asker /\ h.at = "next"
  BY <1>2 DEF Handler
<1>4. call' = [call EXCEPT ![c] = h]
  BY <1>1
<1> HIDE DEF h
<1>5. Seated'
  BY <1>3, <1>4, HandlerMoves DEF List
<1>6. faults' \in 0 .. MaxFaults
  BY FaultsTyped DEF List
<1>7. QED
  BY <1>5, <1>6 DEF List, blobs, IntentTypeOK, Shapes, Seated

LEMMA FindTyped ==
  ASSUME IntentTypeOK, NEW c \in Call, Find(c)
  PROVE  IntentTypeOK'
<1> DEFINE i == Oldest(call[c].todo)
           h == [call[c] EXCEPT !.todo = @ \ {i}, !.id = i,
                                !.at = IF i \in pending THEN "read" ELSE "next"]
<1>1. call[c] \in Handler /\ call[c].todo \subseteq Intent
  BY DEF IntentTypeOK, Shapes, Handler
<1>2. i \in Intent
  BY <1>1, OldestIn DEF Find
<1>3. call' = [call EXCEPT ![c] = h]
  BY DEF Find
<1> HIDE DEF i
<1>4. h \in Handler /\ h.asker = call[c].asker /\ h.id \in Intent /\ h.at # "free"
  BY <1>1, <1>2 DEF Handler
<1> HIDE DEF h
<1>5. Seated'
  BY <1>3, <1>4, HandlerMoves DEF Find
<1>6. QED
  BY <1>5 DEF Find, blobs, IntentTypeOK, Shapes, Seated

LEMMA ThrowsTyped ==
  ASSUME IntentTypeOK, NEW c \in Call, Throws(c), claimed' \subseteq Intent,
         UNCHANGED <<posted, pending, results, patches, batch, order>>, faults' \in 0 .. MaxFaults
  PROVE  IntentTypeOK'
<1>1. Seated'
  BY HandlerEnds DEF Throws
<1>2. \A w \in Worker : at'[w] = "busy" => at[w] = "busy"
  BY DEF Throws
<1>3. QED
  BY <1>1, <1>2 DEF IntentTypeOK, Shapes, Seated

LEMMA ReadTyped ==
  ASSUME IntentTypeOK, NEW c \in Call, Read(c)
  PROVE  IntentTypeOK'
<1>1. faults' \in 0 .. MaxFaults
  BY FaultsTyped DEF Read
<1>2. CASE Throws(c)
  BY <1>1, <1>2, ThrowsTyped DEF Read, blobs, IntentTypeOK, Shapes
<1>3. CASE call' = [call EXCEPT ![c].at = "put"] /\ UNCHANGED at
  <2> DEFINE h == [call[c] EXCEPT !.at = "put"]
  <2>1. call[c] \in Handler /\ call[c].id \in Intent
    BY DEF IntentTypeOK, Shapes, Read
  <2>2. h \in Handler /\ h.asker = call[c].asker /\ h.id \in Intent /\ h.at # "free"
    BY <2>1 DEF Handler
  <2>3. call' = [call EXCEPT ![c] = h]
    BY <1>3
  <2> HIDE DEF h
  <2>4. Seated'
    BY <1>3, <2>2, <2>3, HandlerMoves
  <2>5. QED
    BY <1>1, <1>3, <2>4 DEF Read, blobs, IntentTypeOK, Shapes, Seated
<1>4. QED
  BY <1>2, <1>3 DEF Read

LEMMA PutTyped ==
  ASSUME IntentTypeOK, NEW c \in Call, Put(c)
  PROVE  IntentTypeOK'
<1>1. faults' \in 0 .. MaxFaults
  BY FaultsTyped DEF Put
<1>2. PICK to \in {"del", "next"} : call' = [call EXCEPT ![c].at = to]
  BY DEF Put, Skip
<1> DEFINE h == [call[c] EXCEPT !.at = to]
<1>3. call[c] \in Handler /\ call[c].id \in Intent
  BY DEF IntentTypeOK, Shapes, Put
<1>4. h \in Handler /\ h.asker = call[c].asker /\ h.id \in Intent /\ h.at # "free"
  BY <1>3 DEF Handler
<1>5. call' = [call EXCEPT ![c] = h]
  BY <1>2
<1> HIDE DEF h
<1>6. Seated'
  BY <1>4, <1>5, HandlerMoves DEF Put
<1>7. claimed' \subseteq Intent
  BY <1>3 DEF Put, IntentTypeOK, Shapes
<1>8. QED
  BY <1>1, <1>6, <1>7 DEF Put, IntentTypeOK, Shapes, Seated

LEMMA DeletePendingTyped ==
  ASSUME IntentTypeOK, NEW c \in Call, DeletePending(c)
  PROVE  IntentTypeOK'
<1>1. faults' \in 0 .. MaxFaults
  BY FaultsTyped DEF DeletePending
<1> DEFINE h == [call[c] EXCEPT !.at = "next", !.got = @ \cup {call[c].id}]
<1>2. call[c] \in Handler /\ call[c].id \in Intent
  BY DEF IntentTypeOK, Shapes, DeletePending
<1>3. h \in Handler /\ h.asker = call[c].asker /\ h.at = "next"
  BY <1>2 DEF Handler
<1>4. call' = [call EXCEPT ![c] = h]
  BY DEF DeletePending
<1> HIDE DEF h
<1>5. Seated'
  BY <1>3, <1>4, HandlerMoves DEF DeletePending
<1>6. pending' \subseteq Intent
  BY DEF DeletePending, IntentTypeOK, Shapes
<1>7. QED
  BY <1>1, <1>5, <1>6 DEF DeletePending, IntentTypeOK, Shapes, Seated

LEMMA AnswerTyped ==
  ASSUME IntentTypeOK, NEW c \in Call, Answer(c)
  PROVE  IntentTypeOK'
<1>1. Seated'
  BY HandlerEnds DEF Answer
<1>2. call[c] \in Handler /\ call[c].got \subseteq Intent
  BY DEF IntentTypeOK, Shapes, Handler
<1>3. batch' \in [Worker -> SUBSET Intent]
  BY <1>2 DEF Answer, IntentTypeOK, Shapes
<1>4. \A w \in Worker : at'[w] = "busy" => at[w] = "busy" /\ batch'[w] = batch[w]
  BY DEF Answer
<1>5. QED
  BY <1>1, <1>3, <1>4 DEF Answer, blobs, IntentTypeOK, Shapes, Seated

LEMMA HandlerDiesTyped ==
  ASSUME IntentTypeOK, NEW c \in Call, HandlerDies(c)
  PROVE  IntentTypeOK'
<1>1. faults' \in 0 .. MaxFaults
  BY FaultsTyped DEF HandlerDies
<1>2. QED
  BY <1>1, ThrowsTyped DEF HandlerDies, blobs, IntentTypeOK, Shapes

LEMMA RequestTyped ==
  ASSUME IntentTypeOK, NEW w \in Worker, NEW c \in Call, Request(w, c)
  PROVE  IntentTypeOK'
<1> DEFINE h == [Free EXCEPT !.at = "list", !.asker = w]
<1>1. h \in Handler /\ h.asker = w /\ h.at = "list"
  BY DEF Free, Handler
<1>2. call' = [call EXCEPT ![c] = h] /\ at' = [at EXCEPT ![w] = "waiting"]
  BY DEF Request
<1> HIDE DEF h
<1>3. call \in [Call -> Handler] /\ at \in [Worker -> Place] /\ w # Nobody
  BY IntentAssumption DEF IntentTypeOK, Shapes, IntentAssumption
<1>4. \A d \in Call : call'[d] = IF d = c THEN h ELSE call[d]
  BY <1>2, <1>3
<1>5. \A d \in Call : call[d].asker # w
  BY <1>3 DEF Request, IntentTypeOK, Wiring
<1>6. call[c].asker = Nobody
  BY DEF Request, IntentTypeOK, Wiring
<1>7. ASSUME NEW v \in Worker
      PROVE  at'[v] = "waiting" <=> \E d \in Call : call'[d].asker = v
  <2>1. v # Nobody /\ at'[v] = IF v = w THEN "waiting" ELSE at[v]
    BY <1>2, <1>3, IntentAssumption DEF IntentAssumption
  <2>2. CASE v = w
    BY <1>1, <1>4, <2>1, <2>2
  <2>3. CASE v # w
    <3>1. \A d \in Call : call'[d].asker = v <=> call[d].asker = v
      BY <1>1, <1>4, <1>6, <2>1, <2>3
    <3>2. QED
      BY <2>1, <2>3, <3>1 DEF IntentTypeOK, Wiring
  <2>4. QED
    BY <2>2, <2>3
<1>8. \A d, e \in Call : call'[d].asker # Nobody /\ call'[d].asker = call'[e].asker => d = e
  BY <1>1, <1>4, <1>5 DEF IntentTypeOK, Wiring
<1>9. Wiring'
  BY <1>1, <1>4, <1>7, <1>8 DEF IntentTypeOK, Wiring
<1>10. Shapes'
  BY <1>1, <1>2, <1>3 DEF Request, blobs, IntentTypeOK, Shapes, Place
<1>11. \A d \in Call : call'[d].at \in {"read", "put", "del"} => call'[d].id \in Intent
  BY <1>1, <1>4 DEF IntentTypeOK
<1>12. \A v \in Worker : at'[v] = "busy" => batch'[v] # {}
  BY <1>2, <1>3 DEF Request, IntentTypeOK
<1>13. QED
  BY <1>9, <1>10, <1>11, <1>12 DEF IntentTypeOK

\* A worker no longer waits: its handler, if it has one, goes on unheard.
LEMMA WorkerLeaves ==
  ASSUME IntentTypeOK, NEW w \in Worker,
         at' = [at EXCEPT ![w] = "idle"],
         call' = [c \in Call |-> IF call[c].asker = w THEN [call[c] EXCEPT !.asker = Nobody] ELSE call[c]]
  PROVE  Seated'
<1>1. call \in [Call -> Handler] /\ at \in [Worker -> Place] /\ w # Nobody
  BY IntentAssumption DEF IntentTypeOK, Shapes, IntentAssumption
<1>2. ASSUME NEW d \in Call
      PROVE  /\ call'[d] \in Handler /\ call'[d].at = call[d].at /\ call'[d].id = call[d].id
             /\ call'[d].asker = IF call[d].asker = w THEN Nobody ELSE call[d].asker
  <2>1. call[d] \in Handler
    BY <1>1
  <2>2. CASE call[d].asker = w
    <3> DEFINE h == [call[d] EXCEPT !.asker = Nobody]
    <3>1. /\ h \in Handler /\ h.at = call[d].at /\ h.id = call[d].id
          /\ h.asker = Nobody
      BY <2>1 DEF Handler
    <3>2. call'[d] = h
      BY <2>2
    <3> HIDE DEF h
    <3>3. QED
      BY <2>2, <3>1, <3>2
  <2>3. CASE call[d].asker # w
    BY <2>1, <2>3
  <2>4. QED
    BY <2>2, <2>3
<1>3. call' \in [Call -> Handler]
  <2>1. call' = [c \in Call |-> call'[c]]
    OBVIOUS
  <2>2. QED
    BY <1>2, <2>1
<1>4. ASSUME NEW v \in Worker
      PROVE  at'[v] = "waiting" <=> \E d \in Call : call'[d].asker = v
  <2>1. v # Nobody /\ at'[v] = IF v = w THEN "idle" ELSE at[v]
    BY <1>1, IntentAssumption DEF IntentAssumption
  <2>2. CASE v = w
    BY <1>2, <2>1, <2>2
  <2>3. CASE v # w
    <3>1. \A d \in Call : call'[d].asker = v <=> call[d].asker = v
      BY <1>2, <2>1, <2>3
    <3>2. QED
      BY <2>1, <2>3, <3>1 DEF IntentTypeOK, Wiring
  <2>4. QED
    BY <2>2, <2>3
<1>5. \A d, e \in Call : call'[d].asker # Nobody /\ call'[d].asker = call'[e].asker => d = e
  BY <1>2 DEF IntentTypeOK, Wiring
<1>6. \A d \in Call : call'[d].at = "free" => call'[d].asker = Nobody
  BY <1>2 DEF IntentTypeOK, Wiring
<1>7. at' \in [Worker -> Place]
  BY <1>1 DEF Place
<1>8. \A d \in Call : call'[d].at \in {"read", "put", "del"} => call'[d].id \in Intent
  BY <1>2 DEF IntentTypeOK
<1>9. QED
  BY <1>3, <1>4, <1>5, <1>6, <1>7, <1>8 DEF Seated, Wiring

LEMMA GiveUpTyped ==
  ASSUME IntentTypeOK, NEW w \in Worker, NEW c \in Call, GiveUp(w, c)
  PROVE  IntentTypeOK'
<1>1. call \in [Call -> Handler] /\ at \in [Worker -> Place] /\ w # Nobody
  BY IntentAssumption DEF IntentTypeOK, Shapes, IntentAssumption
<1>2. \A d \in Call : call[d].asker = w <=> d = c
  BY <1>1 DEF GiveUp, IntentTypeOK, Wiring
<1>3. call' = [d \in Call |-> IF call[d].asker = w THEN [call[d] EXCEPT !.asker = Nobody] ELSE call[d]]
  BY <1>1, <1>2 DEF GiveUp
<1>4. Seated'
  BY <1>3, WorkerLeaves DEF GiveUp
<1>5. \A v \in Worker : at'[v] = "busy" => batch'[v] # {}
  BY <1>1 DEF GiveUp, IntentTypeOK
<1>6. QED
  BY <1>4, <1>5 DEF GiveUp, blobs, IntentTypeOK, Shapes, Seated

LEMMA KillTyped ==
  ASSUME IntentTypeOK, NEW w \in Worker, Kill(w)
  PROVE  IntentTypeOK'
<1>1. Seated'
  BY WorkerLeaves DEF Kill
<1>2. at \in [Worker -> Place] /\ batch \in [Worker -> SUBSET Intent]
  BY DEF IntentTypeOK, Shapes
<1>3. \A v \in Worker : at'[v] = "busy" => batch'[v] # {}
  BY <1>2 DEF Kill, IntentTypeOK
<1>4. batch' \in [Worker -> SUBSET Intent]
  BY <1>2 DEF Kill
<1>5. QED
  BY <1>1, <1>3, <1>4 DEF Kill, blobs, IntentTypeOK, Shapes, Seated

\* A worker that waits for nobody goes to another such place.
LEMMA WorkerMoves ==
  ASSUME IntentTypeOK, NEW w \in Worker, at[w] # "waiting",
         NEW to \in {"idle", "run", "busy", "report"},
         at' = [at EXCEPT ![w] = to], UNCHANGED call
  PROVE  Seated'
<1>1. at \in [Worker -> Place] /\ call \in [Call -> Handler]
  BY DEF IntentTypeOK, Shapes
<1>2. \A v \in Worker : at'[v] = "waiting" <=> at[v] = "waiting"
  BY <1>1
<1>3. at' \in [Worker -> Place]
  BY <1>1 DEF Place
<1>4. Wiring'
  BY <1>2 DEF IntentTypeOK, Wiring
<1>5. QED
  BY <1>1, <1>3, <1>4 DEF IntentTypeOK, Seated

LEMMA BatchTyped ==
  ASSUME IntentTypeOK, NEW w \in Worker, BatchStep(w)
  PROVE  IntentTypeOK'
<1>1. at \in [Worker -> Place] /\ batch \in [Worker -> SUBSET Intent] /\ order \in Seq(Intent)
  BY DEF IntentTypeOK, Shapes
<1> DEFINE i == Oldest(batch[w])
<1>2. batch[w] # {} => i \in Intent
  BY <1>1, OldestIn
<1> HIDE DEF i
<1>3. CASE Execute(w)
  <2>1. Seated'
    BY <1>3, WorkerMoves DEF Execute
  <2>2. order' \in Seq(Intent)
    BY <1>1, <1>2, <1>3 DEF Execute, i
  <2>3. \A v \in Worker : at'[v] = "busy" => batch'[v] # {}
    BY <1>1, <1>3 DEF Execute, IntentTypeOK
  <2>4. QED
    BY <1>3, <2>1, <2>2, <2>3 DEF Execute, blobs, IntentTypeOK, Shapes, Seated
<1>4. CASE Send(w)
  <2>1. Seated'
    BY <1>4, WorkerMoves DEF Send
  <2>2. i \in Intent
    BY <1>2, <1>4 DEF Send, IntentTypeOK
  <2>3. patches' = patches \cup {[by |-> w, id |-> i, at |-> "put"]} /\ batch' = [batch EXCEPT ![w] = @ \ {i}]
    BY <1>4 DEF Send, i
  <2>4. patches' \subseteq Patch /\ batch' \in [Worker -> SUBSET Intent]
    BY <1>1, <2>2, <2>3 DEF IntentTypeOK, Shapes, Patch
  <2>5. \A v \in Worker : at'[v] = "busy" => batch'[v] # {}
    BY <1>1, <1>4, <2>3 DEF Send, IntentTypeOK
  <2>6. QED
    BY <1>4, <2>1, <2>4, <2>5 DEF Send, blobs, IntentTypeOK, Shapes, Seated
<1>5. CASE BatchDone(w)
  <2>1. Seated'
    BY <1>5, WorkerMoves DEF BatchDone
  <2>2. \A v \in Worker : at'[v] = "busy" => batch'[v] # {}
    BY <1>1, <1>5 DEF BatchDone, IntentTypeOK
  <2>3. QED
    BY <1>5, <2>1, <2>2 DEF BatchDone, blobs, IntentTypeOK, Shapes, Seated
<1>6. CASE Reported(w)
  <2>1. Seated'
    BY <1>6, WorkerMoves DEF Reported
  <2>2. \A v \in Worker : at'[v] = "busy" => batch'[v] # {}
    BY <1>1, <1>6 DEF Reported, IntentTypeOK
  <2>3. QED
    BY <1>6, <2>1, <2>2 DEF Reported, blobs, IntentTypeOK, Shapes, Seated
<1>7. QED
  BY <1>3, <1>4, <1>5, <1>6 DEF BatchStep

LEMMA PostTyped ==
  ASSUME IntentTypeOK, Post
  PROVE  IntentTypeOK'
<1>1. posted' \in Intent /\ posted' \in 0 .. MaxIntents
  BY IntentAssumption DEF IntentAssumption, IntentTypeOK, Shapes, Post, Intent
<1>2. pending' \subseteq Intent
  BY <1>1 DEF IntentTypeOK, Shapes, Post
<1>3. QED
  BY <1>1, <1>2 DEF IntentTypeOK, Shapes, Wiring, Post

LEMMA PatchTyped ==
  ASSUME IntentTypeOK, PatchStep
  PROVE  IntentTypeOK'
<1>1. PICK p \in patches : PutResult(p) \/ DeleteClaimed(p)
  BY DEF PatchStep
<1>2. faults' \in 0 .. MaxFaults
  BY <1>1, FaultsTyped DEF PutResult, DeleteClaimed
<1>3. p \in Patch
  BY DEF IntentTypeOK, Shapes
<1> DEFINE q == [p EXCEPT !.at = "del"]
<1>4. p.id \in Intent /\ q \in Patch
  BY <1>3 DEF Patch
<1>5. patches' \subseteq patches \cup {q}
  BY <1>1 DEF PutResult, DeleteClaimed
<1> HIDE DEF q
<1>6. /\ patches' \subseteq Patch
      /\ pending' \subseteq Intent /\ claimed' \subseteq Intent /\ results' \subseteq Intent
  BY <1>1, <1>4, <1>5 DEF IntentTypeOK, Shapes, PutResult, DeleteClaimed
<1>7. UNCHANGED <<posted, call, at, batch, order>>
  BY <1>1 DEF PutResult, DeleteClaimed
<1>8. QED
  BY <1>2, <1>6, <1>7 DEF IntentTypeOK, Shapes, Wiring

LEMMA StepTyped ==
  ASSUME IntentTypeOK, [Next]_vars
  PROVE  IntentTypeOK'
<1>1. CASE Post
  BY <1>1, PostTyped
<1>2. CASE PatchStep
  BY <1>2, PatchTyped
<1>3. ASSUME NEW c \in Call, HandlerStep(c)
      PROVE  IntentTypeOK'
  BY <1>3, ListTyped, FindTyped, ReadTyped, PutTyped, DeletePendingTyped, AnswerTyped DEF HandlerStep
<1>4. ASSUME NEW c \in Call, HandlerDies(c)
      PROVE  IntentTypeOK'
  BY <1>4, HandlerDiesTyped
<1>5. ASSUME NEW w \in Worker, NEW c \in Call, Request(w, c) \/ GiveUp(w, c)
      PROVE  IntentTypeOK'
  BY <1>5, RequestTyped, GiveUpTyped
<1>6. ASSUME NEW w \in Worker, BatchStep(w) \/ Kill(w)
      PROVE  IntentTypeOK'
  BY <1>6, BatchTyped, KillTyped
<1>7. CASE UNCHANGED vars
  BY <1>7 DEF vars, blobs, IntentTypeOK, Shapes, Wiring
<1>8. QED
  BY <1>1, <1>2, <1>3, <1>4, <1>5, <1>6, <1>7 DEF Next, Polls

\* No interleaving of handlers, lost answers, killed workers and failed blob
\* operations gives the answer of one request to two workers, or to one that no
\* longer waits (queue.mjs claim, hq-intents.mjs once).
THEOREM IntentTypeCorrect == Spec => []IntentTypeOK
BY InitTyped, StepTyped, PTL DEF Spec

-----------------------------------------------------------------------------
(* Nothing accepted is forgotten                                           *)

\* A handler deletes the pending blob after the claimed one was written, and a
\* report deletes the claimed one after the result was written.
ForgetInv ==
  /\ IntentTypeOK /\ NothingIsForgotten
  /\ \A c \in Call : call[c].at = "del" => call[c].id \in claimed \cup results
  /\ \A p \in patches : p.at = "del" => p.id \in results

\* What a step has to keep.
LEMMA Keeps ==
  ASSUME ForgetInv, IntentTypeOK',
         1 .. posted' \subseteq (1 .. posted) \cup pending',
         pending \ pending' \subseteq claimed' \cup results',
         claimed \subseteq claimed' \cup results', results \subseteq results',
         \A c \in Call : call'[c].at = "del" => call'[c].id \in claimed' \cup results'
                                                \/ (call[c].at = "del" /\ call'[c].id = call[c].id),
         \A p \in patches' : p.at = "del" => p \in patches \/ p.id \in results'
  PROVE  ForgetInv'
<1>1. NothingIsForgotten'
  BY DEF ForgetInv, NothingIsForgotten
<1>2. \A c \in Call : call'[c].at = "del" => call'[c].id \in claimed' \cup results'
  BY DEF ForgetInv
<1>3. \A p \in patches' : p.at = "del" => p.id \in results'
  BY DEF ForgetInv
<1>4. QED
  BY <1>1, <1>2, <1>3 DEF ForgetInv

LEMMA HandlerForgetsNothing ==
  ASSUME ForgetInv, IntentTypeOK', NEW c \in Call, HandlerStep(c) \/ HandlerDies(c)
  PROVE  ForgetInv'
<1>1. call \in [Call -> Handler] /\ Free.at = "free"
  BY DEF ForgetInv, IntentTypeOK, Shapes, Free
<1>2. UNCHANGED <<posted, results, patches>>
  BY DEF HandlerStep, List, Find, Read, Put, DeletePending, Answer, HandlerDies, blobs
<1>3. claimed \subseteq claimed'
  BY DEF HandlerStep, List, Find, Read, Put, DeletePending, Answer, HandlerDies, blobs
<1>4. pending \ pending' \subseteq claimed' \cup results'
  BY <1>3, <1>2 DEF ForgetInv, HandlerStep, List, Find, Read, Put, DeletePending, Answer, HandlerDies, blobs
<1>5. \A d \in Call : d # c => call'[d] = call[d]
  BY <1>1 DEF HandlerStep, List, Find, Read, Put, Skip, Throws, DeletePending, Answer, HandlerDies
<1>6. call'[c].at = "del" => call'[c].id \in claimed'
  <2>1. call[c] \in Handler
    BY <1>1
  <2>2. CASE List(c) \/ Find(c) \/ DeletePending(c) \/ Answer(c) \/ HandlerDies(c)
    BY <1>1, <2>1, <2>2 DEF List, Find, DeletePending, Answer, HandlerDies, Throws, Handler
  <2>3. CASE Read(c)
    BY <1>1, <2>1, <2>3 DEF Read, Throws, Handler
  <2>4. CASE Put(c)
    BY <1>1, <2>1, <2>4 DEF Put, Skip, Handler
  <2>5. QED
    BY <2>2, <2>3, <2>4 DEF HandlerStep
<1>7. \A d \in Call : call'[d].at = "del" => call'[d].id \in claimed' \cup results'
                                              \/ (call[d].at = "del" /\ call'[d].id = call[d].id)
  BY <1>5, <1>6
<1>8. \A p \in patches' : p \in patches
  BY <1>2
<1>9. posted' = posted /\ results' = results
  BY <1>2
<1>10. QED
  BY <1>3, <1>4, <1>7, <1>8, <1>9, Keeps

LEMMA ReportForgetsNothing ==
  ASSUME ForgetInv, IntentTypeOK', PatchStep
  PROVE  ForgetInv'
<1>1. PICK p \in patches : PutResult(p) \/ DeleteClaimed(p)
  BY DEF PatchStep
<1>2. p \in Patch
  BY DEF ForgetInv, IntentTypeOK, Shapes
<1> DEFINE q == [p EXCEPT !.at = "del"]
<1>3. q.id = p.id
  BY <1>2 DEF Patch
<1>4. \A r \in patches' : r \in patches \/ (r = q /\ p.id \in results')
  BY <1>1 DEF PutResult, DeleteClaimed
<1> HIDE DEF q
<1>5. results \subseteq results' /\ claimed \subseteq claimed' \cup results'
  BY <1>1 DEF PutResult, DeleteClaimed, ForgetInv
<1>6. posted' = posted /\ pending' = pending /\ call' = call
  BY <1>1 DEF PutResult, DeleteClaimed
<1>7. \A r \in patches' : r.at = "del" => r \in patches \/ r.id \in results'
  BY <1>3, <1>4
<1>8. QED
  BY <1>5, <1>6, <1>7, Keeps

LEMMA WorkerForgetsNothing ==
  ASSUME ForgetInv, IntentTypeOK', NEW w \in Worker,
         BatchStep(w) \/ Kill(w) \/ \E c \in Call : Request(w, c) \/ GiveUp(w, c)
  PROVE  ForgetInv'
<1>1. UNCHANGED <<posted, pending, claimed, results>>
  BY DEF BatchStep, Execute, Send, BatchDone, Reported, Kill, Request, GiveUp, blobs
<1>2. call \in [Call -> Handler] /\ Free.at = "free"
  BY DEF ForgetInv, IntentTypeOK, Shapes, Free
<1>3. ASSUME NEW d \in Call, call'[d].at = "del"
      PROVE  call[d].at = "del" /\ call'[d].id = call[d].id
  <2>1. call[d] \in Handler
    BY <1>2
  <2>2. CASE BatchStep(w)
    BY <1>3, <2>2 DEF BatchStep, Execute, Send, BatchDone, Reported
  <2>3. CASE Kill(w)
    BY <1>3, <2>1, <2>3 DEF Kill, Handler
  <2>4. ASSUME NEW c \in Call, Request(w, c)
        PROVE  call[d].at = "del" /\ call'[d].id = call[d].id
    BY <1>2, <1>3, <2>1, <2>4 DEF Request, Free, Handler
  <2>5. ASSUME NEW c \in Call, GiveUp(w, c)
        PROVE  call[d].at = "del" /\ call'[d].id = call[d].id
    BY <1>2, <1>3, <2>1, <2>5 DEF GiveUp, Handler
  <2>6. QED
    BY <2>2, <2>3, <2>4, <2>5
<1>4. \A p \in patches' : p.at = "del" => p \in patches
  BY DEF BatchStep, Execute, Send, BatchDone, Reported, Kill, Request, GiveUp
<1>5. posted' = posted /\ pending' = pending /\ claimed' = claimed /\ results' = results
  BY <1>1
<1>6. QED
  BY <1>3, <1>4, <1>5, Keeps

LEMMA PostForgetsNothing ==
  ASSUME ForgetInv, IntentTypeOK', Post
  PROVE  ForgetInv'
<1>1. posted \in Nat /\ posted' = posted + 1 /\ pending' = pending \cup {posted'}
  BY DEF Post, ForgetInv, IntentTypeOK, Shapes
<1>2. 1 .. posted' \subseteq (1 .. posted) \cup pending'
  BY <1>1
<1>3. QED
  BY <1>1, <1>2, Keeps DEF Post

LEMMA ForgetStep ==
  ASSUME ForgetInv, [Next]_vars
  PROVE  ForgetInv'
<1>1. IntentTypeOK'
  BY StepTyped DEF ForgetInv
<1>2. CASE UNCHANGED vars
  BY <1>1, <1>2 DEF vars, blobs, ForgetInv, NothingIsForgotten
<1>3. CASE Next
  BY <1>1, <1>3, PostForgetsNothing, ReportForgetsNothing, HandlerForgetsNothing,
     WorkerForgetsNothing DEF Next, Polls
<1>4. QED
  BY <1>2, <1>3

LEMMA ForgetInit == Init => ForgetInv
<1> SUFFICES ASSUME Init PROVE ForgetInv
  OBVIOUS
<1>1. Free.at # "del"
  BY DEF Free
<1>2. QED
  BY <1>1, InitTyped DEF Init, ForgetInv, NothingIsForgotten

\* Whatever handler, worker or blob operation stops, at whatever step: a request
\* that was accepted is still waiting, or claimed, or answered (claim and report
\* of queue.mjs write the next blob before they delete the last one).
THEOREM NothingEverForgotten == Spec => []NothingIsForgotten
<1>3. ForgetInv => NothingIsForgotten
  BY DEF ForgetInv
<1>4. QED
  BY <1>3, ForgetInit, ForgetStep, PTL DEF Spec

-----------------------------------------------------------------------------
(* With one worker and deletes that work, nothing is run twice             *)

OneWorker == \A v, w \in Worker : v = w
DeletesWork == "del-pending" \notin Faulty

Ran == {order[k] : k \in DOMAIN order}

\* What is given out is accepted and not run yet, and what was claimed or given
\* out is not pending any more.
FreshHandler(c) ==
  call[c].asker # Nobody =>
    /\ call[c].todo \cup call[c].got \cup {call[c].id} \subseteq 0 .. posted
    /\ (call[c].todo \cup call[c].got \cup {call[c].id}) \cap Ran = {}
    /\ call[c].got \cap pending = {}

FreshBatch(w) ==
  /\ batch[w] \subseteq 1 .. posted /\ batch[w] \cap pending = {}
  /\ \A i \in batch[w] \cap Ran : at[w] = "busy" /\ i = Oldest(batch[w])

OnceInv ==
  /\ IntentTypeOK /\ AtMostOnce
  /\ Ran \subseteq 1 .. posted /\ Ran \cap pending = {} /\ pending \subseteq 1 .. posted
  /\ \A c \in Call : FreshHandler(c)
  /\ \A w \in Worker : FreshBatch(w)

\* A step that runs, posts and hands out nothing.
LEMMA HandlersOnly ==
  ASSUME OnceInv, IntentTypeOK', UNCHANGED <<posted, order, batch>>,
         pending' \subseteq pending,
         \A w \in Worker : at[w] = "busy" => at'[w] = "busy",
         \A c \in Call : FreshHandler(c)'
  PROVE  OnceInv'
<1>1. Ran' = Ran
  BY DEF Ran
<1>2. AtMostOnce'
  BY DEF OnceInv, AtMostOnce
<1>3. \A w \in Worker : FreshBatch(w)'
  BY <1>1 DEF OnceInv, FreshBatch, Oldest
<1>4. QED
  BY <1>1, <1>2, <1>3 DEF OnceInv

\* A handler that moves on with h, and hands out nothing.
LEMMA HandlerGoesOn ==
  ASSUME OnceInv, IntentTypeOK', UNCHANGED <<posted, order, batch, at>>,
         NEW c \in Call, NEW h, call' = [call EXCEPT ![c] = h], h.asker = call[c].asker,
         pending' \subseteq pending,
         h.todo \cup h.got \cup {h.id} \subseteq
            call[c].todo \cup call[c].got \cup {call[c].id} \cup pending,
         h.got \cap pending' \subseteq call[c].got
  PROVE  OnceInv'
<1>1. call \in [Call -> Handler] /\ pending \subseteq 1 .. posted /\ pending \cap Ran = {}
  BY DEF OnceInv, IntentTypeOK, Shapes
<1>2. Ran' = Ran
  BY DEF Ran
<1>3. \A d \in Call : call'[d] = IF d = c THEN h ELSE call[d]
  BY <1>1
<1>4. ASSUME NEW d \in Call
      PROVE  FreshHandler(d)'
  <2>1. FreshHandler(d)
    BY DEF OnceInv
  <2>2. CASE d = c
    <3> SUFFICES ASSUME call'[c].asker # Nobody
                 PROVE  /\ h.todo \cup h.got \cup {h.id} \subseteq 0 .. posted
                        /\ (h.todo \cup h.got \cup {h.id}) \cap Ran = {}
                        /\ h.got \cap pending' = {}
      BY <1>2, <1>3, <2>2 DEF FreshHandler
    <3>1. /\ call[c].todo \cup call[c].got \cup {call[c].id} \subseteq 0 .. posted
          /\ (call[c].todo \cup call[c].got \cup {call[c].id}) \cap Ran = {}
          /\ call[c].got \cap pending = {}
      BY <1>3, <2>1, <2>2 DEF FreshHandler
    <3>2. 1 .. posted \subseteq 0 .. posted
      BY DEF OnceInv, IntentTypeOK, Shapes
    <3>3. QED
      BY <1>1, <3>1, <3>2
  <2>3. CASE d # c
    BY <1>2, <1>3, <2>1, <2>3 DEF FreshHandler
  <2>4. QED
    BY <2>2, <2>3
<1>5. QED
  BY <1>4, HandlersOnly

LEMMA HandlerRunsNothing ==
  ASSUME OnceInv, IntentTypeOK', NEW c \in Call,
         DeletePending(c) => pending' = pending \ {call[c].id},
         List(c) \/ Find(c) \/ Read(c) \/ Put(c) \/ DeletePending(c) \/ HandlerDies(c)
  PROVE  OnceInv'
<1>1. call \in [Call -> Handler] /\ call[c] \in Handler
  BY DEF OnceInv, IntentTypeOK, Shapes
<1>2. CASE List(c)
  <2>1. PICK todo \in SUBSET pending : call' = [call EXCEPT ![c].at = "next", ![c].todo = todo]
    BY <1>2 DEF List, Listed
  <2> DEFINE h == [call[c] EXCEPT !.at = "next", !.todo = todo]
  <2>2. h.asker = call[c].asker /\ h.todo = todo /\ h.got = call[c].got /\ h.id = call[c].id
    BY <1>1 DEF Handler
  <2>3. call' = [call EXCEPT ![c] = h]
    BY <2>1
  <2> HIDE DEF h
  <2>4. QED
    BY <1>2, <2>2, <2>3, HandlerGoesOn DEF List, blobs
<1>3. CASE Find(c)
  <2> DEFINE i == Oldest(call[c].todo)
             h == [call[c] EXCEPT !.todo = @ \ {i}, !.id = i,
                                  !.at = IF i \in pending THEN "read" ELSE "next"]
  <2>1. i \in call[c].todo
    BY <1>1, <1>3, OldestIn DEF Find, Handler
  <2>2. call' = [call EXCEPT ![c] = h]
    BY <1>3 DEF Find
  <2> HIDE DEF i
  <2>3. h.asker = call[c].asker /\ h.todo = call[c].todo \ {i} /\ h.got = call[c].got /\ h.id = i
    BY <1>1 DEF Handler
  <2> HIDE DEF h
  <2>4. UNCHANGED <<posted, pending, order, batch, at>>
    BY <1>3 DEF Find, blobs
  <2>5. h.todo \cup h.got \cup {h.id} \subseteq call[c].todo \cup call[c].got \cup {call[c].id} \cup pending
    BY <2>1, <2>3
  <2>6. QED
    BY <2>2, <2>3, <2>4, <2>5, HandlerGoesOn
<1>4. CASE DeletePending(c)
  <2> DEFINE h == [call[c] EXCEPT !.at = "next", !.got = @ \cup {call[c].id}]
  <2>1. pending' = pending \ {call[c].id}
    BY <1>4
  <2>2. call' = [call EXCEPT ![c] = h]
    BY <1>4 DEF DeletePending
  <2>3. h.asker = call[c].asker /\ h.todo = call[c].todo /\ h.got = call[c].got \cup {call[c].id} /\ h.id = call[c].id
    BY <1>1 DEF Handler
  <2> HIDE DEF h
  <2>4. QED
    BY <1>4, <2>1, <2>2, <2>3, HandlerGoesOn DEF DeletePending
<1>5. ASSUME NEW to \in {"put", "del", "next"}, call' = [call EXCEPT ![c].at = to],
             UNCHANGED <<posted, pending, order, batch, at>>
      PROVE  OnceInv'
  <2> DEFINE h == [call[c] EXCEPT !.at = to]
  <2>1. call' = [call EXCEPT ![c] = h]
    BY <1>5
  <2>2. h.asker = call[c].asker /\ h.todo = call[c].todo /\ h.got = call[c].got /\ h.id = call[c].id
    BY <1>1 DEF Handler
  <2> HIDE DEF h
  <2>3. QED
    BY <1>5, <2>1, <2>2, HandlerGoesOn
<1>6. ASSUME Throws(c), UNCHANGED <<posted, pending, order, batch>>
      PROVE  OnceInv'
  <2>1. Free.asker = Nobody
    BY DEF Free
  <2>2. Ran' = Ran
    BY <1>6 DEF Ran
  <2>3. \A d \in Call : FreshHandler(d)'
    BY <1>1, <1>6, <2>1, <2>2 DEF Throws, FreshHandler, OnceInv
  <2>4. \A w \in Worker : at[w] = "busy" => at'[w] = "busy"
    BY <1>6 DEF Throws, OnceInv, IntentTypeOK, Wiring
  <2>5. QED
    BY <1>6, <2>3, <2>4, HandlersOnly
<1>7. CASE Read(c)
  BY <1>5, <1>6, <1>7 DEF Read, blobs
<1>8. CASE Put(c)
  BY <1>5, <1>8 DEF Put, Skip
<1>9. CASE HandlerDies(c)
  BY <1>6, <1>9 DEF HandlerDies, blobs
<1>10. QED
  BY <1>2, <1>3, <1>4, <1>7, <1>8, <1>9

LEMMA AnswerRunsNothing ==
  ASSUME OnceInv, IntentTypeOK', NEW c \in Call, Answer(c)
  PROVE  OnceInv'
<1>1. call \in [Call -> Handler] /\ call[c] \in Handler /\ Free.asker = Nobody
  BY DEF OnceInv, IntentTypeOK, Shapes, Free
<1>2. Ran' = Ran /\ UNCHANGED <<posted, pending, order>>
  BY DEF Ran, Answer, blobs
<1>3. AtMostOnce'
  BY <1>2 DEF OnceInv, AtMostOnce
<1>4. \A d \in Call : FreshHandler(d)'
  BY <1>1, <1>2 DEF Answer, FreshHandler, OnceInv
<1>5. ASSUME NEW w \in Worker
      PROVE  FreshBatch(w)'
  <2>1. CASE call[c].asker = w
    <3>1. w # Nobody
      BY IntentAssumption DEF IntentAssumption
    <3>2. call[c].got \subseteq 1 .. posted
      BY <1>1, <2>1, <3>1 DEF OnceInv, FreshHandler, Handler, Intent
    <3>3. call[c].got \cap Ran = {} /\ call[c].got \cap pending = {}
      BY <2>1, <3>1 DEF OnceInv, FreshHandler
    <3>4. batch'[w] = call[c].got
      BY <2>1 DEF Answer
    <3>5. QED
      BY <1>2, <3>2, <3>3, <3>4 DEF FreshBatch
  <2>2. CASE call[c].asker # w
    <3>1. batch'[w] = batch[w] /\ at'[w] = at[w]
      BY <2>2 DEF Answer
    <3>2. QED
      BY <1>2, <3>1 DEF OnceInv, FreshBatch
  <2>3. QED
    BY <2>1, <2>2
<1>6. QED
  BY <1>2, <1>3, <1>4, <1>5 DEF OnceInv

LEMMA PostRunsNothing ==
  ASSUME OnceInv, IntentTypeOK', Post
  PROVE  OnceInv'
<1>1. posted \in Nat /\ posted' = posted + 1 /\ pending' = pending \cup {posted + 1}
  BY DEF Post, OnceInv, IntentTypeOK, Shapes
<1>2. UNCHANGED <<call, at, batch, order>> /\ Ran' = Ran
  BY DEF Post, Ran
<1>3. posted + 1 \notin 0 .. posted /\ 0 .. posted \subseteq 0 .. posted' /\ 1 .. posted \subseteq 0 .. posted
  BY <1>1
<1>4. 1 .. posted' = (1 .. posted) \cup {posted + 1}
  BY <1>1
<1>5. \A c \in Call : FreshHandler(c)'
  BY <1>1, <1>2, <1>3 DEF OnceInv, FreshHandler
<1>6. \A w \in Worker : FreshBatch(w)'
  BY <1>1, <1>2, <1>3, <1>4 DEF OnceInv, FreshBatch
<1>7. Ran' \subseteq 1 .. posted' /\ Ran' \cap pending' = {} /\ pending' \subseteq 1 .. posted'
  BY <1>1, <1>2, <1>3, <1>4 DEF OnceInv
<1>8. AtMostOnce'
  BY <1>2 DEF OnceInv, AtMostOnce
<1>9. QED
  BY <1>5, <1>6, <1>7, <1>8 DEF OnceInv

LEMMA RequestRunsNothing ==
  ASSUME OnceInv, IntentTypeOK', NEW w \in Worker, NEW c \in Call, Request(w, c)
  PROVE  OnceInv'
<1>1. call \in [Call -> Handler] /\ at \in [Worker -> Place]
  BY DEF OnceInv, IntentTypeOK, Shapes
<1> DEFINE h == [Free EXCEPT !.at = "list", !.asker = w]
<1>2. h.todo = {} /\ h.got = {} /\ h.id = 0
  BY DEF Free
<1>3. call' = [call EXCEPT ![c] = h]
  BY DEF Request
<1> HIDE DEF h
<1>4. Ran' = Ran /\ UNCHANGED <<posted, pending, order, batch>>
  BY DEF Ran, Request, blobs
<1>5. 0 \notin Ran /\ 0 \in 0 .. posted
  BY DEF OnceInv, IntentTypeOK, Shapes
<1>6. \A d \in Call : FreshHandler(d)'
  BY <1>1, <1>2, <1>3, <1>4, <1>5 DEF FreshHandler, OnceInv
<1>7. \A v \in Worker : at[v] = "busy" => at'[v] = "busy"
  BY <1>1 DEF Request
<1>8. QED
  BY <1>4, <1>6, <1>7, HandlersOnly

LEMMA GiveUpRunsNothing ==
  ASSUME OnceInv, IntentTypeOK', NEW w \in Worker, NEW c \in Call, GiveUp(w, c)
  PROVE  OnceInv'
<1>1. call \in [Call -> Handler] /\ at \in [Worker -> Place]
  BY DEF OnceInv, IntentTypeOK, Shapes
<1> DEFINE h == [call[c] EXCEPT !.asker = Nobody]
<1>2. call[c] \in Handler
  BY <1>1
<1>3. h.asker = Nobody
  BY <1>2 DEF Handler
<1>4. call' = [call EXCEPT ![c] = h]
  BY DEF GiveUp
<1> HIDE DEF h
<1>5. Ran' = Ran /\ UNCHANGED <<posted, pending, order, batch>>
  BY DEF Ran, GiveUp, blobs
<1>6. \A d \in Call : FreshHandler(d)'
  BY <1>1, <1>3, <1>4, <1>5 DEF FreshHandler, OnceInv
<1>7. \A v \in Worker : at[v] = "busy" => at'[v] = "busy"
  BY <1>1 DEF GiveUp
<1>8. QED
  BY <1>5, <1>6, <1>7, HandlersOnly

LEMMA KillRunsNothing ==
  ASSUME OnceInv, IntentTypeOK', NEW w \in Worker, Kill(w)
  PROVE  OnceInv'
<1>1. at \in [Worker -> Place] /\ batch \in [Worker -> SUBSET Intent] /\ w # Nobody
  BY IntentAssumption DEF IntentAssumption, OnceInv, IntentTypeOK, Shapes
<1>2. Ran' = Ran /\ UNCHANGED <<posted, pending, order>>
  BY DEF Ran, Kill, blobs
<1>3. ASSUME NEW d \in Call
      PROVE  FreshHandler(d)'
  <2>1. call[d] \in Handler
    BY DEF OnceInv, IntentTypeOK, Shapes
  <2>2. CASE call[d].asker = w
    <3>1. call'[d].asker = Nobody
      BY <2>1, <2>2 DEF Kill, Handler
    <3>2. QED
      BY <3>1 DEF FreshHandler
  <2>3. CASE call[d].asker # w
    <3>1. call'[d] = call[d]
      BY <2>3 DEF Kill
    <3>2. QED
      BY <1>2, <3>1 DEF FreshHandler, OnceInv
  <2>4. QED
    BY <2>2, <2>3
<1>4. ASSUME NEW v \in Worker
      PROVE  FreshBatch(v)'
  <2>1. batch'[v] = IF v = w THEN {} ELSE batch[v]
    BY <1>1 DEF Kill
  <2>2. v # w => at'[v] = at[v]
    BY <1>1 DEF Kill
  <2>3. QED
    BY <1>2, <2>1, <2>2 DEF OnceInv, FreshBatch
<1>5. AtMostOnce'
  BY <1>2 DEF OnceInv, AtMostOnce
<1>6. QED
  BY <1>2, <1>3, <1>4, <1>5 DEF OnceInv

\* The worker that runs an intent waits for nobody: no handler holds one.
LEMMA ExecuteRunsOnce ==
  ASSUME OneWorker, OnceInv, IntentTypeOK', NEW w \in Worker, Execute(w)
  PROVE  OnceInv'
<1>1. /\ at \in [Worker -> Place] /\ batch \in [Worker -> SUBSET Intent]
      /\ order \in Seq(Intent) /\ call \in [Call -> Handler]
  BY DEF OnceInv, IntentTypeOK, Shapes
<1> DEFINE i == Oldest(batch[w])
<1>2. i \in batch[w] /\ batch[w] \subseteq Intent
  BY <1>1, OldestIn DEF Execute
<1>3. order' = Append(order, i) /\ UNCHANGED <<posted, pending, call, batch>>
  BY DEF Execute, blobs
<1>4. i \notin Ran /\ i \in 1 .. posted /\ i \notin pending
  BY <1>2 DEF OnceInv, FreshBatch, Execute
<1>5. at' = [at EXCEPT ![w] = "busy"]
  BY DEF Execute
<1>6. \A v \in Worker : v = w
  BY DEF OneWorker
<1>7. \A d \in Call : call[d].asker = Nobody
  <2>1. \A d \in Call : call[d].asker # w
    BY DEF Execute, OnceInv, IntentTypeOK, Wiring
  <2>2. QED
    BY <1>1, <1>6, <2>1 DEF Handler
<1> HIDE DEF i
<1>8. /\ DOMAIN order' = DOMAIN order \cup {Len(order) + 1} /\ order'[Len(order) + 1] = i
      /\ \A k \in DOMAIN order : order'[k] = order[k]
  BY <1>1, <1>2, <1>3
<1>9. Ran' = Ran \cup {i}
  BY <1>8 DEF Ran
<1>10. AtMostOnce'
  BY <1>4, <1>8 DEF OnceInv, AtMostOnce, Ran
<1>11. \A d \in Call : FreshHandler(d)'
  BY <1>3, <1>7 DEF FreshHandler
<1>12. FreshBatch(w)'
  <2>1. batch[w] \subseteq 1 .. posted /\ batch[w] \cap pending = {} /\ batch[w] \cap Ran = {}
    BY DEF OnceInv, FreshBatch, Execute
  <2>2. at'[w] = "busy"
    BY <1>1, <1>5
  <2>3. \A k \in batch'[w] \cap Ran' : k = i
    BY <1>3, <1>9, <2>1
  <2>4. QED
    BY <1>3, <2>1, <2>2, <2>3 DEF FreshBatch, i
<1>13. \A v \in Worker : FreshBatch(v)'
  BY <1>6, <1>12
<1>14. QED
  BY <1>3, <1>4, <1>9, <1>10, <1>11, <1>13 DEF OnceInv

LEMMA BatchRunsOnce ==
  ASSUME OneWorker, OnceInv, IntentTypeOK', NEW w \in Worker, BatchStep(w)
  PROVE  OnceInv'
<1>1. at \in [Worker -> Place] /\ batch \in [Worker -> SUBSET Intent]
  BY DEF OnceInv, IntentTypeOK, Shapes
<1>2. CASE Execute(w)
  BY <1>2, ExecuteRunsOnce
<1>3. ASSUME UNCHANGED <<posted, pending, call, order>>,
             \A v \in Worker : FreshBatch(v)'
      PROVE  OnceInv'
  <2>1. Ran' = Ran
    BY <1>3 DEF Ran
  <2>2. \A c \in Call : FreshHandler(c)'
    BY <1>3, <2>1 DEF FreshHandler, OnceInv
  <2>3. AtMostOnce'
    BY <1>3 DEF OnceInv, AtMostOnce
  <2>4. QED
    BY <1>3, <2>1, <2>2, <2>3 DEF OnceInv
<1>4. CASE Send(w)
  <2>1. UNCHANGED <<posted, pending, call, order>> /\ Ran' = Ran
    BY <1>4 DEF Send, blobs, Ran
  <2>2. batch'[w] = batch[w] \ {Oldest(batch[w])}
    BY <1>1, <1>4 DEF Send
  <2>3. batch'[w] \cap Ran = {}
    BY <2>2 DEF OnceInv, FreshBatch
  <2>4. FreshBatch(w)'
    BY <2>1, <2>2, <2>3 DEF OnceInv, FreshBatch
  <2>5. QED
    BY <1>3, <2>1, <2>4 DEF OneWorker
<1>5. CASE BatchDone(w) \/ Reported(w)
  <2>1. UNCHANGED <<posted, pending, call, order, batch>> /\ Ran' = Ran
    BY <1>5 DEF BatchDone, Reported, blobs, Ran
  <2>2. batch[w] \cap Ran = {}
    BY <1>5 DEF OnceInv, FreshBatch, BatchDone, Reported
  <2>3. FreshBatch(w)'
    BY <2>1, <2>2 DEF OnceInv, FreshBatch
  <2>4. QED
    BY <1>3, <2>1, <2>3 DEF OneWorker
<1>6. QED
  BY <1>2, <1>4, <1>5 DEF BatchStep

LEMMA PatchRunsNothing ==
  ASSUME OnceInv, IntentTypeOK', PatchStep
  PROVE  OnceInv'
<1>1. UNCHANGED <<posted, pending, call, at, batch, order>>
  BY DEF PatchStep, PutResult, DeleteClaimed
<1>2. \A c \in Call : FreshHandler(c)'
  BY <1>1 DEF FreshHandler, Ran, OnceInv
<1>3. QED
  BY <1>1, <1>2, HandlersOnly

LEMMA OnceStep ==
  ASSUME OneWorker, OnceInv, [Next]_vars,
         \A c \in Call : DeletePending(c) => pending' = pending \ {call[c].id}
  PROVE  OnceInv'
<1>1. IntentTypeOK'
  BY StepTyped DEF OnceInv
<1>2. CASE UNCHANGED vars
  <2>1. \A c \in Call : FreshHandler(c)'
    BY <1>2 DEF vars, blobs, OnceInv, FreshHandler, Ran
  <2>2. QED
    BY <1>1, <1>2, <2>1, HandlersOnly DEF vars, blobs
<1>3. CASE Post \/ PatchStep
  BY <1>1, <1>3, PostRunsNothing, PatchRunsNothing
<1>4. ASSUME NEW c \in Call, HandlerStep(c) \/ HandlerDies(c)
      PROVE  OnceInv'
  BY <1>1, <1>4, HandlerRunsNothing, AnswerRunsNothing DEF HandlerStep
<1>5. ASSUME NEW w \in Worker, BatchStep(w) \/ Kill(w)
      PROVE  OnceInv'
  BY <1>1, <1>5, BatchRunsOnce, KillRunsNothing
<1>6. ASSUME NEW w \in Worker, NEW c \in Call, Request(w, c) \/ GiveUp(w, c)
      PROVE  OnceInv'
  BY <1>1, <1>6, RequestRunsNothing, GiveUpRunsNothing
<1>7. QED
  BY <1>2, <1>3, <1>4, <1>5, <1>6 DEF Next, Polls

\* With one polling worker, as deployed, and deletes of pending blobs that work,
\* no intent is run twice: however many requests are given up while their handlers
\* go on, handlers and workers die, and other blob operations fail (queue.mjs,
\* claim: "Once-only").
THEOREM RunsOnce ==
  ASSUME OneWorker, DeletesWork
  PROVE  Spec => []AtMostOnce
<1>1. Init => OnceInv
  <2> SUFFICES ASSUME Init PROVE OnceInv
    OBVIOUS
  <2>1. Free.asker = Nobody /\ Ran = {}
    BY DEF Init, Free, Ran
  <2>2. QED
    BY <2>1, InitTyped DEF Init, OnceInv, AtMostOnce, FreshHandler, FreshBatch
<1>2. OnceInv /\ [Next]_vars => OnceInv'
  <2>1. \A c \in Call : DeletePending(c) => pending' = pending \ {call[c].id}
    BY DEF DeletePending, Fails, DeletesWork
  <2>2. QED
    BY <2>1, OnceStep
<1>3. OnceInv => AtMostOnce
  BY DEF OnceInv
<1>4. QED
  BY <1>1, <1>2, <1>3, PTL DEF Spec

-----------------------------------------------------------------------------
(* With one worker and no fault, no request is overtaken                    *)

\* What a later request of the worker may still be given.
Unclaimed == pending \ claimed

Before(S, T) == \A i \in S, j \in T : i < j

\* What a handler has claimed, and what it is about to claim.
Held(h) == h.got \cup (IF h.at = "del" THEN {h.id} ELSE {})
Hand(h) == IF h.at \in {"read", "put"} THEN {h.id} ELSE {}

\* What a handler holds came before whatever can still be claimed, and it passes over
\* nothing that is older than what it is about to claim.
InTurn(h) ==
  /\ Before(Ran, Held(h)) /\ Before(Held(h), Unclaimed)
  /\ Before(Hand(h), h.todo)
  /\ Before(Hand(h) \cup h.todo, Unclaimed \ (Hand(h) \cup h.todo))

HeardInTurn(c) == call[c].asker # Nobody => InTurn(call[c])

BatchInTurn(w) ==
  /\ \A i \in Ran, j \in batch[w] : i <= j
  /\ Before(batch[w], Unclaimed)
  /\ at[w] = "busy" => Oldest(batch[w]) \in Ran

Ordered ==
  /\ \A i, j \in DOMAIN order : i < j => order[i] <= order[j]
  /\ Before(Ran, Unclaimed)
  /\ \A c \in Call : HeardInTurn(c)
  /\ \A w \in Worker : BatchInTurn(w)
  /\ results \subseteq Ran /\ \A p \in patches : p.id \in Ran

OrderInv == ForgetInv /\ (faults = 0 => OnceInv /\ Ordered)

LEMMA OldestFirst ==
  ASSUME NEW S, S \subseteq Intent, S # {}
  PROVE  \A i \in S : Oldest(S) <= i
<1>0. S \subseteq Nat
  BY DEF Intent
<1>1. PICK m \in S : \A k \in S : <<k, m>> \notin OpToRel(<, Nat)
  BY <1>0, WFMin, NatLessThanWellFounded, Zenon
<1>2. \A k \in S : ~(k < m)
  BY <1>0, <1>1, Zenon DEF OpToRel
<1>3. \A k \in S : m <= k
  BY <1>0, <1>2
<1>4. QED
  BY <1>3 DEF Oldest

\* What is pending and not listed is younger than all that is.
LEMMA ListedFirst ==
  ASSUME IntentTypeOK
  PROVE  Before(Listed, pending \ Listed)
<1>1. pending \subseteq 1 .. MaxIntents /\ ListLimit \in Nat /\ MaxIntents \in Nat
  BY IntentAssumption DEF IntentAssumption, IntentTypeOK, Shapes, Intent
<1>2. IsFiniteSet(pending)
  <2>1. IsFiniteSet(1 .. MaxIntents)
    BY <1>1, FS_Interval
  <2>2. QED
    BY <1>1, <2>1, FS_Subset
<1> DEFINE below(i) == {j \in pending : j < i}
<1>3. SUFFICES ASSUME NEW i \in Listed, NEW k \in pending \ Listed, ~(i < k)
               PROVE  FALSE
  BY DEF Before
<1>4. i \in pending /\ Cardinality(below(i)) < ListLimit /\ ~(Cardinality(below(k)) < ListLimit)
  BY DEF Listed
<1>5. below(k) \subseteq below(i) /\ IsFiniteSet(below(i)) /\ IsFiniteSet(below(k))
  <2>1. \A j \in pending : j < k => j < i
    BY <1>1, <1>3, <1>4
  <2>2. below(k) \subseteq below(i) /\ below(k) \subseteq pending /\ below(i) \subseteq pending
    BY <2>1
  <2> HIDE DEF below
  <2>3. QED
    BY <1>2, <2>2, FS_Subset
<1> HIDE DEF below
<1>6. /\ Cardinality(below(k)) \in Nat /\ Cardinality(below(i)) \in Nat
      /\ Cardinality(below(k)) <= Cardinality(below(i))
  BY <1>5, FS_Subset, FS_CardinalityType
<1>7. QED
  BY <1>1, <1>4, <1>6

\* A step that runs and hands out nothing, and makes nothing claimable.
LEMMA NothingClaimable ==
  ASSUME OnceInv, Ordered, UNCHANGED <<order, batch>>, Unclaimed' \subseteq Unclaimed,
         \A w \in Worker : at'[w] = "busy" => at[w] = "busy",
         \A c \in Call : HeardInTurn(c)',
         results' \subseteq Ran, \A p \in patches' : p.id \in Ran
  PROVE  Ordered'
<1>1. Ran' = Ran
  BY DEF Ran
<1>2. \A w \in Worker : BatchInTurn(w)'
  BY <1>1 DEF Ordered, BatchInTurn, Before, Oldest
<1>3. QED
  BY <1>1, <1>2 DEF Ordered, Before

\* What is not claimable any more disturbs nobody.
LEMMA InTurnStill ==
  ASSUME NEW h, InTurn(h), order' = order, Unclaimed' \subseteq Unclaimed
  PROVE  InTurn(h)'
BY DEF InTurn, Before, Held, Hand, Ran

\* A handler that moves on with h.
LEMMA HandlerInTurn ==
  ASSUME OnceInv, Ordered, UNCHANGED <<order, batch, patches, results, at>>, Unclaimed' \subseteq Unclaimed,
         NEW c \in Call, NEW h, call' = [call EXCEPT ![c] = h],
         h.asker # Nobody => InTurn(h)'
  PROVE  Ordered'
<1>1. call \in [Call -> Handler]
  BY DEF OnceInv, IntentTypeOK, Shapes
<1>2. \A d \in Call : call'[d] = IF d = c THEN h ELSE call[d]
  BY <1>1
<1>3. ASSUME NEW d \in Call
      PROVE  HeardInTurn(d)'
  <2>1. CASE d = c
    BY <1>2, <2>1 DEF HeardInTurn, InTurn, Held, Hand, Before
  <2>2. CASE d # c
    <3>1. PICK g : g = call[d]
      OBVIOUS
    <3>2. call'[d] = g /\ (g.asker # Nobody => InTurn(g))
      BY <1>2, <2>2, <3>1 DEF Ordered, HeardInTurn
    <3>3. g.asker # Nobody => InTurn(g)'
      BY <3>2, InTurnStill
    <3>4. QED
      BY <3>2, <3>3 DEF HeardInTurn, InTurn, Held, Hand, Before
  <2>3. QED
    BY <2>1, <2>2
<1>4. results' \subseteq Ran /\ \A p \in patches' : p.id \in Ran
  BY DEF Ordered
<1>5. QED
  BY <1>3, <1>4, NothingClaimable

LEMMA ListInTurn ==
  ASSUME OnceInv, Ordered, NEW c \in Call, List(c), UNCHANGED faults, faults = 0
  PROVE  Ordered'
<1>1. call' = [call EXCEPT ![c].at = "next", ![c].todo = Listed] /\ call[c].at = "list"
  BY DEF List, Fails
<1>2. UNCHANGED <<order, batch, patches, at, pending, claimed, results>>
  BY DEF List, blobs
<1>3. call[c] \in Handler
  BY DEF OnceInv, IntentTypeOK, Shapes
<1>4. PICK h : h = [call[c] EXCEPT !.at = "next", !.todo = Listed]
  OBVIOUS
<1>5. h.asker = call[c].asker /\ h.todo = Listed /\ h.got = call[c].got /\ h.at = "next"
  BY <1>3, <1>4 DEF Handler
<1>6. call' = [call EXCEPT ![c] = h]
  BY <1>1, <1>4
<1>7. Unclaimed' = Unclaimed /\ Ran' = Ran
  BY <1>2 DEF Unclaimed, Ran
<1>8. ASSUME h.asker # Nobody
      PROVE  InTurn(h)'
  <2>1. InTurn(call[c])
    BY <1>5, <1>8 DEF Ordered, HeardInTurn
  <2>2. Held(h) = Held(call[c]) /\ Hand(h) = {}
    BY <1>1, <1>5 DEF Held, Hand
  <2>3. Before(Listed, Unclaimed \ Listed)
    BY ListedFirst DEF OnceInv, Before, Unclaimed
  <2>4. QED
    BY <1>5, <1>7, <2>1, <2>2, <2>3 DEF InTurn, Before, Held, Hand
<1>9. QED
  BY <1>2, <1>6, <1>7, <1>8, HandlerInTurn

LEMMA FindInTurn ==
  ASSUME OnceInv, Ordered, NEW c \in Call, Find(c)
  PROVE  Ordered'
<1> DEFINE i == Oldest(call[c].todo)
<1>1. call[c] \in Handler /\ call[c].todo # {} /\ call[c].todo \subseteq Intent /\ call[c].at = "next"
  BY DEF OnceInv, IntentTypeOK, Shapes, Find, Handler
<1>2. UNCHANGED <<order, batch, patches, at, pending, claimed, results>>
  BY DEF Find, blobs
<1>3. i \in call[c].todo /\ \A k \in call[c].todo \ {i} : i < k
  <2>1. i \in call[c].todo /\ \A k \in call[c].todo : i <= k
    BY <1>1, OldestIn, OldestFirst
  <2>2. call[c].todo \subseteq Nat
    BY <1>1 DEF Intent
  <2> HIDE DEF i
  <2>3. QED
    BY <2>1, <2>2
<1>4. PICK h : h = [call[c] EXCEPT !.todo = @ \ {i}, !.id = i,
                                   !.at = IF i \in pending THEN "read" ELSE "next"]
  OBVIOUS
<1>5. call' = [call EXCEPT ![c] = h]
  BY <1>4 DEF Find
<1> HIDE DEF i
<1>6. /\ h.asker = call[c].asker /\ h.todo = call[c].todo \ {i} /\ h.got = call[c].got /\ h.id = i
      /\ h.at = IF i \in pending THEN "read" ELSE "next"
  BY <1>1, <1>4 DEF Handler
<1>7. Unclaimed' = Unclaimed /\ Ran' = Ran
  BY <1>2 DEF Unclaimed, Ran
<1>8. ASSUME h.asker # Nobody
      PROVE  InTurn(h)'
  <2>1. InTurn(call[c])
    BY <1>6, <1>8 DEF Ordered, HeardInTurn
  <2>2. /\ Held(h) = Held(call[c]) /\ Hand(call[c]) = {}
        /\ Hand(h) = IF i \in pending THEN {i} ELSE {}
    BY <1>1, <1>6 DEF Held, Hand
  <2>3. Before(Hand(h), h.todo)
    BY <1>3, <1>6, <2>2 DEF Before
  <2>4. Before(Hand(h) \cup h.todo, Unclaimed \ (Hand(h) \cup h.todo))
    <3>1. Before(call[c].todo, Unclaimed \ call[c].todo)
      BY <2>1, <2>2 DEF InTurn
    <3>2. Hand(h) \cup h.todo \subseteq call[c].todo
      BY <1>3, <1>6, <2>2
    <3>3. Unclaimed \ (Hand(h) \cup h.todo) \subseteq Unclaimed \ call[c].todo
      BY <1>6, <2>2 DEF Unclaimed
    <3>4. QED
      BY <3>1, <3>2, <3>3 DEF Before
  <2>5. InTurn(h)
    BY <2>1, <2>2, <2>3, <2>4 DEF InTurn
  <2>6. QED
    BY <1>2, <1>7, <2>5, InTurnStill
<1>9. QED
  BY <1>2, <1>5, <1>7, <1>8, HandlerInTurn

\* A handler that ends hands out nothing.
LEMMA ThrowsInTurn ==
  ASSUME OnceInv, Ordered, NEW c \in Call, Throws(c),
         UNCHANGED <<order, batch, patches, pending, claimed, results>>
  PROVE  Ordered'
<1>1. call \in [Call -> Handler] /\ Free.asker = Nobody
  BY DEF OnceInv, IntentTypeOK, Shapes, Free
<1>2. \A w \in Worker : at'[w] = "busy" => at[w] = "busy"
  BY DEF Throws
<1>3. ASSUME NEW d \in Call
      PROVE  HeardInTurn(d)'
  <2>1. CASE d = c
    BY <1>1, <2>1 DEF Throws, HeardInTurn
  <2>2. CASE d # c
    BY <1>1, <2>2 DEF Throws, Ordered, HeardInTurn, InTurn, Before, Held, Hand, Ran, Unclaimed
  <2>3. QED
    BY <2>1, <2>2
<1>4. QED
  BY <1>2, <1>3, NothingClaimable DEF Ordered, Unclaimed

LEMMA ReadInTurn ==
  ASSUME OnceInv, Ordered, NEW c \in Call, Read(c)
  PROVE  Ordered'
<1>1. UNCHANGED <<order, batch, patches, pending, claimed, results>>
  BY DEF Read, blobs
<1>2. CASE Throws(c)
  BY <1>1, <1>2, ThrowsInTurn
<1>3. CASE call' = [call EXCEPT ![c].at = "put"] /\ UNCHANGED at
  <2>1. call[c] \in Handler /\ call[c].at = "read"
    BY DEF OnceInv, IntentTypeOK, Shapes, Read
  <2>2. PICK h : h = [call[c] EXCEPT !.at = "put"]
    OBVIOUS
  <2>3. call' = [call EXCEPT ![c] = h]
    BY <1>3, <2>2
  <2>4. h.asker = call[c].asker /\ h.todo = call[c].todo /\ h.got = call[c].got /\ h.id = call[c].id /\ h.at = "put"
    BY <2>1, <2>2 DEF Handler
  <2>5. h.asker # Nobody => InTurn(h)
    BY <2>1, <2>4 DEF Ordered, HeardInTurn, InTurn, Held, Hand
  <2>6. Unclaimed' = Unclaimed
    BY <1>1 DEF Unclaimed
  <2>7. h.asker # Nobody => InTurn(h)'
    BY <1>1, <2>5, <2>6, InTurnStill
  <2>8. QED
    BY <1>1, <1>3, <2>3, <2>6, <2>7, HandlerInTurn
<1>4. QED
  BY <1>2, <1>3 DEF Read

\* Whoever is heard and about to claim has in hand an intent nobody has run; if nobody has
\* claimed it either, it is still pending.
LEMMA PutInTurn ==
  ASSUME OnceInv, Ordered, ForgetInv, NEW c \in Call, Put(c), UNCHANGED faults, faults = 0
  PROVE  Ordered'
<1>1. call[c] \in Handler /\ call[c].at = "put" /\ call[c].id \in Intent
  BY DEF OnceInv, IntentTypeOK, Shapes, Put
<1>2. UNCHANGED <<order, batch, patches, at, pending, results>>
  BY DEF Put
<1>3. \/ call[c].id \notin claimed /\ claimed' = claimed \cup {call[c].id} /\ call' = [call EXCEPT ![c].at = "del"]
      \/ call[c].id \in claimed /\ claimed' = claimed /\ call' = [call EXCEPT ![c].at = "next"]
  BY DEF Put, Skip, Fails
<1>4. PICK to \in {"del", "next"} :
        /\ call' = [call EXCEPT ![c].at = to]
        /\ to = "del" => call[c].id \notin claimed /\ claimed' = claimed \cup {call[c].id}
        /\ to = "next" => call[c].id \in claimed /\ claimed' = claimed
  BY <1>3
<1>5. PICK h : h = [call[c] EXCEPT !.at = to]
  OBVIOUS
<1>6. call' = [call EXCEPT ![c] = h]
  BY <1>4, <1>5
<1>7. h.asker = call[c].asker /\ h.todo = call[c].todo /\ h.got = call[c].got /\ h.id = call[c].id /\ h.at = to
  BY <1>1, <1>5 DEF Handler
<1>8. Unclaimed' = Unclaimed \ {call[c].id} /\ Ran' = Ran
  BY <1>2, <1>4 DEF Unclaimed, Ran
<1>9. ASSUME h.asker # Nobody
      PROVE  InTurn(h)'
  <2>1. InTurn(call[c]) /\ FreshHandler(c)
    BY <1>7, <1>9 DEF Ordered, HeardInTurn, OnceInv
  <2>2. /\ Held(call[c]) = call[c].got /\ Hand(call[c]) = {call[c].id} /\ Hand(h) = {}
        /\ Held(h) = IF to = "del" THEN call[c].got \cup {call[c].id} ELSE call[c].got
    BY <1>1, <1>4, <1>7 DEF Held, Hand
  <2>3. to = "del" => call[c].id \in Unclaimed
    <3>1. call[c].id \in 1 .. posted /\ call[c].id \notin Ran
      BY <1>1, <1>7, <1>9, <2>1 DEF FreshHandler, Intent, OnceInv, IntentTypeOK, Shapes
    <3>2. call[c].id \in pending \cup claimed
      BY <3>1 DEF ForgetInv, NothingIsForgotten, Ordered
    <3>3. QED
      BY <1>4, <3>2 DEF Unclaimed
  <2>4. Before(Ran, Held(h))
    BY <2>1, <2>2, <2>3 DEF InTurn, Ordered, Before
  <2>5. Before({call[c].id}, Unclaimed \ {call[c].id})
    BY <2>1, <2>2 DEF InTurn, Before
  <2>6. Before(Held(h), Unclaimed \ {call[c].id})
    BY <2>1, <2>2, <2>5 DEF InTurn, Before
  <2>7. Before(h.todo, (Unclaimed \ {call[c].id}) \ h.todo)
    BY <1>7, <2>1, <2>2 DEF InTurn, Before
  <2>8. QED
    BY <1>8, <2>2, <2>4, <2>6, <2>7 DEF InTurn, Before, Held, Hand
<1>10. QED
  BY <1>2, <1>6, <1>8, <1>9, HandlerInTurn

LEMMA DeletePendingInTurn ==
  ASSUME OnceInv, Ordered, NEW c \in Call, DeletePending(c)
  PROVE  Ordered'
<1>1. call[c] \in Handler /\ call[c].at = "del"
  BY DEF OnceInv, IntentTypeOK, Shapes, DeletePending
<1>2. UNCHANGED <<order, batch, patches, at, claimed, results>> /\ pending' \subseteq pending
  BY DEF DeletePending
<1>3. PICK h : h = [call[c] EXCEPT !.at = "next", !.got = @ \cup {call[c].id}]
  OBVIOUS
<1>4. call' = [call EXCEPT ![c] = h]
  BY <1>3 DEF DeletePending
<1>5. /\ h.asker = call[c].asker /\ h.todo = call[c].todo /\ h.got = call[c].got \cup {call[c].id}
      /\ h.at = "next"
  BY <1>1, <1>3 DEF Handler
<1>6. h.asker # Nobody => InTurn(h)
  BY <1>1, <1>5 DEF Ordered, HeardInTurn, InTurn, Held, Hand
<1>7. Unclaimed' \subseteq Unclaimed
  BY <1>2 DEF Unclaimed
<1>8. h.asker # Nobody => InTurn(h)'
  BY <1>2, <1>6, <1>7, InTurnStill
<1>9. QED
  BY <1>2, <1>4, <1>7, <1>8, HandlerInTurn

LEMMA AnswerInTurn ==
  ASSUME OnceInv, Ordered, NEW c \in Call, Answer(c)
  PROVE  Ordered'
<1>1. call \in [Call -> Handler] /\ Free.asker = Nobody /\ call[c].at = "next"
  BY DEF OnceInv, IntentTypeOK, Shapes, Free, Answer
<1>2. UNCHANGED <<order, patches, pending, claimed, results>> /\ Ran' = Ran /\ Unclaimed' = Unclaimed
  BY DEF Answer, blobs, Ran, Unclaimed
<1>3. \A d \in Call : call'[d] = IF d = c THEN Free ELSE call[d]
  BY <1>1 DEF Answer
<1>4. ASSUME NEW d \in Call
      PROVE  HeardInTurn(d)'
  BY <1>1, <1>2, <1>3 DEF Ordered, HeardInTurn, InTurn, Before, Held, Hand
<1>5. ASSUME NEW w \in Worker
      PROVE  BatchInTurn(w)'
  <2>1. CASE call[c].asker = w
    <3>1. w # Nobody /\ batch'[w] = call[c].got /\ at'[w] = "run"
      BY <2>1, IntentAssumption DEF Answer, IntentAssumption
    <3>2. Before(Ran, call[c].got) /\ Before(call[c].got, Unclaimed)
      BY <1>1, <2>1, <3>1 DEF Ordered, HeardInTurn, InTurn, Held, Before
    <3>3. Ran \subseteq Nat /\ call[c].got \subseteq Nat
      BY <1>1 DEF OnceInv, IntentTypeOK, Shapes, Handler, Intent
    <3>4. \A i \in Ran, k \in call[c].got : i <= k
      BY <3>2, <3>3 DEF Before
    <3>5. QED
      BY <1>2, <3>1, <3>2, <3>4 DEF BatchInTurn
  <2>2. CASE call[c].asker # w
    <3>1. batch'[w] = batch[w] /\ at'[w] = at[w]
      BY <2>2 DEF Answer
    <3>2. QED
      BY <1>2, <3>1 DEF Ordered, BatchInTurn, Before
  <2>3. QED
    BY <2>1, <2>2
<1>6. QED
  BY <1>2, <1>4, <1>5 DEF Ordered, Before

\* A new request is younger than everything.
LEMMA PostInTurn ==
  ASSUME OnceInv, Ordered, Post
  PROVE  Ordered'
<1>1. posted \in Nat /\ pending' = pending \cup {posted + 1}
  BY DEF Post, OnceInv, IntentTypeOK, Shapes
<1>2. UNCHANGED <<order, patches, claimed, results, call, at, batch>> /\ Ran' = Ran
  BY DEF Post, Ran
<1>3. Unclaimed' \subseteq Unclaimed \cup {posted + 1}
  BY <1>1, <1>2 DEF Unclaimed
<1>4. \A S : S \subseteq 0 .. posted => Before(S, {posted + 1})
  BY <1>1 DEF Before
<1>5. Ran \subseteq 0 .. posted /\ \A w \in Worker : batch[w] \subseteq 0 .. posted
  BY <1>1 DEF OnceInv, FreshBatch
<1>6. ASSUME NEW c \in Call, call[c].asker # Nobody
      PROVE  Held(call[c]) \cup Hand(call[c]) \cup call[c].todo \subseteq 0 .. posted
  BY <1>6 DEF OnceInv, FreshHandler, Held, Hand
<1>7. ASSUME NEW c \in Call
      PROVE  HeardInTurn(c)'
  <2>1. PICK h : h = call[c]
    OBVIOUS
  <2>2. SUFFICES ASSUME h.asker # Nobody
                 PROVE  InTurn(h)'
    BY <1>2, <2>1 DEF HeardInTurn, InTurn, Before, Held, Hand
  <2>3. InTurn(h) /\ Held(h) \cup Hand(h) \cup h.todo \subseteq 0 .. posted
    BY <1>6, <2>1, <2>2 DEF Ordered, HeardInTurn
  <2>4. Before(Held(h), {posted + 1}) /\ Before(Hand(h) \cup h.todo, {posted + 1})
    BY <1>4, <2>3
  <2>5. Before(Held(h), Unclaimed')
    BY <1>3, <2>3, <2>4 DEF InTurn, Before
  <2>6. Before(Hand(h) \cup h.todo, Unclaimed' \ (Hand(h) \cup h.todo))
    BY <1>3, <2>3, <2>4 DEF InTurn, Before
  <2>7. QED
    BY <1>2, <2>3, <2>5, <2>6 DEF InTurn, Before, Held, Hand
<1>8. ASSUME NEW w \in Worker
      PROVE  BatchInTurn(w)'
  <2>1. Before(batch[w], {posted + 1})
    BY <1>4, <1>5
  <2>2. Before(batch[w], Unclaimed')
    BY <1>3, <2>1 DEF Ordered, BatchInTurn, Before
  <2>3. QED
    BY <1>2, <2>2 DEF Ordered, BatchInTurn, Before
<1>9. Before(Ran, Unclaimed')
  BY <1>3, <1>4, <1>5 DEF Ordered, Before
<1>10. QED
  BY <1>2, <1>7, <1>8, <1>9 DEF Ordered, Before

LEMMA RequestInTurn ==
  ASSUME OnceInv, Ordered, NEW w \in Worker, NEW c \in Call, Request(w, c)
  PROVE  Ordered'
<1>1. call \in [Call -> Handler] /\ at \in [Worker -> Place]
  BY DEF OnceInv, IntentTypeOK, Shapes
<1>2. PICK h : h = [Free EXCEPT !.at = "list", !.asker = w]
  OBVIOUS
<1>3. h.got = {} /\ h.todo = {} /\ h.at = "list"
  BY <1>2 DEF Free
<1>4. call' = [call EXCEPT ![c] = h] /\ at' = [at EXCEPT ![w] = "waiting"]
  BY <1>2 DEF Request
<1>5. UNCHANGED <<order, patches, pending, claimed, results, batch>>
  BY DEF Request, blobs
<1>6. ASSUME NEW d \in Call
      PROVE  HeardInTurn(d)'
  <2>1. CASE d = c
    BY <1>1, <1>3, <1>4, <2>1 DEF HeardInTurn, InTurn, Held, Hand, Before
  <2>2. CASE d # c
    <3>1. PICK g : g = call[d]
      OBVIOUS
    <3>2. call'[d] = g /\ (g.asker # Nobody => InTurn(g))
      BY <1>1, <1>4, <2>2, <3>1 DEF Ordered, HeardInTurn
    <3>3. g.asker # Nobody => InTurn(g)'
      BY <1>5, <3>2, InTurnStill DEF Unclaimed
    <3>4. QED
      BY <3>2, <3>3 DEF HeardInTurn, InTurn, Held, Hand, Before
  <2>3. QED
    BY <2>1, <2>2
<1>7. \A v \in Worker : at'[v] = "busy" => at[v] = "busy"
  BY <1>1, <1>4
<1>8. QED
  BY <1>5, <1>6, <1>7, NothingClaimable DEF Ordered, Unclaimed

LEMMA GiveUpInTurn ==
  ASSUME OnceInv, Ordered, NEW w \in Worker, NEW c \in Call, GiveUp(w, c)
  PROVE  Ordered'
<1>1. call \in [Call -> Handler] /\ at \in [Worker -> Place] /\ call[c] \in Handler
  BY DEF OnceInv, IntentTypeOK, Shapes
<1>2. PICK h : h = [call[c] EXCEPT !.asker = Nobody]
  OBVIOUS
<1>3. h.asker = Nobody
  BY <1>1, <1>2 DEF Handler
<1>4. call' = [call EXCEPT ![c] = h] /\ at' = [at EXCEPT ![w] = "idle"]
  BY <1>2 DEF GiveUp
<1>5. UNCHANGED <<order, patches, pending, claimed, results, batch>>
  BY DEF GiveUp, blobs
<1>6. ASSUME NEW d \in Call
      PROVE  HeardInTurn(d)'
  <2>1. CASE d = c
    BY <1>1, <1>3, <1>4, <2>1 DEF HeardInTurn
  <2>2. CASE d # c
    BY <1>1, <1>4, <1>5, <2>2 DEF Ordered, HeardInTurn, InTurn, Before, Held, Hand, Ran, Unclaimed
  <2>3. QED
    BY <2>1, <2>2
<1>7. \A v \in Worker : at'[v] = "busy" => at[v] = "busy"
  BY <1>1, <1>4
<1>8. QED
  BY <1>5, <1>6, <1>7, NothingClaimable DEF Ordered, Unclaimed

LEMMA KillInTurn ==
  ASSUME OnceInv, Ordered, NEW w \in Worker, Kill(w)
  PROVE  Ordered'
<1>1. at \in [Worker -> Place] /\ batch \in [Worker -> SUBSET Intent] /\ w # Nobody
  BY IntentAssumption DEF IntentAssumption, OnceInv, IntentTypeOK, Shapes
<1>2. UNCHANGED <<order, patches, pending, claimed, results>> /\ Ran' = Ran /\ Unclaimed' = Unclaimed
  BY DEF Kill, blobs, Ran, Unclaimed
<1>3. ASSUME NEW d \in Call
      PROVE  HeardInTurn(d)'
  <2>1. call[d] \in Handler
    BY DEF OnceInv, IntentTypeOK, Shapes
  <2>2. CASE call[d].asker = w
    <3>1. call'[d].asker = Nobody
      BY <2>1, <2>2 DEF Kill, Handler
    <3>2. QED
      BY <3>1 DEF HeardInTurn
  <2>3. CASE call[d].asker # w
    <3>1. call'[d] = call[d]
      BY <2>3 DEF Kill
    <3>2. QED
      BY <1>2, <3>1 DEF Ordered, HeardInTurn, InTurn, Before, Held, Hand
  <2>4. QED
    BY <2>2, <2>3
<1>4. ASSUME NEW v \in Worker
      PROVE  BatchInTurn(v)'
  <2>1. CASE v = w
    BY <1>1, <2>1 DEF Kill, BatchInTurn, Before
  <2>2. CASE v # w
    <3>1. batch'[v] = batch[v] /\ at'[v] = at[v]
      BY <1>1, <2>2 DEF Kill
    <3>2. QED
      BY <1>2, <3>1 DEF Ordered, BatchInTurn, Before
  <2>3. QED
    BY <2>1, <2>2
<1>5. QED
  BY <1>2, <1>3, <1>4 DEF Ordered, Before

\* What the worker runs is not older than anything that was run, and nothing that can still
\* be claimed is older than it.
LEMMA ExecuteInTurn ==
  ASSUME OneWorker, OnceInv, Ordered, NEW w \in Worker, Execute(w)
  PROVE  Ordered'
<1>1. /\ at \in [Worker -> Place] /\ batch \in [Worker -> SUBSET Intent]
      /\ order \in Seq(Intent) /\ call \in [Call -> Handler]
  BY DEF OnceInv, IntentTypeOK, Shapes
<1>2. PICK i : i = Oldest(batch[w])
  OBVIOUS
<1>3. i \in batch[w] /\ i \in Nat /\ i \in Intent /\ \A k \in batch[w] : i <= k
  BY <1>1, <1>2, OldestIn, OldestFirst DEF Execute, Intent
<1>4. /\ order' = Append(order, i) /\ UNCHANGED <<patches, pending, claimed, results, call, batch>>
      /\ at' = [at EXCEPT ![w] = "busy"]
  BY <1>2 DEF Execute, blobs
<1>5. /\ DOMAIN order' = DOMAIN order \cup {Len(order) + 1} /\ order'[Len(order) + 1] = i
      /\ \A k \in DOMAIN order : order'[k] = order[k] /\ k < Len(order) + 1 /\ k \in Nat
      /\ Len(order) \in Nat
  BY <1>1, <1>3, <1>4
<1>6. Ran' = Ran \cup {i} /\ Unclaimed' = Unclaimed
  BY <1>4, <1>5 DEF Ran, Unclaimed
<1>7. \A k \in Ran : k <= i
  BY <1>3 DEF Ordered, BatchInTurn
<1>8. \A k, l \in DOMAIN order' : k < l => order'[k] <= order'[l]
  <2>1. SUFFICES ASSUME NEW k \in DOMAIN order', NEW l \in DOMAIN order', k < l
                 PROVE  order'[k] <= order'[l]
    OBVIOUS
  <2>2. CASE l \in DOMAIN order
    <3>1. k \in DOMAIN order
      BY <1>5, <2>1, <2>2
    <3>2. QED
      BY <1>5, <2>1, <2>2, <3>1 DEF Ordered
  <2>3. CASE l = Len(order) + 1
    <3>1. k \in DOMAIN order
      BY <1>5, <2>1, <2>3
    <3>2. order[k] \in Ran
      BY <3>1 DEF Ran
    <3>3. QED
      BY <1>5, <1>7, <2>3, <3>1, <3>2
  <2>4. QED
    BY <1>5, <2>2, <2>3
<1>9. \A d \in Call : HeardInTurn(d)'
  <2>1. \A d \in Call : call[d].asker # w
    BY DEF Execute, OnceInv, IntentTypeOK, Wiring
  <2>2. \A d \in Call : call[d].asker = Nobody
    BY <1>1, <2>1 DEF Handler, OneWorker
  <2>3. QED
    BY <1>4, <2>2 DEF HeardInTurn
<1>10. BatchInTurn(w)'
  <2>1. \A k \in Ran', l \in batch[w] : k <= l
    BY <1>3, <1>6 DEF Ordered, BatchInTurn
  <2>2. QED
    BY <1>2, <1>4, <1>6, <2>1 DEF Ordered, BatchInTurn, Before, Oldest
<1>11. Before(Ran, Unclaimed)'
  BY <1>3, <1>6 DEF Ordered, BatchInTurn, Before
<1>12. QED
  BY <1>4, <1>6, <1>8, <1>9, <1>10, <1>11 DEF Ordered, OneWorker

LEMMA BatchStepInTurn ==
  ASSUME OneWorker, OnceInv, Ordered, NEW w \in Worker, BatchStep(w)
  PROVE  Ordered'
<1>1. at \in [Worker -> Place] /\ batch \in [Worker -> SUBSET Intent]
  BY DEF OnceInv, IntentTypeOK, Shapes
<1>2. CASE Execute(w)
  BY <1>2, ExecuteInTurn
<1>3. CASE Send(w)
  <2>1. PICK i : i = Oldest(batch[w])
    OBVIOUS
  <2>2. i \in Ran
    BY <1>3, <2>1 DEF Send, Ordered, BatchInTurn
  <2>3. /\ batch' = [batch EXCEPT ![w] = @ \ {i}]
        /\ patches' = patches \cup {[by |-> w, id |-> i, at |-> "put"]}
        /\ at' = [at EXCEPT ![w] = "report"]
        /\ UNCHANGED <<order, pending, claimed, results, call>>
    BY <1>3, <2>1 DEF Send, blobs
  <2>4. Ran' = Ran /\ Unclaimed' = Unclaimed
    BY <2>3 DEF Ran, Unclaimed
  <2>5. \A p \in patches' : p.id \in Ran
    BY <2>2, <2>3 DEF Ordered
  <2>6. \A c \in Call : HeardInTurn(c)'
    BY <2>3, <2>4 DEF Ordered, HeardInTurn, InTurn, Before, Held, Hand
  <2>7. BatchInTurn(w)'
    BY <1>1, <2>3, <2>4 DEF Ordered, BatchInTurn, Before
  <2>8. QED
    BY <2>3, <2>4, <2>5, <2>6, <2>7 DEF Ordered, OneWorker, Before
<1>4. CASE BatchDone(w) \/ Reported(w)
  <2>1. UNCHANGED <<order, patches, pending, claimed, results, call, batch>>
    BY <1>4 DEF BatchDone, Reported, blobs
  <2>2. \A v \in Worker : at'[v] = "busy" => at[v] = "busy"
    BY <1>1, <1>4 DEF BatchDone, Reported
  <2>3. \A c \in Call : HeardInTurn(c)'
    BY <2>1 DEF Ordered, HeardInTurn, InTurn, Before, Held, Hand, Ran, Unclaimed
  <2>4. QED
    BY <2>1, <2>2, <2>3, NothingClaimable DEF Ordered, Unclaimed
<1>5. QED
  BY <1>2, <1>3, <1>4 DEF BatchStep

\* Only what was run is reported, and what was run is not pending.
LEMMA PatchInTurn ==
  ASSUME OnceInv, Ordered, PatchStep
  PROVE  Ordered'
<1>1. PICK p \in patches : PutResult(p) \/ DeleteClaimed(p)
  BY DEF PatchStep
<1>2. p \in Patch /\ p.id \in Ran /\ p.id \notin pending
  BY DEF OnceInv, IntentTypeOK, Shapes, Ordered
<1>3. PICK q : q = [p EXCEPT !.at = "del"]
  OBVIOUS
<1>4. q.id = p.id
  BY <1>2, <1>3 DEF Patch
<1>5. UNCHANGED <<order, pending, call, at, batch>> /\ patches' \subseteq patches \cup {q}
  BY <1>1, <1>3 DEF PutResult, DeleteClaimed
<1>6. results' \subseteq results \cup {p.id} /\ (claimed' = claimed \/ claimed' = claimed \ {p.id})
  BY <1>1 DEF PutResult, DeleteClaimed
<1>7. Unclaimed' = Unclaimed /\ Ran' = Ran
  BY <1>2, <1>5, <1>6 DEF Unclaimed, Ran
<1>8. \A c \in Call : HeardInTurn(c)'
  BY <1>5, <1>7 DEF Ordered, HeardInTurn, InTurn, Before, Held, Hand
<1>9. results' \subseteq Ran /\ \A r \in patches' : r.id \in Ran
  BY <1>2, <1>4, <1>5, <1>6 DEF Ordered
<1>10. QED
  BY <1>5, <1>7, <1>8, <1>9, NothingClaimable

\* With one polling worker, as deployed, intents are run in the order they were posted,
\* however many requests are given up while their handlers go on and however many workers
\* are killed, as long as no blob operation fails (intent-worker.mjs, executeBatch: "The
\* founder issued them in an order; honour it.").
THEOREM RunsInOrder ==
  ASSUME OneWorker
  PROVE  Spec => []InOrder
<1>1. Init => OrderInv
  <2> SUFFICES ASSUME Init PROVE OrderInv
    OBVIOUS
  <2>1. Free.asker = Nobody /\ Ran = {}
    BY DEF Init, Free, Ran
  <2>2. OnceInv
    BY <2>1, InitTyped DEF Init, OnceInv, AtMostOnce, FreshHandler, FreshBatch
  <2>3. Ordered
    BY <2>1 DEF Init, Ordered, Before, HeardInTurn, BatchInTurn
  <2>4. QED
    BY <2>2, <2>3, ForgetInit DEF OrderInv
<1>2. OrderInv /\ [Next]_vars => OrderInv'
  <2> SUFFICES ASSUME OrderInv, [Next]_vars PROVE OrderInv'
    OBVIOUS
  <2>1. ForgetInv /\ ForgetInv'
    BY ForgetStep DEF OrderInv
  <2>2. SUFFICES ASSUME faults' = 0
                 PROVE  OnceInv' /\ Ordered'
    BY <2>1 DEF OrderInv
  <2>3. faults \in Nat
    BY <2>1, IntentAssumption DEF ForgetInv, IntentTypeOK, Shapes, IntentAssumption
  <2>4. \A what : ~Fails(what)
    BY <2>2, <2>3 DEF Fails
  <2>5. faults = 0
    BY <2>2, <2>4 DEF Next, vars, blobs, Post, PatchStep, PutResult, DeleteClaimed, HandlerStep, List, Find,
       Read, Put, DeletePending, Answer, HandlerDies, Polls, Request, BatchStep, Execute, Send, BatchDone,
       Reported, Kill, GiveUp, Works
  <2>6. OnceInv /\ Ordered
    BY <2>5 DEF OrderInv
  <2>7. \A c \in Call : DeletePending(c) => pending' = pending \ {call[c].id}
    BY <2>4 DEF DeletePending
  <2>8. OnceInv'
    BY <2>6, <2>7, OnceStep
  <2>9. CASE UNCHANGED vars
    <3>1. UNCHANGED <<order, batch, at, call, patches, pending, claimed, results>>
      BY <2>9 DEF vars, blobs
    <3>2. \A c \in Call : HeardInTurn(c)'
      BY <2>6, <3>1 DEF Ordered, HeardInTurn, InTurn, Before, Held, Hand, Ran, Unclaimed
    <3>3. QED
      BY <2>6, <2>8, <3>1, <3>2, NothingClaimable DEF Ordered, Unclaimed
  <2>10. ASSUME NEW c \in Call, HandlerStep(c) \/ HandlerDies(c)
         PROVE  Ordered'
    <3>1. ~HandlerDies(c)
      BY <2>4 DEF HandlerDies
    <3>2. UNCHANGED faults
      BY <2>2, <2>5
    <3>3. QED
      BY <2>1, <2>5, <2>6, <2>10, <3>1, <3>2, ListInTurn, FindInTurn, ReadInTurn, PutInTurn,
         DeletePendingInTurn, AnswerInTurn DEF HandlerStep
  <2>11. QED
    BY <2>6, <2>8, <2>9, <2>10, PostInTurn, PatchInTurn, RequestInTurn, GiveUpInTurn, BatchStepInTurn,
       KillInTurn DEF Next, Polls
<1>3. OrderInv => InOrder
  BY DEF OrderInv, Ordered, InOrder
<1>4. QED
  BY <1>1, <1>2, <1>3, PTL DEF Spec

=============================================================================
