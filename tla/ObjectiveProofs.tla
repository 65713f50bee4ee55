---------------------------- MODULE ObjectiveProofs ----------------------------
(***************************************************************************)
(* What an objective never does, for any graph, any number of calls of     *)
(* runObjective in the dashboard, any restarts, and any founder.  The      *)
(* hypothesis is AllInDashboard: a second process that drives the same     *)
(* objective overwrites the first one's stamp, and the reconciler then no  *)
(* longer keeps away (README).                                             *)
(*                                                                         *)
(* No lock keeps two runs from one node.  What does is that a run reads    *)
(* the ready list and launches from it in one turn of its process (Listed),*)
(* that a node in flight reads running to everybody else (Flights), and    *)
(* that the reconciler, which may take a running node back, stays away     *)
(* while the objective carries the stamp of a living process (Stamped).    *)
(***************************************************************************)
EXTENDS ObjectiveConsole, TLAPS

AllInDashboard == \A d \in Driver : ProcessOf[d] = Dashboard

-----------------------------------------------------------------------------
(* The invariant *)

Done(n) == \A m \in DependsOn[n] : Satisfied(m)

\* One call at most is between two of its awaits.
OneTurn == \A d, e \in Driver : d # e => Awaiting(d) \/ Awaiting(e)

\* Whoever drives the objective is stamped on it.
Stamped == \A d \in Driver : pc[d] # "idle" => runner = Dashboard

\* A node in flight reads running and is in one flight only.
Flying(d, n) ==
  /\ node[n] = "running"
  /\ pc[d] \in {"launch", "await", "loop", "drain"}
  /\ flight[d][n] # "work" => pc[d] = "launch"
  /\ flight[d][n] = "work" => n \in linked /\ n \notin stale
  /\ flight[d][n] = "made" => task[n] # "absent"
  /\ flight[d][n] = "setup" => n \in linked \/ task[n] = "absent"
  /\ \A e \in Driver : flight[e][n] # "none" => d = e

Flights == \A d \in Driver, n \in Node : flight[d][n] # "none" => Flying(d, n)

\* What a call is about to launch, nobody has launched.
Listed ==
  \A d \in Driver : pc[d] = "launch" =>
    \A n \in list[d] : node[n] \in {"pending", "blocked-by-dep"} /\ Done(n)

\* A node that was ever launched stands on nodes that are done.
Grounded == \A n \in Node : node[n] \notin {"pending", "blocked-by-dep"} => Done(n)

\* So does the integration, and whoever is about to start it.
Topped ==
  /\ node[Integ] # "pending" \/ status = "complete" => BuildNodesComplete
  /\ \A d \in Driver : pc[d] \in {"integrate", "patch", "merge"} => BuildNodesComplete

\* A part's record, its task and its blocker agree.
Links ==
  /\ \A n \in linked : task[n] # "absent"
  /\ \A n \in Node \ linked : task[n] # "absent" => node[n] = "running"
  /\ Integ \notin linked => node[Integ] = "pending"
  /\ \A n \in Part : Stopped(n) /\ task[n] = "absent" => blocker[n] = "decision"
  /\ \A d \in Driver :
       /\ pc[d] = "patch" => task[Integ] # "absent"
       /\ pc[d] = "merge" => Integ \in linked

ObjInv ==
  /\ TypeOK
  /\ OneTurn
  /\ Stamped
  /\ Flights
  /\ Listed
  /\ Grounded
  /\ Topped
  /\ Links
  /\ StoppedHasCause

\* What reached its gate stays there.
Kept == \A n \in Node : Satisfied(n) => Satisfied(n)'

-----------------------------------------------------------------------------
(* The graph and the helpers *)

LEMMA GraphFacts ==
  /\ Integ \notin Node /\ DependsOn \in [Node -> SUBSET Node]
  /\ MaxStarts \in Nat /\ MaxRetries \in Nat /\ MaxPeriodic \in Nat /\ MaxKills \in Nat
  /\ TaskOutcome \subseteq {"yielded", "infra", "decision", "hard", "merge-ready"}
  /\ Part = Node \cup {Integ}
BY ObjectiveAssumption DEF ObjectiveAssumption, Part

LEMMA InitHolds ==
  ASSUME Init
  PROVE  ObjInv
<1>1. TypeOK
  <2>1. count \in [starts : 0 .. MaxStarts, kills : 0 .. MaxKills, periodic : 0 .. MaxPeriodic,
                    retries : [Part -> 0 .. MaxRetries]]
    BY GraphFacts DEF Init
  <2>2. /\ node \in [Part -> Stage]
        /\ blocker \in [Part -> {"none", "infra", "decision", "hard", "publish"}]
        /\ task \in [Part -> {"absent", "active", "yielded", "infra", "decision", "hard", "merge-ready"}]
    BY DEF Init, Stage
  <2>3. /\ pc \in [Driver -> Place] /\ saw \in [Driver -> BOOLEAN]
        /\ flight \in [Driver -> [Node -> {"none", "setup", "made", "work"}]]
        /\ list \in [Driver -> SUBSET Node]
    BY DEF Init, Place
  <2>4. QED
    BY <2>1, <2>2, <2>3 DEF Init, TypeOK, Status
<1>2. OneTurn /\ Stamped /\ Flights /\ Listed
  BY DEF Init, OneTurn, Awaiting, Stamped, Flights, Flying, Listed
<1>3. Grounded /\ Topped /\ Links
  BY GraphFacts DEF Init, Grounded, Topped, Links, Stopped
<1>4. StoppedHasCause
  BY GraphFacts DEF Init, StoppedHasCause, Stopped
<1>5. QED
  BY <1>1, <1>2, <1>3, <1>4 DEF ObjInv

\* A node gets the status `to' and at most what waits for it changes with it.
LEMMA BlockFields ==
  ASSUME TypeOK, NEW n \in Node, NEW to, NEW why, Block(n, to, why), to # "pending"
  PROVE  /\ node'[n] = to
         /\ \A m \in Part \ {n} : node'[m] = node[m] \/ (m \in Node /\ node[m] = "pending" /\ node'[m] = "blocked-by-dep")
         /\ blocker'[n] = why
         /\ \A m \in Part \ {n} : blocker'[m] = blocker[m]
         /\ DOMAIN node' = Part /\ DOMAIN blocker' = Part
<1> DEFINE before == [node EXCEPT ![n] = to]
<1>1. before[n] = to /\ \A m \in Part \ {n} : before[m] = node[m]
  BY GraphFacts DEF TypeOK
<1> HIDE DEF before
<1>2. node' = [m \in Part |-> IF m \in Node /\ m \in Below[n] /\ before[m] = "pending"
                              THEN "blocked-by-dep" ELSE before[m]]
  BY DEF Block, StopBelow, before
<1>3. n \in Part
  BY GraphFacts
<1>4. QED
  BY <1>1, <1>2, <1>3 DEF Block, TypeOK

\* Whoever may take a turn leaves it with everybody else awaiting.
LEMMA TurnTaken ==
  ASSUME AllInDashboard, TypeOK, NEW d \in Driver, Turn(d),
         \A e \in Driver \ {d} : pc'[e] = pc[e] /\ flight'[e] = flight[e]
  PROVE  OneTurn'
BY DEF AllInDashboard, Turn, OneTurn, Awaiting

-----------------------------------------------------------------------------
(* Steps that leave the graph alone *)

\* A call goes from one place to another.
LEMMA MoveKeeps ==
  ASSUME AllInDashboard, ObjInv, TypeOK', NEW d \in Driver, Turn(d),
         UNCHANGED <<node, blocker, linked, task, stale, flight>>,
         \A e \in Driver \ {d} : pc'[e] = pc[e] /\ list'[e] = list[e],
         pc[d] # "idle",
         runner' = runner \/ (\A e \in Driver : pc'[e] = "idle"),
         InFlight(d) # {} => pc'[d] \in {"launch", "await", "loop", "drain"},
         \A n \in Node : flight[d][n] \in {"none", "work"},
         pc'[d] = "launch" => list'[d] \subseteq ReadyNodes,
         pc'[d] \notin {"patch", "merge"}, pc'[d] = "integrate" => BuildNodesComplete,
         status' = "complete" => BuildNodesComplete
  PROVE  ObjInv' /\ Kept
<1>1. OneTurn'
  BY TurnTaken DEF ObjInv
<1>2. Stamped'
  BY DEF ObjInv, Stamped
<1>3. Flights'
  <2>1. SUFFICES ASSUME NEW e \in Driver, NEW n \in Node, flight[e][n] # "none"
                 PROVE  Flying(e, n)'
    BY DEF Flights
  <2>2. Flying(e, n)
    BY <2>1 DEF ObjInv, Flights
  <2>3. CASE e = d
    <3>1. flight[d][n] = "work" /\ pc'[d] \in {"launch", "await", "loop", "drain"}
      BY <2>1, <2>3 DEF InFlight
    <3>2. QED
      BY <2>2, <2>3, <3>1 DEF Flying
  <2>4. CASE e # d
    BY <2>2, <2>4 DEF Flying
  <2>5. QED
    BY <2>3, <2>4
<1>4. Listed'
  <2>1. SUFFICES ASSUME NEW e \in Driver, pc'[e] = "launch", NEW n \in list'[e]
                 PROVE  node[n] \in {"pending", "blocked-by-dep"} /\ Done(n)
    BY DEF Listed, Done, Satisfied
  <2>2. CASE e = d
    BY <2>1, <2>2 DEF ReadyNodes, Done
  <2>3. CASE e # d
    BY <2>1, <2>3 DEF ObjInv, Listed
  <2>4. QED
    BY <2>2, <2>3
<1>5. Grounded' /\ Links' /\ StoppedHasCause' /\ Kept
  BY DEF ObjInv, Grounded, Done, Satisfied, Links, Stopped, StoppedHasCause, Kept
<1>6. Topped'
  BY DEF ObjInv, Topped, BuildNodesComplete, Satisfied
<1>7. QED
  BY <1>1, <1>2, <1>3, <1>4, <1>5, <1>6 DEF ObjInv

\* A call that awaits has only flights in work.
LEMMA InWork ==
  ASSUME ObjInv, NEW d \in Driver, pc[d] # "launch"
  PROVE  \A n \in Node : flight[d][n] \in {"none", "work"}
BY DEF ObjInv, TypeOK, Flights, Flying

LEMMA LoopKeeps ==
  ASSUME AllInDashboard, ObjInv, NEW d \in Driver, Loop(d)
  PROVE  ObjInv' /\ Kept
<1>1. Turn(d) /\ pc[d] = "loop" /\ TypeOK
  BY DEF ObjInv, Loop, At
<1>2. UNCHANGED <<graph, tasks, flight, saw, boot, count>>
  BY DEF Loop
<1>3. /\ \A e \in Driver \ {d} : pc'[e] = pc[e] /\ list'[e] = list[e]
      /\ \/ pc'[d] = "drain"
         \/ pc'[d] = "launch" /\ list'[d] = ReadyNodes \ InFlight(d)
  BY <1>1 DEF Loop, Goto, TypeOK
<1>4. TypeOK'
  <2>1. pc' \in [Driver -> Place] /\ list' \in [Driver -> SUBSET Node]
    <3> DEFINE ready == ReadyNodes \ InFlight(d)
    <3>1. ready \subseteq Node
      BY DEF ReadyNodes
    <3>2. list' = list \/ list' = [list EXCEPT ![d] = ready]
      BY DEF Loop
    <3> HIDE DEF ready
    <3>3. list' \in [Driver -> SUBSET Node]
      BY <1>1, <3>1, <3>2 DEF TypeOK
    <3>4. QED
      BY <1>1, <3>3 DEF Loop, Goto, TypeOK, Place
  <2>2. QED
    BY <1>1, <1>2, <2>1 DEF TypeOK, graph, tasks
<1>5. status' = "complete" => BuildNodesComplete
  BY <1>2 DEF ObjInv, Topped, graph
<1>6. \A n \in Node : flight[d][n] \in {"none", "work"}
  BY <1>1, InWork
<1>7. QED
  BY <1>1, <1>2, <1>3, <1>4, <1>5, <1>6, MoveKeeps DEF graph, tasks

LEMMA AwaitKeeps ==
  ASSUME AllInDashboard, ObjInv, NEW d \in Driver, Await(d)
  PROVE  ObjInv' /\ Kept
<1>1. Turn(d) /\ pc[d] = "launch" /\ TypeOK
  BY DEF ObjInv, Await, At
<1>2. UNCHANGED <<graph, tasks, flight, saw, boot, count>>
  BY DEF Await
<1>3. /\ \A e \in Driver \ {d} : pc'[e] = pc[e] /\ list'[e] = list[e]
      /\ pc'[d] \in {"drain", "await"}
  BY <1>1 DEF Await, Goto, TypeOK
<1>4. TypeOK'
  <2>1. pc' \in [Driver -> Place] /\ list' \in [Driver -> SUBSET Node]
    BY <1>1, <1>3, ZenonT(40) DEF Await, Goto, TypeOK, Place, InFlight
  <2>2. QED
    BY <1>1, <1>2, <2>1 DEF TypeOK, graph, tasks
<1>5. status' = "complete" => BuildNodesComplete
  BY <1>2 DEF ObjInv, Topped, graph
<1>6. \A n \in Node : flight[d][n] \in {"none", "work"}
  BY DEF Await
<1>7. QED
  BY <1>1, <1>2, <1>3, <1>4, <1>5, <1>6, MoveKeeps DEF graph, tasks

LEMMA WakeKeeps ==
  ASSUME AllInDashboard, ObjInv, NEW d \in Driver, Wake(d)
  PROVE  ObjInv' /\ Kept
<1>1. Turn(d) /\ pc[d] = "await" /\ TypeOK
  BY DEF ObjInv, Wake, At
<1>2. UNCHANGED <<graph, tasks, flight, list, saw, boot, count>>
  BY DEF Wake
<1>3. /\ \A e \in Driver \ {d} : pc'[e] = pc[e]
      /\ pc'[d] = "loop"
  BY <1>1 DEF Wake, Goto, TypeOK
<1>4. TypeOK'
  <2>1. pc' \in [Driver -> Place]
    BY <1>1, <1>3 DEF Wake, Goto, TypeOK, Place
  <2>2. QED
    BY <1>1, <1>2, <2>1 DEF TypeOK, graph, tasks
<1>5. status' = "complete" => BuildNodesComplete
  BY <1>2 DEF ObjInv, Topped, graph
<1>6. \A n \in Node : flight[d][n] \in {"none", "work"}
  BY <1>1, InWork
<1>7. QED
  BY <1>1, <1>2, <1>3, <1>4, <1>5, <1>6, MoveKeeps DEF graph, tasks

LEMMA DrainKeeps ==
  ASSUME AllInDashboard, ObjInv, NEW d \in Driver, Drain(d)
  PROVE  ObjInv' /\ Kept
<1>1. Turn(d) /\ pc[d] = "drain" /\ TypeOK /\ InFlight(d) = {}
  BY DEF ObjInv, Drain, At
<1>2. UNCHANGED <<graph, tasks, flight, boot, count>>
  BY DEF Drain
<1>3. /\ \A e \in Driver \ {d} : pc'[e] = pc[e] /\ list'[e] = list[e]
      /\ pc'[d] = "final" \/ (pc'[d] = "integrate" /\ BuildNodesComplete)
  BY <1>1 DEF Drain, Goto, TypeOK
<1>4. TypeOK'
  <2>1. pc' \in [Driver -> Place] /\ list' \in [Driver -> SUBSET Node]
    BY <1>1, <1>3 DEF Drain, Goto, TypeOK, Place
  <2>2. saw' \in [Driver -> BOOLEAN]
    BY <1>1 DEF Drain, TypeOK
  <2>3. QED
    BY <1>1, <1>2, <2>1, <2>2 DEF TypeOK, graph, tasks
<1>5. status' = "complete" => BuildNodesComplete
  BY <1>2 DEF ObjInv, Topped, graph
<1>6. \A n \in Node : flight[d][n] \in {"none", "work"}
  BY <1>1, InWork
<1>7. QED
  BY <1>1, <1>2, <1>3, <1>4, <1>5, <1>6, MoveKeeps DEF graph, tasks

\* Done is done: the status it writes is complete only for an integration that passed.
LEMMA FinalKeeps ==
  ASSUME AllInDashboard, ObjInv, NEW d \in Driver, Final(d)
  PROVE  ObjInv' /\ Kept
<1>1. Turn(d) /\ pc[d] = "final" /\ TypeOK
  BY DEF ObjInv, Final, At
<1>2. UNCHANGED <<node, blocker, linked, runner, tasks, flight, list, saw, boot, count>>
  BY DEF Final
<1>3. /\ \A e \in Driver \ {d} : pc'[e] = pc[e]
      /\ pc'[d] = "leave"
  BY <1>1 DEF Final, Goto, TypeOK
<1>4. TypeOK'
  <2>1. pc' \in [Driver -> Place]
    BY <1>1, <1>3 DEF Final, Goto, TypeOK, Place
  <2>2. status' \in Status
    BY <1>1 DEF Final, FinalStatus, TypeOK, Status
  <2>3. QED
    BY <1>1, <1>2, <2>1, <2>2 DEF TypeOK, tasks
<1>5. status' = "complete" => BuildNodesComplete
  BY DEF Final, FinalStatus, Satisfied, ObjInv, Topped
<1>6. \A n \in Node : flight[d][n] \in {"none", "work"}
  BY <1>1, InWork
<1>7. InFlight(d) = {}
  BY <1>1 DEF InFlight, ObjInv, Flights, Flying
<1>8. QED
  BY <1>1, <1>2, <1>3, <1>4, <1>5, <1>6, <1>7, MoveKeeps DEF tasks

LEMMA LeaveKeeps ==
  ASSUME AllInDashboard, ObjInv, NEW d \in Driver, Leave(d)
  PROVE  ObjInv' /\ Kept
<1>1. Turn(d) /\ pc[d] = "leave" /\ TypeOK
  BY DEF ObjInv, Leave, At
<1>2. UNCHANGED <<status, node, blocker, linked, tasks, flight, list, boot, count>>
  BY DEF Leave
<1>3. /\ \A e \in Driver \ {d} : pc'[e] = pc[e]
      /\ pc'[d] = "idle"
  BY <1>1 DEF Leave, Goto, TypeOK
<1>4. TypeOK'
  <2>1. pc' \in [Driver -> Place]
    BY <1>1, <1>3 DEF Leave, Goto, TypeOK, Place
  <2>2. saw' \in [Driver -> BOOLEAN] /\ runner' \in Process \cup {"none", "gone"}
    BY <1>1 DEF Leave, TypeOK
  <2>3. QED
    BY <1>1, <1>2, <2>1, <2>2 DEF TypeOK, tasks
<1>5. status' = "complete" => BuildNodesComplete
  BY <1>2 DEF ObjInv, Topped
<1>6. \A n \in Node : flight[d][n] \in {"none", "work"}
  BY <1>1, InWork
<1>7. InFlight(d) = {}
  BY <1>1 DEF InFlight, ObjInv, Flights, Flying
<1>8. runner' = runner \/ \A e \in Driver : pc'[e] = "idle"
  BY <1>3 DEF Leave, Running, AllInDashboard
<1>9. QED
  BY <1>1, <1>2, <1>3, <1>4, <1>5, <1>6, <1>7, <1>8, MoveKeeps DEF tasks

LEMMA IntegrationThrowsKeeps ==
  ASSUME AllInDashboard, ObjInv, NEW d \in Driver, IntegrationThrows(d)
  PROVE  ObjInv' /\ Kept
<1>1. Turn(d) /\ pc[d] = "merge" /\ TypeOK
  BY DEF ObjInv, IntegrationThrows, At
<1>2. UNCHANGED <<graph, tasks, flight, list, saw, boot, count>>
  BY DEF IntegrationThrows
<1>3. /\ \A e \in Driver \ {d} : pc'[e] = pc[e]
      /\ pc'[d] = "leave"
  BY <1>1 DEF IntegrationThrows, Goto, TypeOK
<1>4. TypeOK'
  <2>1. pc' \in [Driver -> Place]
    BY <1>1, <1>3 DEF IntegrationThrows, Goto, TypeOK, Place
  <2>2. QED
    BY <1>1, <1>2, <2>1 DEF TypeOK, graph, tasks
<1>5. status' = "complete" => BuildNodesComplete
  BY <1>2 DEF ObjInv, Topped, graph
<1>6. \A n \in Node : flight[d][n] \in {"none", "work"}
  BY <1>1, InWork
<1>7. InFlight(d) = {}
  BY <1>1 DEF InFlight, ObjInv, Flights, Flying
<1>8. QED
  BY <1>1, <1>2, <1>3, <1>4, <1>5, <1>6, <1>7, MoveKeeps DEF graph, tasks

-----------------------------------------------------------------------------
(* The run of a node *)

LEMMA LaunchKeeps ==
  ASSUME AllInDashboard, ObjInv, NEW d \in Driver, Launch(d)
  PROVE  ObjInv' /\ Kept
<1>1. Turn(d) /\ pc[d] = "launch" /\ TypeOK /\ Listed
  BY DEF ObjInv, Launch, At
<1>2. UNCHANGED <<status, blocker, linked, runner, tasks, pc, saw, boot, count>>
  BY DEF Launch
<1>3. PICK n \in list[d] : /\ node' = [node EXCEPT ![n] = "running"]
                           /\ Fly(d, n, "setup")
                           /\ list' = [list EXCEPT ![d] = @ \ {n}]
  BY DEF Launch
<1>4. n \in Node /\ n \in Part /\ node[n] \in {"pending", "blocked-by-dep"} /\ Done(n) /\ n # Integ
  BY <1>1, GraphFacts DEF TypeOK, Listed
<1>5. /\ node'[n] = "running" /\ \A m \in Part \ {n} : node'[m] = node[m]
      /\ \A e \in Driver \ {d} : flight'[e] = flight[e] /\ list'[e] = list[e]
      /\ flight'[d][n] = "setup" /\ \A m \in Node \ {n} : flight'[d][m] = flight[d][m]
      /\ list'[d] = list[d] \ {n}
  BY <1>1, <1>3, <1>4 DEF Fly, TypeOK
<1>6. \A e \in Driver : flight[e][n] = "none"
  BY <1>4, GraphFacts DEF ObjInv, Flights, Flying
<1>7. TypeOK'
  <2>1. node' \in [Part -> Stage] /\ list' \in [Driver -> SUBSET Node]
    BY <1>1, <1>3 DEF TypeOK, Stage
  <2>2. flight' \in [Driver -> [Node -> {"none", "setup", "made", "work"}]]
    BY <1>1, <1>3, <1>4 DEF Fly, TypeOK
  <2>3. QED
    BY <1>1, <1>2, <2>1, <2>2 DEF TypeOK, tasks
<1>8. \A m \in Node : Satisfied(m) => Satisfied(m)'
  BY <1>4, <1>5, GraphFacts DEF Satisfied
<1>9. OneTurn'
  BY <1>1, <1>2, <1>5, TurnTaken
<1>10. Stamped'
  BY <1>2 DEF ObjInv, Stamped
<1>11. Flights'
  <2>1. SUFFICES ASSUME NEW e \in Driver, NEW m \in Node, flight'[e][m] # "none"
                 PROVE  Flying(e, m)'
    BY DEF Flights
  <2>2. CASE m = n
    <3>1. e = d
      BY <2>1, <2>2, <1>5, <1>6
    <3>2. \A f \in Driver : flight'[f][n] # "none" => f = d
      BY <1>5, <1>6
    <3>3. n \in linked \/ task[n] = "absent"
      BY <1>4 DEF ObjInv, Links
    <3>4. QED
      BY <1>1, <1>2, <1>5, <2>2, <3>1, <3>2, <3>3 DEF Flying, tasks
  <2>3. CASE m # n
    <3>1. \A f \in Driver : flight'[f][m] = flight[f][m]
      BY <1>5, <2>3
    <3>2. Flying(e, m)
      BY <2>1, <3>1 DEF ObjInv, Flights
    <3>3. QED
      BY <1>2, <1>5, <2>3, <3>1, <3>2, GraphFacts DEF Flying, tasks
  <2>4. QED
    BY <2>2, <2>3
<1>12. Listed'
  <2>1. SUFFICES ASSUME NEW e \in Driver, pc[e] = "launch", NEW m \in list'[e]
                 PROVE  node'[m] \in {"pending", "blocked-by-dep"} /\ Done(m)'
    BY <1>2 DEF Listed
  <2>2. e = d
    BY <1>1, <2>1 DEF Turn, AllInDashboard, Awaiting
  <2>3. m \in Node \ {n} /\ m \in list[d]
    BY <1>1, <1>5, <2>1, <2>2 DEF TypeOK
  <2>4. Done(m)'
    BY <1>1, <1>8, <2>3, GraphFacts DEF Listed, Done
  <2>5. QED
    BY <1>1, <1>5, <2>3, <2>4, GraphFacts DEF Listed
<1>13. Grounded'
  <2>1. \A m \in Node : Done(m) => Done(m)'
    BY <1>8, GraphFacts DEF Done
  <2>2. QED
    BY <1>4, <1>5, <2>1, GraphFacts DEF ObjInv, Grounded
<1>14. Topped'
  BY <1>2, <1>4, <1>5, <1>8, GraphFacts DEF ObjInv, Topped, BuildNodesComplete
<1>15. Links'
  BY <1>2, <1>4, <1>5, GraphFacts DEF ObjInv, Links, Stopped, tasks
<1>16. StoppedHasCause'
  BY <1>2, <1>4, <1>5, GraphFacts DEF ObjInv, StoppedHasCause, Stopped
<1>17. QED
  BY <1>7, <1>8, <1>9, <1>10, <1>11, <1>12, <1>13, <1>14, <1>15, <1>16 DEF ObjInv, Kept

\* The flight of a node goes on or ends.  What depends on the node may be stopped with it.
LEMMA FlightKeeps ==
  ASSUME AllInDashboard, ObjInv, TypeOK', NEW d \in Driver, NEW n \in Node, Turn(d),
         flight[d][n] # "none",
         UNCHANGED <<status, runner, pc, list>>,
         \A e \in Driver, m \in Node : e # d \/ m # n => flight'[e][m] = flight[e][m],
         \A e \in Driver \ {d} : flight'[e] = flight[e],
         \A m \in Part \ {n} :
           /\ node'[m] = node[m] \/ (m \in Node /\ node[m] = "pending" /\ node'[m] = "blocked-by-dep")
           /\ blocker'[m] = blocker[m] /\ task'[m] = task[m]
           /\ m \in linked' <=> m \in linked
           /\ m \in stale' <=> m \in stale,
         node'[n] \notin {"pending", "blocked-by-dep"},
         Stopped(n)' <=> blocker'[n] # "none",
         flight'[d][n] # "none" =>
           /\ node'[n] = "running"
           /\ flight'[d][n] # "work" => pc[d] = "launch"
           /\ flight'[d][n] = "work" => n \in linked' /\ n \notin stale'
           /\ flight'[d][n] = "made" => task'[n] # "absent"
           /\ flight'[d][n] = "setup" => n \in linked' \/ task'[n] = "absent",
         n \in linked' => task'[n] # "absent",
         n \notin linked' /\ task'[n] # "absent" => node'[n] = "running",
         Stopped(n)' /\ task'[n] = "absent" => blocker'[n] = "decision"
  PROVE  ObjInv' /\ Kept
<1>1. Flying(d, n) /\ n # Integ /\ n \in Part /\ Integ \in Part \ {n}
  BY GraphFacts DEF ObjInv, Flights
<1>2. \A m \in Node : Satisfied(m) => Satisfied(m)'
  BY <1>1, GraphFacts DEF Satisfied, Flying
<1>3. \A m \in Node : Done(m) => Done(m)'
  BY <1>2, GraphFacts DEF Done
<1>4. OneTurn'
  BY TurnTaken DEF ObjInv
<1>5. Stamped'
  BY DEF ObjInv, Stamped
<1>6. Flights'
  <2>1. SUFFICES ASSUME NEW e \in Driver, NEW m \in Node, flight'[e][m] # "none"
                 PROVE  Flying(e, m)'
    BY DEF Flights
  <2>2. CASE m = n
    <3>1. \A f \in Driver : flight'[f][n] # "none" => f = d
      BY <1>1 DEF Flying
    <3>2. e = d
      BY <2>1, <2>2, <3>1
    <3>3. QED
      BY <1>1, <2>1, <2>2, <3>1, <3>2 DEF Flying
  <2>3. CASE m # n
    <3>1. \A f \in Driver : flight'[f][m] = flight[f][m]
      BY <2>3
    <3>2. Flying(e, m)
      BY <2>1, <3>1 DEF ObjInv, Flights
    <3>3. m \in Part \ {n} /\ node'[m] = "running"
      BY <2>3, <3>2, GraphFacts DEF Flying
    <3>4. QED
      BY <3>1, <3>2, <3>3 DEF Flying
  <2>4. QED
    BY <2>2, <2>3
<1>7. Listed'
  <2>1. SUFFICES ASSUME NEW e \in Driver, pc[e] = "launch", NEW m \in list[e]
                 PROVE  node'[m] \in {"pending", "blocked-by-dep"} /\ Done(m)'
    BY DEF Listed
  <2>2. m \in Node /\ node[m] \in {"pending", "blocked-by-dep"} /\ Done(m)
    BY <2>1 DEF ObjInv, TypeOK, Listed
  <2>3. m \in Part \ {n}
    BY <1>1, <2>2, GraphFacts DEF Flying
  <2>4. QED
    BY <1>3, <2>2, <2>3
<1>8. Grounded'
  <2>1. Done(n)
    BY <1>1 DEF ObjInv, Grounded, Flying
  <2>2. QED
    BY <1>1, <1>3, <2>1, GraphFacts DEF ObjInv, Grounded
<1>9. Topped'
  <2>1. BuildNodesComplete => BuildNodesComplete'
    BY <1>2 DEF BuildNodesComplete
  <2>2. node'[Integ] = node[Integ]
    BY <1>1, GraphFacts
  <2>3. QED
    BY <2>1, <2>2 DEF ObjInv, Topped
<1>10. Links'
  <2>1. \A m \in linked' : task'[m] # "absent"
    <3>1. linked' \subseteq Part
      BY DEF TypeOK
    <3>2. QED
      BY <3>1 DEF ObjInv, Links
  <2>2. \A m \in Node \ linked' : task'[m] # "absent" => node'[m] = "running"
    BY GraphFacts DEF ObjInv, Links
  <2>3. Integ \notin linked' => node'[Integ] = "pending"
    BY <1>1, GraphFacts DEF ObjInv, Links
  <2>4. \A m \in Part : Stopped(m)' /\ task'[m] = "absent" => blocker'[m] = "decision"
    BY DEF ObjInv, Links, Stopped
  <2>5. QED
    BY <1>1, <2>1, <2>2, <2>3, <2>4 DEF ObjInv, Links
<1>11. StoppedHasCause'
  BY <1>1, GraphFacts DEF ObjInv, StoppedHasCause, Stopped
<1>12. QED
  BY <1>2, <1>4, <1>5, <1>6, <1>7, <1>8, <1>9, <1>10, <1>11 DEF ObjInv, Kept

\* How one flight is moved.
LEMMA FlyFields ==
  ASSUME TypeOK, NEW d \in Driver, NEW n \in Node, NEW to \in {"none", "setup", "made", "work"}, Fly(d, n, to)
  PROVE  /\ flight' \in [Driver -> [Node -> {"none", "setup", "made", "work"}]]
         /\ flight'[d][n] = to
         /\ \A e \in Driver, m \in Node : e # d \/ m # n => flight'[e][m] = flight[e][m]
         /\ \A e \in Driver \ {d} : flight'[e] = flight[e]
BY DEF Fly, TypeOK

LEMMA SetupKeeps ==
  ASSUME AllInDashboard, ObjInv, NEW d \in Driver, NEW n \in Node, Setup(d, n)
  PROVE  ObjInv' /\ Kept
<1>1. TypeOK /\ Turn(d) /\ flight[d][n] = "setup" /\ n \in Part /\ n # Integ
  BY GraphFacts DEF Setup, ObjInv
<1>2. Flying(d, n)
  BY <1>1 DEF ObjInv, Flights
<1>3. /\ \/ n \in linked /\ Fly(d, n, "work") /\ UNCHANGED task
         \/ n \notin linked /\ task' = [task EXCEPT ![n] = "active"] /\ Fly(d, n, "made")
      /\ stale' = stale \ {n}
      /\ UNCHANGED <<graph, swept, visited, pc, list, saw, boot, count>>
  BY DEF Setup
<1>4. PICK to \in {"work", "made"} :
        /\ Fly(d, n, to)
        /\ to = "work" => n \in linked /\ UNCHANGED task
        /\ to = "made" => n \notin linked /\ task' = [task EXCEPT ![n] = "active"]
  BY <1>3
<1>5. /\ flight' \in [Driver -> [Node -> {"none", "setup", "made", "work"}]]
      /\ flight'[d][n] = to
      /\ \A e \in Driver, m \in Node : e # d \/ m # n => flight'[e][m] = flight[e][m]
      /\ \A e \in Driver \ {d} : flight'[e] = flight[e]
  <2>1. to \in {"none", "setup", "made", "work"} /\ Fly(d, n, to)
    BY <1>4
  <2>2. QED
    BY <1>1, <2>1, FlyFields
<1>6. /\ task' \in [Part -> {"absent", "active", "yielded", "infra", "decision", "hard", "merge-ready"}]
      /\ \A m \in Part \ {n} : task'[m] = task[m]
      /\ task'[n] # "absent"
  <2>1. CASE to = "work"
    BY <1>1, <1>4, <2>1 DEF TypeOK, ObjInv, Links
  <2>2. CASE to = "made"
    BY <1>1, <1>4, <2>2 DEF TypeOK
  <2>3. QED
    BY <2>1, <2>2
<1>7. TypeOK'
  BY <1>1, <1>3, <1>5, <1>6 DEF TypeOK, graph
<1>8. ~Stopped(n)' /\ blocker'[n] = "none" /\ node'[n] = "running"
  BY <1>1, <1>2, <1>3 DEF ObjInv, StoppedHasCause, Flying, Stopped, graph
<1>9. UNCHANGED <<status, node, blocker, linked, runner, pc, list>>
  BY <1>3 DEF graph
<1>10. pc[d] = "launch"
  BY <1>1, <1>2 DEF Flying
<1>11. \A m \in Part \ {n} : m \in stale' <=> m \in stale
  BY <1>3
<1>12. flight'[d][n] # "none" =>
         /\ node'[n] = "running"
         /\ flight'[d][n] # "work" => pc[d] = "launch"
         /\ flight'[d][n] = "work" => n \in linked' /\ n \notin stale'
         /\ flight'[d][n] = "made" => task'[n] # "absent"
         /\ flight'[d][n] = "setup" => n \in linked' \/ task'[n] = "absent"
  <2>1. to = "work" => n \in linked' /\ n \notin stale'
    BY <1>3, <1>4, <1>9
  <2>2. flight'[d][n] = to /\ to \in {"work", "made"}
    BY <1>4, <1>5
  <2>3. QED
    BY <1>6, <1>8, <1>10, <2>1, <2>2
<1>13. QED
  BY <1>1, <1>5, <1>6, <1>7, <1>8, <1>9, <1>11, <1>12, FlightKeeps

LEMMA LinkKeeps ==
  ASSUME AllInDashboard, ObjInv, NEW d \in Driver, NEW n \in Node, Link(d, n)
  PROVE  ObjInv' /\ Kept
<1>1. TypeOK /\ Turn(d) /\ flight[d][n] = "made" /\ n \in Part /\ n # Integ
  BY GraphFacts DEF Link, ObjInv
<1>2. Flying(d, n)
  BY <1>1 DEF ObjInv, Flights
<1>3. /\ linked' = linked \cup {n} /\ stale' = stale \ {n} /\ Fly(d, n, "work")
      /\ UNCHANGED <<status, node, blocker, runner, task, swept, visited, pc, list, saw, boot, count>>
  BY DEF Link
<1>5. /\ flight' \in [Driver -> [Node -> {"none", "setup", "made", "work"}]]
      /\ flight'[d][n] = "work"
      /\ \A e \in Driver, m \in Node : e # d \/ m # n => flight'[e][m] = flight[e][m]
      /\ \A e \in Driver \ {d} : flight'[e] = flight[e]
  BY <1>1, <1>3, FlyFields
<1>6. task'[n] # "absent"
  BY <1>1, <1>2, <1>3 DEF Flying
<1>7. TypeOK'
  BY <1>1, <1>3, <1>5 DEF TypeOK
<1>8. ~Stopped(n)' /\ blocker'[n] = "none" /\ node'[n] = "running"
  BY <1>1, <1>2, <1>3 DEF ObjInv, StoppedHasCause, Flying, Stopped
<1>11. \A m \in Part \ {n} : (m \in stale' <=> m \in stale) /\ (m \in linked' <=> m \in linked)
  BY <1>3
<1>12. n \in linked' /\ n \notin stale'
  BY <1>3
<1>13. QED
  BY <1>1, <1>3, <1>5, <1>6, <1>7, <1>8, <1>11, <1>12, FlightKeeps

\* How a run of a node ends for the graph: it goes on, is done, or stops with a cause.
LEMMA EndFlight ==
  ASSUME AllInDashboard, ObjInv, NEW d \in Driver, NEW n \in Node, Turn(d), flight[d][n] # "none",
         Fly(d, n, "none"), UNCHANGED <<status, linked, runner, tasks, pc, list, saw, boot, count>>,
         NEW to \in {"running", "gate-satisfied", "blocked", "failed"},
         NEW why \in {"none", "infra", "decision", "hard", "publish"},
         why # "none" <=> to \in {"blocked", "failed"},
         n \in linked \/ (task[n] = "absent" /\ (why = "none" \/ why = "decision")),
         \/ Block(n, to, why)
         \/ node' = [node EXCEPT ![n] = to] /\ blocker' = [blocker EXCEPT ![n] = why]
  PROVE  ObjInv' /\ Kept
<1>1. TypeOK /\ n \in Part /\ n # Integ
  BY GraphFacts DEF ObjInv
<1>2. /\ node'[n] = to /\ blocker'[n] = why
      /\ \A m \in Part \ {n} :
           /\ node'[m] = node[m] \/ (m \in Node /\ node[m] = "pending" /\ node'[m] = "blocked-by-dep")
           /\ blocker'[m] = blocker[m]
  <2>1. CASE Block(n, to, why)
    BY <1>1, <2>1, BlockFields
  <2>2. CASE node' = [node EXCEPT ![n] = to] /\ blocker' = [blocker EXCEPT ![n] = why]
    BY <1>1, <2>2 DEF TypeOK
  <2>3. QED
    BY <2>1, <2>2
<1>3. /\ flight' \in [Driver -> [Node -> {"none", "setup", "made", "work"}]]
      /\ flight'[d][n] = "none"
      /\ \A e \in Driver, m \in Node : e # d \/ m # n => flight'[e][m] = flight[e][m]
      /\ \A e \in Driver \ {d} : flight'[e] = flight[e]
  BY <1>1, FlyFields
<1>4. node' \in [Part -> Stage] /\ blocker' \in [Part -> {"none", "infra", "decision", "hard", "publish"}]
  <2>1. CASE Block(n, to, why)
    <3> DEFINE before == [node EXCEPT ![n] = to]
    <3>1. before \in [Part -> Stage]
      BY <1>1 DEF TypeOK, Stage
    <3> HIDE DEF before
    <3>2. node' = [m \in Part |-> IF m \in Node /\ m \in Below[n] /\ before[m] = "pending"
                                  THEN "blocked-by-dep" ELSE before[m]]
      BY <2>1 DEF Block, StopBelow, before
    <3>3. node' \in [Part -> Stage]
      BY <3>1, <3>2 DEF Stage
    <3>4. QED
      BY <1>1, <2>1, <3>3 DEF Block, TypeOK
  <2>2. CASE node' = [node EXCEPT ![n] = to] /\ blocker' = [blocker EXCEPT ![n] = why]
    BY <1>1, <2>2 DEF TypeOK, Stage
  <2>3. QED
    BY <2>1, <2>2
<1>5. TypeOK'
  BY <1>1, <1>3, <1>4 DEF TypeOK, tasks
<1>6. UNCHANGED <<linked, task, stale>>
  BY DEF tasks
<1>7. Stopped(n)' <=> blocker'[n] # "none"
  BY <1>2 DEF Stopped
<1>8. n \in linked => task[n] # "absent"
  BY DEF ObjInv, Links
<1>9. /\ n \notin linked' /\ task'[n] # "absent" => node'[n] = "running"
      /\ Stopped(n)' /\ task'[n] = "absent" => blocker'[n] = "decision"
  BY <1>2, <1>6, <1>7, <1>8
<1>10. QED
  BY <1>1, <1>2, <1>3, <1>5, <1>6, <1>7, <1>8, <1>9, FlightKeeps

LEMMA ThrowKeeps ==
  ASSUME AllInDashboard, ObjInv, NEW d \in Driver, NEW n \in Node, Throw(d, n)
  PROVE  ObjInv' /\ Kept
<1>1. Turn(d) /\ flight[d][n] # "none" /\ flight[d][n] # "made" /\ Fly(d, n, "none")
  BY DEF Throw
<1>2. UNCHANGED <<status, linked, runner, tasks, pc, list, saw, boot, count>>
  BY DEF Throw
<1>3. n \in linked \/ task[n] = "absent"
  BY <1>1 DEF ObjInv, TypeOK, Flights, Flying
<1>4. \/ Block(n, "blocked", "decision")
      \/ node' = [node EXCEPT ![n] = "blocked"] /\ blocker' = [blocker EXCEPT ![n] = "decision"]
  BY DEF Throw
<1>5. QED
  BY <1>1, <1>2, <1>3, <1>4, EndFlight

LEMMA SettleKeeps ==
  ASSUME AllInDashboard, ObjInv, NEW d \in Driver, NEW n \in Node, Settle(d, n)
  PROVE  ObjInv' /\ Kept
<1>1. Turn(d) /\ flight[d][n] = "work" /\ Fly(d, n, "none")
  BY DEF Settle
<1>2. UNCHANGED <<status, linked, runner, tasks, pc, list, saw, boot, count>>
  BY DEF Settle
<1>3. n \in linked
  BY <1>1 DEF ObjInv, Flights, Flying
<1>4. \/ node' = [node EXCEPT ![n] = "running"] /\ blocker' = [blocker EXCEPT ![n] = "none"]
      \/ Block(n, "blocked", "infra")
      \/ Block(n, "blocked", "decision")
      \/ Block(n, "failed", "hard")
      \/ node' = [node EXCEPT ![n] = "gate-satisfied"] /\ blocker' = [blocker EXCEPT ![n] = "none"]
      \/ Block(n, "blocked", "publish")
  BY DEF Settle
<1>5. QED
  BY <1>1, <1>2, <1>3, <1>4, EndFlight

-----------------------------------------------------------------------------
(* Steps that end no flight *)

\* What such a step has to respect: nodes in flight, the list of whoever is about to
\* launch, what is done, and what was never launched.
Respects ==
  /\ \A d \in Driver : pc'[d] = pc[d] \/ (pc'[d] # "launch" /\ \A n \in Node : flight[d][n] = "none")
  /\ \A d \in Driver, n \in Node : flight[d][n] # "none" =>
       /\ node'[n] = node[n]
       /\ n \in linked => n \in linked'
       /\ flight[d][n] = "work" /\ n \in stale' => n \in stale
       /\ task'[n] = "absent" <=> task[n] = "absent"
  /\ \A d \in Driver : pc'[d] = "launch" => \A n \in Node : node'[n] = node[n]
  /\ \A n \in Node :
       /\ Satisfied(n) => Satisfied(n)'
       /\ node'[n] \in {"pending", "blocked-by-dep"} \/ node[n] \notin {"pending", "blocked-by-dep"}

LEMMA RespectsKeeps ==
  ASSUME AllInDashboard, ObjInv, TypeOK', UNCHANGED <<flight, list>>, Respects,
         OneTurn', Stamped', Topped', Links', StoppedHasCause'
  PROVE  ObjInv' /\ Kept
<1>1. \A n \in Node : Done(n) => Done(n)'
  BY GraphFacts DEF Respects, Done
<1>2. Flights'
  <2>1. SUFFICES ASSUME NEW d \in Driver, NEW n \in Node, flight[d][n] # "none"
                 PROVE  Flying(d, n)'
    BY DEF Flights
  <2>2. Flying(d, n)
    BY <2>1 DEF ObjInv, Flights
  <2>3. /\ node'[n] = node[n] /\ pc'[d] = pc[d]
        /\ n \in linked => n \in linked'
        /\ flight[d][n] = "work" /\ n \in stale' => n \in stale
        /\ task'[n] = "absent" <=> task[n] = "absent"
    BY <2>1 DEF Respects
  <2>4. QED
    BY <2>2, <2>3 DEF Flying
<1>3. Listed'
  <2>1. SUFFICES ASSUME NEW d \in Driver, pc'[d] = "launch", NEW n \in list[d]
                 PROVE  node'[n] \in {"pending", "blocked-by-dep"} /\ Done(n)'
    BY DEF Listed
  <2>2. pc[d] = "launch" /\ n \in Node /\ node'[n] = node[n]
    BY <2>1 DEF Respects, ObjInv, TypeOK
  <2>3. QED
    BY <1>1, <2>2 DEF ObjInv, Listed
<1>4. Grounded'
  BY <1>1 DEF Respects, ObjInv, Grounded
<1>5. Kept
  BY DEF Respects, Kept
<1>6. QED
  BY <1>2, <1>3, <1>4, <1>5 DEF ObjInv

\* A step that leaves the graph and the calls alone.
LEMMA QuietKeeps ==
  ASSUME AllInDashboard, ObjInv, TypeOK', UNCHANGED <<node, blocker, linked, runner, calls>>,
         status' = status \/ status' = "cancelled",
         \A n \in Part : task'[n] = "absent" <=> task[n] = "absent",
         \A d \in Driver, n \in Node : flight[d][n] = "work" /\ n \in stale' => n \in stale
  PROVE  ObjInv' /\ Kept
<1>1. Respects
  BY GraphFacts DEF Respects, calls, Satisfied
<1>2. OneTurn' /\ Stamped'
  BY DEF ObjInv, OneTurn, Awaiting, Stamped, calls
<1>3. Topped' /\ StoppedHasCause'
  BY DEF ObjInv, Topped, BuildNodesComplete, Satisfied, StoppedHasCause, Stopped, calls
<1>4. Links'
  BY GraphFacts DEF ObjInv, TypeOK, Links, Stopped, calls
<1>5. QED
  BY <1>1, <1>2, <1>3, <1>4, RespectsKeeps DEF calls

LEMMA TaskEndsKeeps ==
  ASSUME AllInDashboard, ObjInv, NEW n \in Part, TaskEnds(n)
  PROVE  ObjInv' /\ Kept
<1>1. PICK outcome \in TaskOutcome : task' = [task EXCEPT ![n] = outcome]
  BY DEF TaskEnds
<1>2. /\ swept' = swept \ {n} /\ stale' = stale \ {n}
      /\ UNCHANGED <<graph, visited, calls, boot, count>>
      /\ Active(n)
  BY DEF TaskEnds
<1>3. TypeOK /\ task \in [Part -> {"absent", "active", "yielded", "infra", "decision", "hard", "merge-ready"}]
  BY DEF ObjInv, TypeOK
<1>4. outcome \in {"yielded", "infra", "decision", "hard", "merge-ready"}
  BY GraphFacts
<1>5. /\ task' \in [Part -> {"absent", "active", "yielded", "infra", "decision", "hard", "merge-ready"}]
      /\ \A m \in Part : task'[m] = "absent" <=> task[m] = "absent"
  BY <1>1, <1>2, <1>3, <1>4 DEF Active
<1>6. TypeOK'
  BY <1>2, <1>3, <1>5 DEF TypeOK, graph, calls
<1>7. QED
  BY <1>2, <1>5, <1>6, QuietKeeps DEF graph

LEMMA AgesKeeps ==
  ASSUME AllInDashboard, ObjInv, NEW n \in Part, Ages(n)
  PROVE  ObjInv' /\ Kept
<1>1. /\ stale' = stale \cup {n} /\ ~Worked(n)
      /\ UNCHANGED <<graph, task, swept, visited, calls, boot, count>>
  BY DEF Ages
<1>2. TypeOK'
  BY <1>1 DEF ObjInv, TypeOK, graph, calls
<1>3. \A d \in Driver, m \in Node : flight[d][m] = "work" /\ m \in stale' => m \in stale
  BY <1>1, GraphFacts DEF Worked
<1>4. QED
  BY <1>1, <1>2, <1>3, QuietKeeps DEF graph

LEMMA AutoRetryKeeps ==
  ASSUME AllInDashboard, ObjInv, NEW n \in Part, AutoRetry(n)
  PROVE  ObjInv' /\ Kept
<1>1. /\ task[n] \in {"infra", "active"} /\ count.retries[n] < MaxRetries
      /\ task' = [task EXCEPT ![n] = "active"]
      /\ swept' = {n} /\ visited' = visited \cup {n} /\ stale' = stale \ {n}
      /\ count' = [count EXCEPT !.retries[n] = @ + 1]
      /\ UNCHANGED <<graph, calls, boot>>
  BY DEF AutoRetry
<1>2. /\ task' \in [Part -> {"absent", "active", "yielded", "infra", "decision", "hard", "merge-ready"}]
      /\ \A m \in Part : task'[m] = "absent" <=> task[m] = "absent"
  BY <1>1 DEF ObjInv, TypeOK
<1>3. count' \in [starts : 0 .. MaxStarts, kills : 0 .. MaxKills, periodic : 0 .. MaxPeriodic,
                  retries : [Part -> 0 .. MaxRetries]]
  <2> DEFINE more == count.retries[n] + 1
             retries == [count.retries EXCEPT ![n] = more]
  <2>1. count \in [starts : 0 .. MaxStarts, kills : 0 .. MaxKills, periodic : 0 .. MaxPeriodic,
                   retries : [Part -> 0 .. MaxRetries]]
    BY DEF ObjInv, TypeOK
  <2>2. more \in 0 .. MaxRetries
    BY <1>1, <2>1, GraphFacts
  <2>3. count' = [count EXCEPT !.retries = retries]
    BY <1>1
  <2> HIDE DEF more
  <2>4. retries \in [Part -> 0 .. MaxRetries]
    BY <2>1, <2>2
  <2> HIDE DEF retries
  <2>5. QED
    BY <2>1, <2>3, <2>4
<1>4. TypeOK'
  BY <1>1, <1>2, <1>3 DEF ObjInv, TypeOK, graph, calls
<1>5. QED
  BY <1>1, <1>2, <1>4, QuietKeeps DEF graph

LEMMA SweepEndsKeeps ==
  ASSUME AllInDashboard, ObjInv, SweepEnds \/ BootSweepEnds
  PROVE  ObjInv' /\ Kept
<1>1. UNCHANGED <<graph, task, stale, calls, count>>
  BY DEF SweepEnds, BootSweepEnds, tasks
<1>2. TypeOK'
  BY <1>1 DEF ObjInv, TypeOK, SweepEnds, BootSweepEnds, MidSweep, graph, calls, tasks
<1>3. QED
  BY <1>1, <1>2, QuietKeeps DEF graph

LEMMA AskedFields ==
  ASSUME TypeOK, Asked
  PROVE  count' \in [starts : 0 .. MaxStarts, kills : 0 .. MaxKills, periodic : 0 .. MaxPeriodic,
                     retries : [Part -> 0 .. MaxRetries]]
BY GraphFacts DEF Asked, TypeOK

LEMMA CancelKeeps ==
  ASSUME AllInDashboard, ObjInv, Cancel
  PROVE  ObjInv' /\ Kept
<1>1. Asked /\ status' = "cancelled" /\ UNCHANGED <<node, blocker, linked, runner, tasks, calls, boot>>
  BY DEF Cancel
<1>2. TypeOK'
  BY <1>1, AskedFields DEF ObjInv, TypeOK, Status, tasks, calls
<1>3. QED
  BY <1>1, <1>2, QuietKeeps DEF tasks

\* After a death nobody drives the objective.
LEMMA DeathFields ==
  ASSUME AllInDashboard, ObjInv, NEW p \in Process, Dies(p)
  PROVE  /\ UNCHANGED linked
         /\ runner' \in Process \cup {"none", "gone"}
         /\ boot' = TRUE /\ swept' = {} /\ visited' = {}
         /\ pc' = [d \in Driver |-> "idle"]
         /\ flight' = [d \in Driver |-> [n \in Node |-> "none"]]
         /\ list' = [d \in Driver |-> {}]
         /\ saw' = [d \in Driver |-> FALSE]
         /\ count' \in [starts : 0 .. MaxStarts, kills : 0 .. MaxKills, periodic : 0 .. MaxPeriodic,
                        retries : [Part -> 0 .. MaxRetries]]
         /\ OneTurn' /\ Stamped' /\ Flights' /\ Listed'
<1>1. p = Dashboard /\ \A d \in Driver : ProcessOf[d] = p
  BY DEF AllInDashboard, Process
<1>2. /\ UNCHANGED linked
      /\ count' = [count EXCEPT !.kills = @ + 1, !.periodic = IF p = Dashboard THEN 0 ELSE @]
      /\ count.kills < MaxKills
      /\ runner' = IF runner = p THEN "gone" ELSE runner
      /\ boot' = TRUE /\ swept' = {} /\ visited' = {}
  BY <1>1 DEF Dies
<1>3. /\ pc' = [d \in Driver |-> "idle"]
      /\ flight' = [d \in Driver |-> [n \in Node |-> "none"]]
      /\ list' = [d \in Driver |-> {}]
      /\ saw' = [d \in Driver |-> FALSE]
  BY <1>1 DEF Dies
<1>4. count' \in [starts : 0 .. MaxStarts, kills : 0 .. MaxKills, periodic : 0 .. MaxPeriodic,
                  retries : [Part -> 0 .. MaxRetries]]
  <2> DEFINE more == count.kills + 1
  <2>1. count \in [starts : 0 .. MaxStarts, kills : 0 .. MaxKills, periodic : 0 .. MaxPeriodic,
                   retries : [Part -> 0 .. MaxRetries]]
    BY DEF ObjInv, TypeOK
  <2>2. more \in 0 .. MaxKills /\ 0 \in 0 .. MaxPeriodic
    BY <1>2, <2>1, GraphFacts
  <2>3. count' = [count EXCEPT !.kills = more, !.periodic = 0]
    BY <1>1, <1>2
  <2> HIDE DEF more
  <2>4. QED
    BY <2>1, <2>2, <2>3
<1>5. OneTurn' /\ Stamped' /\ Flights' /\ Listed'
  BY <1>3 DEF OneTurn, Awaiting, Stamped, Flights, Listed
<1>6. runner' \in Process \cup {"none", "gone"}
  BY <1>2 DEF ObjInv, TypeOK
<1>7. QED
  BY <1>2, <1>3, <1>4, <1>5, <1>6

LEMMA KillKeeps ==
  ASSUME AllInDashboard, ObjInv, NEW p \in Process, Kill(p)
  PROVE  ObjInv' /\ Kept
<1>1. Dies(p) /\ UNCHANGED <<status, node, blocker, task, stale>>
  BY DEF Kill
<1>2. /\ UNCHANGED linked
      /\ runner' \in Process \cup {"none", "gone"}
      /\ boot' = TRUE /\ swept' = {} /\ visited' = {}
      /\ pc' = [d \in Driver |-> "idle"]
      /\ flight' = [d \in Driver |-> [n \in Node |-> "none"]]
      /\ list' = [d \in Driver |-> {}]
      /\ saw' = [d \in Driver |-> FALSE]
      /\ count' \in [starts : 0 .. MaxStarts, kills : 0 .. MaxKills, periodic : 0 .. MaxPeriodic,
                     retries : [Part -> 0 .. MaxRetries]]
      /\ OneTurn' /\ Stamped' /\ Flights' /\ Listed'
  BY <1>1, DeathFields
<1>3. TypeOK'
  BY <1>1, <1>2 DEF ObjInv, TypeOK, Place
<1>4. Grounded' /\ Topped' /\ Links' /\ StoppedHasCause' /\ Kept
  BY <1>1, <1>2 DEF ObjInv, Grounded, Done, Topped, BuildNodesComplete, Satisfied, Links, Stopped,
     StoppedHasCause, Kept
<1>5. QED
  BY <1>2, <1>3, <1>4 DEF ObjInv

-----------------------------------------------------------------------------
(* The head of a run *)

\* While a call takes its turn, no other is about to launch.
LEMMA OneLaunches ==
  ASSUME AllInDashboard, TypeOK, NEW d \in Driver, Turn(d), \A e \in Driver \ {d} : pc'[e] = pc[e], pc'[d] # "launch"
  PROVE  \A e \in Driver : pc'[e] # "launch"
BY DEF Turn, AllInDashboard, Awaiting

\* A call that is not launching or waiting has nothing in flight.
LEMMA NothingInFlight ==
  ASSUME ObjInv, NEW d \in Driver, pc[d] \notin {"launch", "await", "loop", "drain"}
  PROVE  \A n \in Node : flight[d][n] = "none"
BY DEF ObjInv, Flights, Flying

LEMMA StartKeeps ==
  ASSUME AllInDashboard, ObjInv, NEW d \in Driver, Start(d)
  PROVE  ObjInv' /\ Kept
<1> DEFINE due == {n \in Node : /\ node[n] = "blocked" /\ blocker[n] = "publish"
                                /\ n \in linked /\ task[n] = "merge-ready"}
<1>1. Turn(d) /\ pc[d] = "start" /\ TypeOK
  BY DEF ObjInv, Start, At
<1>2. UNCHANGED <<status, linked, runner, tasks, flight, list, saw, boot, count>>
  BY DEF Start
<1>3. PICK done \in SUBSET due :
        /\ \A n \in done : node'[n] = "gate-satisfied" /\ blocker'[n] = "none"
        /\ \A n \in Part \ done : /\ node'[n] = node[n] \/ (n \in Node /\ node[n] = "pending" /\ node'[n] = "blocked-by-dep")
                                  /\ blocker'[n] = blocker[n]
        /\ node' \in [Part -> Stage]
        /\ blocker' \in [Part -> {"none", "infra", "decision", "hard", "publish"}]
  <2>1. CASE UNCHANGED <<node, blocker>>
    <3> HIDE DEF due
    <3>1. {} \in SUBSET due
      OBVIOUS
    <3>2. QED
      BY <1>1, <2>1, <3>1 DEF TypeOK
  <2>2. CASE status # "cancelled"
    <3>1. PICK done \in SUBSET due :
            /\ node' = [n \in Part |->
                 IF n \in done THEN "gate-satisfied"
                 ELSE IF node[n] = "pending" /\ \E m \in due \ done : n \in Node /\ n \in Below[m]
                      THEN "blocked-by-dep" ELSE node[n]]
            /\ blocker' = [n \in Part |-> IF n \in done THEN "none" ELSE blocker[n]]
      BY <2>2 DEF Start
    <3>2. done \subseteq Part
      BY GraphFacts
    <3> HIDE DEF due
    <3>3. node' \in [Part -> Stage] /\ blocker' \in [Part -> {"none", "infra", "decision", "hard", "publish"}]
      BY <1>1, <3>1 DEF TypeOK, Stage
    <3>4. QED
      BY <1>1, <3>1, <3>2, <3>3 DEF TypeOK
  <2>3. QED
    BY <2>1, <2>2 DEF Start
<1>4. \A n \in done : n \in Node /\ node[n] = "blocked" /\ n \in linked /\ task[n] = "merge-ready"
  OBVIOUS
<1> HIDE DEF due
<1>5. pc' = [pc EXCEPT ![d] = "leave"] \/ pc' = [pc EXCEPT ![d] = "resume"]
  BY DEF Start, Goto
<1>6. pc' \in [Driver -> Place] /\ pc'[d] \in {"leave", "resume"} /\ \A e \in Driver \ {d} : pc'[e] = pc[e]
  BY <1>1, <1>5 DEF TypeOK, Place
<1>7. TypeOK'
  BY <1>1, <1>2, <1>3, <1>6 DEF TypeOK, tasks
<1>8. OneTurn'
  BY <1>1, <1>2, <1>6, TurnTaken
<1>9. Stamped'
  BY <1>1, <1>2, <1>6 DEF ObjInv, Stamped
<1>10. \A n \in Node : Satisfied(n) => Satisfied(n)'
  BY <1>3, <1>4, GraphFacts DEF Satisfied
<1>11. Respects
  <2>1. \A e \in Driver : pc'[e] # "launch"
    BY <1>1, <1>6, OneLaunches
  <2>2. \A n \in Node : flight[d][n] = "none"
    BY <1>1, NothingInFlight
  <2>3. \A e \in Driver, n \in Node : flight[e][n] # "none" => node'[n] = node[n]
    BY <1>3, <1>4, GraphFacts DEF ObjInv, Flights, Flying
  <2>4. \A n \in Node : node'[n] \in {"pending", "blocked-by-dep"} \/ node[n] \notin {"pending", "blocked-by-dep"}
    BY <1>3, <1>4, GraphFacts
  <2>5. QED
    BY <1>2, <1>6, <1>10, <2>1, <2>2, <2>3, <2>4 DEF Respects, tasks
<1>12. Topped'
  <2>1. node'[Integ] = node[Integ]
    BY <1>3, <1>4, GraphFacts
  <2>2. QED
    BY <1>2, <1>6, <1>10, <2>1 DEF ObjInv, Topped, BuildNodesComplete
<1>13. Links'
  <2>1. node'[Integ] = node[Integ]
    BY <1>3, <1>4, GraphFacts
  <2>2. UNCHANGED <<task, linked>>
    BY <1>2 DEF tasks
  <2>3. QED
    BY <1>3, <1>4, <1>6, <2>1, <2>2, GraphFacts DEF ObjInv, Links, Stopped
<1>14. StoppedHasCause'
  BY <1>3, <1>4, GraphFacts DEF ObjInv, StoppedHasCause, Stopped
<1>15. QED
  BY <1>2, <1>7, <1>8, <1>9, <1>11, <1>12, <1>13, <1>14, RespectsKeeps

\* What waited may be pending again, and nothing else changes.
LEMMA UnblockedFields ==
  ASSUME NEW nodes \in [Part -> Stage]
  PROVE  /\ Unblocked(nodes) \in [Part -> Stage]
         /\ \A n \in Part : \/ Unblocked(nodes)[n] = nodes[n]
                            \/ n \in Node /\ nodes[n] = "blocked-by-dep" /\ Unblocked(nodes)[n] = "pending"
BY DEF Unblocked, Stage

\* Parts are made pending and lose their blocker: linked ones that have stopped or that read
\* running while nobody runs them.
Rearms(parts) ==
  /\ parts \subseteq Part
  /\ \A n \in parts \cap Node :
       /\ n \in linked
       /\ node[n] \in {"running", "blocked", "failed"}
       /\ \A d \in Driver : flight[d][n] = "none"

LEMMA RearmFields ==
  ASSUME TypeOK, NEW parts, Rearms(parts),
         node' = Unblocked([n \in Part |-> IF n \in parts THEN "pending" ELSE node[n]])
  PROVE  /\ node' \in [Part -> Stage]
         /\ \A n \in parts : node'[n] = "pending"
         /\ \A n \in Part \ parts : node'[n] = node[n]
                \/ (n \in Node /\ node[n] = "blocked-by-dep" /\ node'[n] = "pending")
<1> DEFINE nodes == [n \in Part |-> IF n \in parts THEN "pending" ELSE node[n]]
<1>1. nodes \in [Part -> Stage]
  BY DEF TypeOK, Stage
<1>2. (\A n \in parts : nodes[n] = "pending") /\ \A n \in Part \ parts : nodes[n] = node[n]
  BY DEF Rearms
<1> HIDE DEF nodes
<1>3. node' = Unblocked(nodes)
  BY DEF nodes
<1>4. QED
  BY <1>1, <1>2, <1>3, UnblockedFields DEF Rearms

\* Whoever re-arms parts, at a place where nobody is about to launch.
LEMMA RearmKeeps ==
  ASSUME AllInDashboard, ObjInv, TypeOK', OneTurn', Stamped', NEW parts, Rearms(parts),
         UNCHANGED <<linked, flight, list>>,
         \A d \in Driver : pc'[d] # "launch",
         \A d \in Driver : pc'[d] = pc[d]
            \/ (pc'[d] \notin {"integrate", "patch", "merge"} /\ \A n \in Node : flight[d][n] = "none"),
         \A n \in parts : node'[n] = "pending" /\ blocker'[n] = "none",
         \A n \in Part \ parts :
           /\ node'[n] = node[n] \/ (n \in Node /\ node[n] = "blocked-by-dep" /\ node'[n] = "pending")
           /\ blocker'[n] = blocker[n],
         \A n \in Part : task'[n] = "absent" <=> task[n] = "absent",
         \A n \in stale' : n \in stale,
         status' = status \/ status' = "active"
  PROVE  ObjInv' /\ Kept
<1>1. \A d \in Driver, n \in Node : flight[d][n] # "none" => node[n] = "running" /\ n \notin parts
  BY DEF ObjInv, Flights, Flying, Rearms
<1>2. \A n \in Node : Satisfied(n) => Satisfied(n)'
  BY GraphFacts DEF Rearms, Satisfied
<1>3. Respects
  BY <1>1, <1>2, GraphFacts DEF Respects
<1>4. Topped'
  <2>1. node'[Integ] = node[Integ] \/ node'[Integ] = "pending"
    BY GraphFacts
  <2>2. BuildNodesComplete => BuildNodesComplete'
    BY <1>2 DEF BuildNodesComplete
  <2>3. QED
    BY <2>1, <2>2 DEF ObjInv, Topped
<1>5. Links'
  <2>1. \A n \in Node \ linked : n \notin parts
    BY DEF Rearms
  <2>2. node[Integ] = "pending" => node'[Integ] = "pending"
    BY GraphFacts
  <2>3. linked \subseteq Part
    BY DEF ObjInv, TypeOK
  <2>4. \A n \in Part : Stopped(n)' => n \notin parts /\ Stopped(n)
    BY DEF Stopped
  <2>5. QED
    BY <2>1, <2>2, <2>3, <2>4, GraphFacts DEF ObjInv, Links
<1>6. StoppedHasCause'
  BY GraphFacts DEF ObjInv, StoppedHasCause, Stopped, Rearms
<1>7. QED
  BY <1>3, <1>4, <1>5, <1>6, RespectsKeeps

LEMMA ResumeKeeps ==
  ASSUME AllInDashboard, ObjInv, NEW d \in Driver, Resume(d)
  PROVE  ObjInv' /\ Kept
<1> DEFINE back == {n \in Node : Stopped(n) /\ n \in linked /\ Active(n)}
<1>1. Turn(d) /\ pc[d] = "resume" /\ TypeOK
  BY DEF ObjInv, Resume, At
<1>2. /\ UNCHANGED <<linked, runner, tasks, flight, list, saw, boot, count>>
      /\ status' = "active" /\ pc' = [pc EXCEPT ![d] = "loop"]
      /\ node' = Unblocked([n \in Part |-> IF n \in back THEN "pending" ELSE node[n]])
      /\ blocker' = [n \in Part |-> IF n \in back THEN "none" ELSE blocker[n]]
  BY DEF Resume, Goto
<1>3. Rearms(back)
  BY GraphFacts DEF Rearms, Stopped, ObjInv, Flights, Flying
<1> HIDE DEF back
<1>4. /\ node' \in [Part -> Stage]
      /\ \A n \in back : node'[n] = "pending"
      /\ \A n \in Part \ back : node'[n] = node[n]
             \/ (n \in Node /\ node[n] = "blocked-by-dep" /\ node'[n] = "pending")
  BY <1>1, <1>2, <1>3, RearmFields
<1>5. /\ blocker' \in [Part -> {"none", "infra", "decision", "hard", "publish"}]
      /\ \A n \in back : blocker'[n] = "none"
      /\ \A n \in Part \ back : blocker'[n] = blocker[n]
  BY <1>1, <1>2, <1>3 DEF TypeOK, Rearms
<1>6. pc' \in [Driver -> Place] /\ pc'[d] = "loop" /\ \A e \in Driver \ {d} : pc'[e] = pc[e]
  BY <1>1, <1>2 DEF TypeOK, Place
<1>7. TypeOK'
  BY <1>1, <1>2, <1>4, <1>5, <1>6 DEF TypeOK, Status, tasks
<1>8. OneTurn'
  BY <1>1, <1>2, <1>6, TurnTaken
<1>9. Stamped'
  BY <1>1, <1>2, <1>6 DEF ObjInv, Stamped
<1>10. \A e \in Driver : pc'[e] # "launch"
  BY <1>1, <1>6, OneLaunches
<1>11. \A n \in Node : flight[d][n] = "none"
  BY <1>1, NothingInFlight
<1>12. QED
  BY <1>2, <1>3, <1>4, <1>5, <1>6, <1>7, <1>8, <1>9, <1>10, <1>11, RearmKeeps DEF tasks

-----------------------------------------------------------------------------
(* The integration *)

\* A call moves the integration on.
LEMMA IntegrationKeeps ==
  ASSUME AllInDashboard, ObjInv, TypeOK', NEW d \in Driver, Turn(d),
         pc[d] \in {"integrate", "patch", "merge"},
         UNCHANGED <<status, runner, flight, list>>,
         \A e \in Driver \ {d} : pc'[e] = pc[e],
         pc'[d] \in {"patch", "merge", "final", "leave"},
         \A n \in Node : node'[n] = node[n] /\ blocker'[n] = blocker[n] /\ task'[n] = task[n]
                         /\ (n \in linked' <=> n \in linked),
         \A n \in stale' : n \in stale,
         Integ \in linked => Integ \in linked',
         Integ \in linked' => task'[Integ] # "absent",
         Integ \notin linked' => node'[Integ] = node[Integ],
         task[Integ] # "absent" => task'[Integ] # "absent",
         pc'[d] = "patch" => task'[Integ] # "absent",
         pc'[d] = "merge" => Integ \in linked',
         Stopped(Integ)' => blocker'[Integ] # "none"
  PROVE  ObjInv' /\ Kept
<1>1. BuildNodesComplete /\ \A n \in Node : Satisfied(n)' <=> Satisfied(n)
  BY DEF ObjInv, Topped, Satisfied
<1>2. OneTurn'
  BY TurnTaken DEF ObjInv
<1>3. Stamped'
  BY DEF ObjInv, Stamped
<1>4. Respects
  <2>1. \A e \in Driver : pc'[e] # "launch"
    BY OneLaunches DEF ObjInv
  <2>2. \A n \in Node : flight[d][n] = "none"
    BY NothingInFlight
  <2>3. QED
    BY <1>1, <2>1, <2>2 DEF Respects
<1>5. Topped'
  BY <1>1 DEF Topped, BuildNodesComplete
<1>6. StoppedHasCause'
  BY GraphFacts DEF ObjInv, StoppedHasCause, Stopped
<1>7. Links'
  <2>1. linked' \subseteq Part /\ linked \subseteq Part
    BY DEF ObjInv, TypeOK
  <2>2. \A n \in linked' : task'[n] # "absent"
    BY <2>1, GraphFacts DEF ObjInv, Links
  <2>3. \A n \in Node \ linked' : task'[n] # "absent" => node'[n] = "running"
    BY DEF ObjInv, Links
  <2>4. Integ \notin linked' => node'[Integ] = "pending"
    BY DEF ObjInv, Links
  <2>5. \A n \in Part : Stopped(n)' /\ task'[n] = "absent" => blocker'[n] = "decision"
    BY <2>2, <2>4, GraphFacts DEF ObjInv, Links, Stopped
  <2>6. \A e \in Driver :
          /\ pc'[e] = "patch" => task'[Integ] # "absent"
          /\ pc'[e] = "merge" => Integ \in linked'
    BY DEF ObjInv, Links
  <2>7. QED
    BY <2>2, <2>3, <2>4, <2>5, <2>6 DEF Links
<1>8. QED
  BY <1>2, <1>3, <1>4, <1>5, <1>6, <1>7, RespectsKeeps

LEMMA IntegrateKeeps ==
  ASSUME AllInDashboard, ObjInv, NEW d \in Driver, Integrate(d)
  PROVE  ObjInv' /\ Kept
<1>1. Turn(d) /\ pc[d] = "integrate" /\ TypeOK
  BY DEF ObjInv, Integrate, At
<1>2. UNCHANGED <<graph, stale, swept, visited, flight, list, saw, boot, count>>
  BY DEF Integrate
<1>3. Integ \in linked => task[Integ] # "absent"
  BY DEF ObjInv, Links
<1>4. PICK to \in {"patch", "leave"} : pc' = [pc EXCEPT ![d] = to] /\ (to = "patch" => task'[Integ] # "absent")
  BY <1>1, <1>3, GraphFacts DEF Integrate, Goto, TypeOK
<1>5. pc' \in [Driver -> Place] /\ pc'[d] = to /\ \A e \in Driver \ {d} : pc'[e] = pc[e]
  BY <1>1, <1>4 DEF TypeOK, Place
<1>6. task' = task \/ task' = [task EXCEPT ![Integ] = "active"]
  BY DEF Integrate
<1>7. /\ task' \in [Part -> {"absent", "active", "yielded", "infra", "decision", "hard", "merge-ready"}]
      /\ \A n \in Node : task'[n] = task[n]
      /\ task[Integ] # "absent" => task'[Integ] # "absent"
  BY <1>1, <1>6, GraphFacts DEF TypeOK
<1>8. TypeOK'
  BY <1>1, <1>2, <1>5, <1>7 DEF TypeOK, graph
<1>9. UNCHANGED <<status, node, blocker, linked, runner, stale>>
  BY <1>2 DEF graph
<1>10. Stopped(Integ)' => blocker'[Integ] # "none"
  BY <1>9, GraphFacts DEF ObjInv, StoppedHasCause, Stopped
<1>11. QED
  BY <1>1, <1>2, <1>3, <1>4, <1>5, <1>7, <1>8, <1>9, <1>10, IntegrationKeeps

LEMMA StartIntegrationKeeps ==
  ASSUME AllInDashboard, ObjInv, NEW d \in Driver, StartIntegration(d)
  PROVE  ObjInv' /\ Kept
<1>1. Turn(d) /\ pc[d] = "patch" /\ TypeOK
  BY DEF ObjInv, StartIntegration, At
<1>2. /\ node' = [node EXCEPT ![Integ] = "running"] /\ linked' = linked \cup {Integ}
      /\ stale' = stale \ {Integ} /\ pc' = [pc EXCEPT ![d] = "merge"]
      /\ UNCHANGED <<status, blocker, runner, task, swept, visited, flight, list, saw, boot, count>>
  BY DEF StartIntegration, Goto
<1>3. pc' \in [Driver -> Place] /\ pc'[d] = "merge" /\ \A e \in Driver \ {d} : pc'[e] = pc[e]
  BY <1>1, <1>2 DEF TypeOK, Place
<1>4. node' \in [Part -> Stage] /\ node'[Integ] = "running" /\ \A n \in Node : node'[n] = node[n]
  BY <1>1, <1>2, GraphFacts DEF TypeOK, Stage
<1>5. TypeOK'
  BY <1>1, <1>2, <1>3, <1>4, GraphFacts DEF TypeOK
<1>6. task[Integ] # "absent" /\ ~Stopped(Integ)'
  BY <1>1, <1>4 DEF ObjInv, Links, Stopped
<1>7. \A n \in Node : n \in linked' <=> n \in linked
  BY <1>2, GraphFacts
<1>8. QED
  BY <1>1, <1>2, <1>3, <1>4, <1>5, <1>6, <1>7, IntegrationKeeps

LEMMA MergeConflictKeeps ==
  ASSUME AllInDashboard, ObjInv, NEW d \in Driver, MergeConflict(d)
  PROVE  ObjInv' /\ Kept
<1>1. Turn(d) /\ pc[d] = "merge" /\ TypeOK /\ Integ \in linked
  BY DEF ObjInv, MergeConflict, At, Links
<1>2. /\ node' = [node EXCEPT ![Integ] = "blocked"] /\ blocker' = [blocker EXCEPT ![Integ] = "decision"]
      /\ task' = [task EXCEPT ![Integ] = "decision"]
      /\ stale' = stale \ {Integ} /\ pc' = [pc EXCEPT ![d] = "final"]
      /\ UNCHANGED <<status, linked, runner, swept, visited, flight, list, saw, boot, count>>
  BY DEF MergeConflict, Goto
<1>3. pc' \in [Driver -> Place] /\ pc'[d] = "final" /\ \A e \in Driver \ {d} : pc'[e] = pc[e]
  BY <1>1, <1>2 DEF TypeOK, Place
<1>4. /\ node' \in [Part -> Stage] /\ \A n \in Node : node'[n] = node[n]
      /\ blocker' \in [Part -> {"none", "infra", "decision", "hard", "publish"}]
      /\ blocker'[Integ] = "decision" /\ \A n \in Node : blocker'[n] = blocker[n]
      /\ task' \in [Part -> {"absent", "active", "yielded", "infra", "decision", "hard", "merge-ready"}]
      /\ task'[Integ] = "decision" /\ \A n \in Node : task'[n] = task[n]
  BY <1>1, <1>2, GraphFacts DEF TypeOK, Stage
<1>5. TypeOK'
  BY <1>1, <1>2, <1>3, <1>4 DEF TypeOK
<1>6. QED
  BY <1>1, <1>2, <1>3, <1>4, <1>5, IntegrationKeeps

LEMMA SettleIntegrationKeeps ==
  ASSUME AllInDashboard, ObjInv, NEW d \in Driver, SettleIntegration(d)
  PROVE  ObjInv' /\ Kept
<1> DEFINE to  == CASE task[Integ] = "yielded" -> "running"
                    [] task[Integ] = "merge-ready" -> "gate-satisfied"
                    [] OTHER -> "blocked"
           why == IF task[Integ] \in {"yielded", "merge-ready"} THEN "none" ELSE task[Integ]
<1>1. /\ Turn(d) /\ pc[d] = "merge" /\ TypeOK /\ Integ \in linked /\ Integ \in Part
      /\ task[Integ] \in {"yielded", "infra", "decision", "hard", "merge-ready"}
  BY GraphFacts DEF ObjInv, SettleIntegration, At, Links, TypeOK
<1>2. /\ node' = [node EXCEPT ![Integ] = to] /\ blocker' = [blocker EXCEPT ![Integ] = why]
      /\ pc' = [pc EXCEPT ![d] = "final"]
      /\ UNCHANGED <<status, linked, runner, tasks, flight, list, saw, boot, count>>
  BY DEF SettleIntegration, Goto
<1>3. /\ to \in {"running", "gate-satisfied", "blocked"} /\ why \in {"none", "infra", "decision", "hard"}
      /\ to = "blocked" => why # "none"
  BY <1>1
<1> HIDE DEF to, why
<1>4. pc' \in [Driver -> Place] /\ pc'[d] = "final" /\ \A e \in Driver \ {d} : pc'[e] = pc[e]
  BY <1>1, <1>2 DEF TypeOK, Place
<1>5. /\ node' \in [Part -> Stage] /\ node'[Integ] = to /\ \A n \in Node : node'[n] = node[n]
      /\ blocker' \in [Part -> {"none", "infra", "decision", "hard", "publish"}]
      /\ blocker'[Integ] = why /\ \A n \in Node : blocker'[n] = blocker[n]
  BY <1>1, <1>2, <1>3, GraphFacts DEF TypeOK, Stage
<1>6. TypeOK'
  BY <1>1, <1>2, <1>4, <1>5 DEF TypeOK, tasks
<1>7. UNCHANGED <<task, stale>>
  BY <1>2 DEF tasks
<1>8. Stopped(Integ)' => blocker'[Integ] # "none"
  BY <1>3, <1>5 DEF Stopped
<1>9. QED
  BY <1>1, <1>2, <1>4, <1>5, <1>6, <1>7, <1>8, IntegrationKeeps

-----------------------------------------------------------------------------
(* The reconciler and the founder *)

\* A run begins, if the objective is not cancelled.
LEMMA BeginFields ==
  ASSUME AllInDashboard, ObjInv, NEW d \in Driver, pc[d] = "idle", Idle(Dashboard), Begin(d, status),
         UNCHANGED flight
  PROVE  /\ pc' \in [Driver -> Place] /\ runner' \in Process \cup {"none", "gone"}
         /\ OneTurn' /\ Stamped'
         /\ \A e \in Driver : /\ pc'[e] # "launch"
                              /\ \/ pc'[e] = pc[e]
                                 \/ pc'[e] = "start" /\ \A n \in Node : flight[e][n] = "none"
<1>1. \A e \in Driver : Awaiting(e)
  BY DEF Idle, AllInDashboard
<1>2. TypeOK /\ Dashboard \in Process
  BY DEF ObjInv, Process
<1>3. CASE status = "cancelled"
  BY <1>1, <1>2, <1>3, SMTT(20) DEF Begin, ObjInv, TypeOK, OneTurn, Stamped, Awaiting
<1>4. CASE status # "cancelled"
  <2>1. pc' = [pc EXCEPT ![d] = "start"] /\ runner' = Dashboard
    BY <1>4 DEF Begin, Goto, AllInDashboard
  <2>2. pc' \in [Driver -> Place] /\ pc'[d] = "start" /\ \A e \in Driver \ {d} : pc'[e] = pc[e]
    BY <1>2, <2>1 DEF TypeOK, Place
  <2>3. \A n \in Node : flight[d][n] = "none"
    BY NothingInFlight
  <2>4. OneTurn'
    BY <1>1, <2>2 DEF OneTurn, Awaiting
  <2>5. QED
    BY <1>1, <1>2, <2>1, <2>2, <2>3, <2>4 DEF Stamped, Awaiting
<1>5. QED
  BY <1>3, <1>4

\* resumeObjectiveNodes.
LEMMA ResumeFields ==
  ASSUME TypeOK, NEW parts, Rearms(parts), \A n \in parts : task[n] # "absent", ResumeNodes(parts)
  PROVE  /\ UNCHANGED <<linked, swept, visited>>
         /\ task' \in [Part -> {"absent", "active", "yielded", "infra", "decision", "hard", "merge-ready"}]
         /\ \A n \in Part : task'[n] = "absent" <=> task[n] = "absent"
         /\ stale' = stale \ parts
         /\ node' \in [Part -> Stage]
         /\ blocker' \in [Part -> {"none", "infra", "decision", "hard", "publish"}]
         /\ \A n \in parts : node'[n] = "pending" /\ blocker'[n] = "none"
         /\ \A n \in Part \ parts :
              /\ node'[n] = node[n] \/ (n \in Node /\ node[n] = "blocked-by-dep" /\ node'[n] = "pending")
              /\ blocker'[n] = blocker[n]
         /\ status' = status \/ status' = "active"
<1>1. /\ task' = [n \in Part |-> IF n \in parts THEN "active" ELSE task[n]]
      /\ stale' = stale \ parts
      /\ blocker' = [n \in Part |-> IF n \in parts THEN "none" ELSE blocker[n]]
      /\ UNCHANGED <<linked, swept, visited>>
  BY DEF ResumeNodes
<1>2. /\ task' \in [Part -> {"absent", "active", "yielded", "infra", "decision", "hard", "merge-ready"}]
      /\ \A n \in Part : task'[n] = "absent" <=> task[n] = "absent"
      /\ blocker' \in [Part -> {"none", "infra", "decision", "hard", "publish"}]
      /\ \A n \in parts : blocker'[n] = "none"
      /\ \A n \in Part \ parts : blocker'[n] = blocker[n]
  BY <1>1 DEF TypeOK, Rearms
<1>3. CASE parts = {}
  BY <1>1, <1>2, <1>3 DEF ResumeNodes, TypeOK
<1>4. CASE parts # {}
  <2>1. /\ node' = Unblocked([n \in Part |-> IF n \in parts THEN "pending" ELSE node[n]])
        /\ status' = "active"
    BY <1>4 DEF ResumeNodes
  <2>2. QED
    BY <1>1, <1>2, <2>1, RearmFields
<1>5. QED
  BY <1>3, <1>4

\* A run that somebody begins after parts were re-armed.
LEMMA RearmAndBegin ==
  ASSUME AllInDashboard, ObjInv, NEW d \in Driver, pc[d] = "idle", Idle(Dashboard),
         NEW parts, Rearms(parts), \A n \in parts : task[n] # "absent",
         ResumeNodes(parts), Begin(d, status), UNCHANGED <<flight, list, saw>>,
         count' \in [starts : 0 .. MaxStarts, kills : 0 .. MaxKills, periodic : 0 .. MaxPeriodic,
                     retries : [Part -> 0 .. MaxRetries]],
         boot' \in BOOLEAN
  PROVE  ObjInv' /\ Kept
<1>1. /\ pc' \in [Driver -> Place] /\ runner' \in Process \cup {"none", "gone"}
      /\ OneTurn' /\ Stamped'
      /\ \A e \in Driver : /\ pc'[e] # "launch"
                           /\ \/ pc'[e] = pc[e]
                              \/ pc'[e] = "start" /\ \A n \in Node : flight[e][n] = "none"
  BY BeginFields
<1>2. TypeOK
  BY DEF ObjInv
<1>3. /\ UNCHANGED <<linked, swept, visited>>
      /\ task' \in [Part -> {"absent", "active", "yielded", "infra", "decision", "hard", "merge-ready"}]
      /\ \A n \in Part : task'[n] = "absent" <=> task[n] = "absent"
      /\ stale' = stale \ parts
      /\ node' \in [Part -> Stage]
      /\ blocker' \in [Part -> {"none", "infra", "decision", "hard", "publish"}]
      /\ \A n \in parts : node'[n] = "pending" /\ blocker'[n] = "none"
      /\ \A n \in Part \ parts :
           /\ node'[n] = node[n] \/ (n \in Node /\ node[n] = "blocked-by-dep" /\ node'[n] = "pending")
           /\ blocker'[n] = blocker[n]
      /\ status' = status \/ status' = "active"
  BY <1>2, ResumeFields
<1>4. TypeOK'
  BY <1>1, <1>2, <1>3 DEF TypeOK, Status
<1>5. \A e \in Driver : pc'[e] = pc[e]
         \/ (pc'[e] \notin {"integrate", "patch", "merge"} /\ \A n \in Node : flight[e][n] = "none")
  BY <1>1
<1>6. QED
  BY <1>1, <1>3, <1>4, <1>5, RearmKeeps

\* Parts that may be re-armed are re-armed up to the write after which the process dies: a
\* part whose task is written and which is not yet pending keeps its status and its blocker.
LEMMA CutShortKeeps ==
  ASSUME AllInDashboard, ObjInv, NEW p \in Process, NEW parts, Rearms(parts),
         \A n \in parts : task[n] # "absent", CutShort(p, parts)
  PROVE  ObjInv' /\ Kept
<1>1. Dies(p) /\ TypeOK
  BY DEF CutShort, ObjInv
<1>2. /\ UNCHANGED linked
      /\ runner' \in Process \cup {"none", "gone"}
      /\ boot' = TRUE /\ swept' = {} /\ visited' = {}
      /\ pc' = [d \in Driver |-> "idle"]
      /\ flight' = [d \in Driver |-> [n \in Node |-> "none"]]
      /\ list' = [d \in Driver |-> {}]
      /\ saw' = [d \in Driver |-> FALSE]
      /\ count' \in [starts : 0 .. MaxStarts, kills : 0 .. MaxKills, periodic : 0 .. MaxPeriodic,
                     retries : [Part -> 0 .. MaxRetries]]
      /\ OneTurn' /\ Stamped' /\ Flights' /\ Listed'
  BY <1>1, DeathFields
<1>3. PICK done \in SUBSET parts, half \in SUBSET parts :
        /\ task' = [n \in Part |-> IF n \in done \cup half THEN "active" ELSE task[n]]
        /\ stale' = stale \ (done \cup half)
        /\ blocker' = [n \in Part |-> IF n \in done THEN "none" ELSE blocker[n]]
        /\ \/ node' = [n \in Part |-> IF n \in done THEN "pending" ELSE node[n]] /\ UNCHANGED status
           \/ /\ node' = Unblocked([n \in Part |-> IF n \in done THEN "pending" ELSE node[n]])
              /\ status' = "active"
  BY DEF CutShort
<1>4. Rearms(done) /\ done \subseteq Part
  BY DEF Rearms
<1>5. /\ node' \in [Part -> Stage]
      /\ \A n \in done : node'[n] = "pending"
      /\ \A n \in Part \ done : node'[n] = node[n]
             \/ (n \in Node /\ node[n] = "blocked-by-dep" /\ node'[n] = "pending")
  <2>1. CASE node' = [n \in Part |-> IF n \in done THEN "pending" ELSE node[n]]
    BY <1>1, <1>4, <2>1 DEF TypeOK, Stage
  <2>2. CASE node' = Unblocked([n \in Part |-> IF n \in done THEN "pending" ELSE node[n]])
    BY <1>1, <1>4, <2>2, RearmFields
  <2>3. QED
    BY <1>3, <2>1, <2>2
<1>6. /\ blocker' \in [Part -> {"none", "infra", "decision", "hard", "publish"}]
      /\ \A n \in done : blocker'[n] = "none"
      /\ \A n \in Part \ done : blocker'[n] = blocker[n]
  BY <1>1, <1>3, <1>4 DEF TypeOK
<1>7. /\ task' \in [Part -> {"absent", "active", "yielded", "infra", "decision", "hard", "merge-ready"}]
      /\ \A n \in Part : task'[n] = "absent" <=> task[n] = "absent"
      /\ status' = status \/ status' = "active"
  BY <1>1, <1>3 DEF TypeOK
<1>8. TypeOK'
  BY <1>1, <1>2, <1>3, <1>5, <1>6, <1>7 DEF TypeOK, Place, Status
<1>9. \A n \in Node : Satisfied(n) => Satisfied(n)'
  BY <1>4, <1>5, GraphFacts DEF Rearms, Satisfied
<1>10. Grounded'
  BY <1>5, <1>9, GraphFacts DEF ObjInv, Grounded, Done
<1>11. Topped'
  <2>1. node'[Integ] = node[Integ] \/ node'[Integ] = "pending"
    BY <1>5, GraphFacts
  <2>2. BuildNodesComplete => BuildNodesComplete'
    BY <1>9 DEF BuildNodesComplete
  <2>3. QED
    BY <1>2, <1>7, <2>1, <2>2 DEF ObjInv, Topped
<1>12. Links'
  <2>1. \A n \in Node \ linked : n \notin done
    BY <1>4 DEF Rearms
  <2>2. node[Integ] = "pending" => node'[Integ] = "pending"
    BY <1>5, GraphFacts
  <2>3. linked \subseteq Part
    BY <1>1 DEF TypeOK
  <2>4. \A n \in Part : Stopped(n)' => n \notin done /\ Stopped(n)
    BY <1>5 DEF Stopped
  <2>5. \A n \in Node \ linked : task'[n] # "absent" => node'[n] = "running"
    BY <1>5, <1>7, <2>1, GraphFacts DEF ObjInv, Links
  <2>6. \A n \in Part : Stopped(n)' /\ task'[n] = "absent" => blocker'[n] = "decision"
    BY <1>6, <1>7, <2>4 DEF ObjInv, Links
  <2>7. QED
    BY <1>2, <1>7, <2>2, <2>3, <2>5, <2>6 DEF ObjInv, Links
<1>13. StoppedHasCause'
  BY <1>5, <1>6, <1>4, GraphFacts DEF ObjInv, StoppedHasCause, Stopped, Rearms
<1>14. QED
  BY <1>2, <1>8, <1>9, <1>10, <1>11, <1>12, <1>13 DEF ObjInv, Kept

\* The reconciler takes running nodes back only where nobody drives the objective.
LEMMA OrphansRearm ==
  ASSUME ObjInv, Idle(Dashboard), ~OwnerLive
  PROVE  /\ Rearms(Resumable(Abandoned, OwnerGone))
         /\ \A n \in Resumable(Abandoned, OwnerGone) : task[n] # "absent"
<1>1. \A e \in Driver : pc[e] = "idle"
  BY DEF OwnerLive, ObjInv, Stamped, Process
<1>2. \A e \in Driver, n \in Node : flight[e][n] = "none"
  BY <1>1, NothingInFlight
<1>3. QED
  BY <1>2 DEF Rearms, Resumable, Abandoned

LEMMA ReconcileKeeps ==
  ASSUME AllInDashboard, ObjInv, NEW d \in Driver, Reconcile(d)
  PROVE  ObjInv' /\ Kept
<1> DEFINE revived == Resumable(Abandoned, OwnerGone)
<1>1. /\ pc[d] = "idle" /\ Idle(Dashboard) /\ ~OwnerLive
      /\ ResumeNodes(revived) /\ Begin(d, status) /\ UNCHANGED <<flight, list, saw>>
      /\ boot' = FALSE
      /\ UNCHANGED count \/ (count.periodic < MaxPeriodic /\ count' = [count EXCEPT !.periodic = @ + 1])
  BY DEF Reconcile
<1>2. Rearms(revived) /\ \A n \in revived : task[n] # "absent"
  BY <1>1, OrphansRearm
<1>3. count' \in [starts : 0 .. MaxStarts, kills : 0 .. MaxKills, periodic : 0 .. MaxPeriodic,
                  retries : [Part -> 0 .. MaxRetries]]
  BY <1>1, GraphFacts DEF ObjInv, TypeOK
<1> HIDE DEF revived
<1>4. QED
  BY <1>1, <1>2, <1>3, RearmAndBegin

LEMMA ReconcileCutShortKeeps ==
  ASSUME AllInDashboard, ObjInv, NEW d \in Driver, ReconcileCutShort(d)
  PROVE  ObjInv' /\ Kept
<1>1. /\ Idle(Dashboard) /\ ~OwnerLive /\ Dashboard \in Process
      /\ CutShort(Dashboard, Resumable(Abandoned, OwnerGone))
  BY DEF ReconcileCutShort, Process
<1>2. QED
  BY <1>1, OrphansRearm, CutShortKeeps

LEMMA RunKeeps ==
  ASSUME AllInDashboard, ObjInv, NEW d \in Driver, Run(d)
  PROVE  ObjInv' /\ Kept
<1>1. /\ Asked /\ Idle(Dashboard) /\ pc[d] = "idle" /\ Begin(d, status)
      /\ UNCHANGED <<status, node, blocker, linked, tasks, flight, list, saw, boot>>
  BY DEF Run, Clear, AllInDashboard
<1>2. /\ pc' \in [Driver -> Place] /\ runner' \in Process \cup {"none", "gone"}
      /\ OneTurn' /\ Stamped'
      /\ \A e \in Driver : /\ pc'[e] # "launch"
                           /\ \/ pc'[e] = pc[e]
                              \/ pc'[e] = "start" /\ \A n \in Node : flight[e][n] = "none"
  BY <1>1, BeginFields
<1>3. TypeOK'
  BY <1>1, <1>2, AskedFields DEF ObjInv, TypeOK, tasks
<1>4. Rearms({})
  BY DEF Rearms
<1>5. \A e \in Driver : pc'[e] = pc[e]
         \/ (pc'[e] \notin {"integrate", "patch", "merge"} /\ \A n \in Node : flight[e][n] = "none")
  BY <1>2
<1>6. UNCHANGED <<task, stale>>
  BY <1>1 DEF tasks
<1>7. QED
  BY <1>1, <1>2, <1>3, <1>4, <1>5, <1>6, RearmKeeps

\* What the founder's retry re-arms has stopped, or was aged by nobody's running it.
LEMMA PlanRearms ==
  ASSUME AllInDashboard, ObjInv, Idle(Dashboard)
  PROVE  /\ Rearms(Resumable(RecoveryPlan, FALSE))
         /\ \A n \in Resumable(RecoveryPlan, FALSE) : task[n] # "absent"
<1> DEFINE resumed == Resumable(RecoveryPlan, FALSE)
<1>1. \A e \in Driver, n \in Node : flight[e][n] \in {"none", "work"}
  BY DEF Idle, Awaiting, AllInDashboard
<1>2. resumed \subseteq Part /\ \A n \in resumed : n \in linked /\ task[n] # "absent"
  BY DEF Resumable, RecoveryPlan
<1>3. ASSUME NEW n \in resumed, n \in Node
      PROVE  node[n] \in {"running", "blocked", "failed"} /\ \A e \in Driver : flight[e][n] = "none"
  <2>1. CASE blocker[n] = "infra"
    BY <1>3, <2>1 DEF ObjInv, StoppedHasCause, Stopped, Flights, Flying
  <2>2. CASE node[n] = "running" /\ n \in stale
    BY <1>1, <1>3, <2>2 DEF ObjInv, Flights, Flying
  <2>3. QED
    BY <2>1, <2>2 DEF Resumable, RecoveryPlan
<1>4. QED
  BY <1>2, <1>3 DEF Rearms

LEMMA RetryKeeps ==
  ASSUME AllInDashboard, ObjInv, NEW d \in Driver, Retry(d)
  PROVE  ObjInv' /\ Kept
<1> DEFINE resumed == Resumable(RecoveryPlan, FALSE)
<1>1. /\ Asked /\ Idle(Dashboard) /\ pc[d] = "idle" /\ ResumeNodes(resumed) /\ Begin(d, status)
      /\ UNCHANGED <<flight, list, saw, boot>>
  BY DEF Retry, Clear, AllInDashboard
<1>2. Rearms(resumed) /\ \A n \in resumed : task[n] # "absent"
  BY <1>1, PlanRearms
<1>3. boot' \in BOOLEAN /\ TypeOK
  BY <1>1 DEF ObjInv, TypeOK
<1> HIDE DEF resumed
<1>4. QED
  BY <1>1, <1>2, <1>3, AskedFields, RearmAndBegin

LEMMA RetryCutShortKeeps ==
  ASSUME AllInDashboard, ObjInv, NEW d \in Driver, RetryCutShort(d)
  PROVE  ObjInv' /\ Kept
<1>1. /\ Idle(Dashboard) /\ ProcessOf[d] \in Process
      /\ CutShort(ProcessOf[d], Resumable(RecoveryPlan, FALSE))
  BY DEF RetryCutShort, Clear, AllInDashboard, Process
<1>2. QED
  BY <1>1, PlanRearms, CutShortKeeps

LEMMA AnswerKeeps ==
  ASSUME AllInDashboard, ObjInv, NEW d \in Driver, NEW n \in Part, Answer(d, n)
  PROVE  ObjInv' /\ Kept
<1>1. /\ Asked /\ Idle(Dashboard) /\ pc[d] = "idle" /\ task[n] = "decision"
      /\ task' = [task EXCEPT ![n] = "active"]
      /\ UNCHANGED <<status, linked, stale, swept, visited, flight, list, saw, boot>>
  BY DEF Answer, Clear, AllInDashboard
<1>2. TypeOK
  BY DEF ObjInv
<1>3. /\ task' \in [Part -> {"absent", "active", "yielded", "infra", "decision", "hard", "merge-ready"}]
      /\ \A m \in Part : task'[m] = "absent" <=> task[m] = "absent"
  BY <1>1, <1>2 DEF TypeOK
<1>4. count' \in [starts : 0 .. MaxStarts, kills : 0 .. MaxKills, periodic : 0 .. MaxPeriodic,
                  retries : [Part -> 0 .. MaxRetries]]
  BY <1>1, <1>2, AskedFields
<1>5. CASE node[n] = "blocked" \/ blocker[n] # "none"
  <2>1. /\ node' = [node EXCEPT ![n] = "pending"] /\ blocker' = [blocker EXCEPT ![n] = "none"]
        /\ Begin(d, status)
    BY <1>5 DEF Answer
  <2>2. Rearms({n})
    BY <1>1, <1>5 DEF Rearms, ObjInv, StoppedHasCause, Stopped, Flights, Flying, Links
  <2>3. /\ pc' \in [Driver -> Place] /\ runner' \in Process \cup {"none", "gone"}
        /\ OneTurn' /\ Stamped'
        /\ \A e \in Driver : /\ pc'[e] # "launch"
                             /\ \/ pc'[e] = pc[e]
                                \/ pc'[e] = "start" /\ \A m \in Node : flight[e][m] = "none"
    BY <1>1, <2>1, BeginFields
  <2>4. /\ node' \in [Part -> Stage] /\ blocker' \in [Part -> {"none", "infra", "decision", "hard", "publish"}]
        /\ node'[n] = "pending" /\ blocker'[n] = "none"
        /\ \A m \in Part \ {n} : node'[m] = node[m] /\ blocker'[m] = blocker[m]
    BY <1>2, <2>1 DEF TypeOK, Stage
  <2>5. TypeOK'
    BY <1>1, <1>2, <1>3, <1>4, <2>3, <2>4 DEF TypeOK
  <2>6. \A e \in Driver : pc'[e] = pc[e]
           \/ (pc'[e] \notin {"integrate", "patch", "merge"} /\ \A m \in Node : flight[e][m] = "none")
    BY <2>3
  <2>7. QED
    BY <1>1, <1>3, <2>2, <2>3, <2>4, <2>5, <2>6, RearmKeeps
<1>6. CASE ~(node[n] = "blocked" \/ blocker[n] # "none")
  <2>1. UNCHANGED <<node, blocker, pc, runner>>
    BY <1>6 DEF Answer
  <2>2. TypeOK'
    BY <1>1, <1>2, <1>3, <1>4, <2>1 DEF TypeOK
  <2>3. QED
    BY <1>1, <1>3, <2>1, <2>2, QuietKeeps DEF calls
<1>7. QED
  BY <1>5, <1>6

-----------------------------------------------------------------------------
(* The theorems *)

LEMMA StepHolds ==
  ASSUME AllInDashboard, ObjInv, [Next]_vars
  PROVE  ObjInv' /\ Kept
<1>1. ASSUME NEW d \in Driver, DriverStep(d)
      PROVE  ObjInv' /\ Kept
  BY <1>1, StartKeeps, ResumeKeeps, LoopKeeps, LaunchKeeps, AwaitKeeps, WakeKeeps, DrainKeeps,
     IntegrateKeeps, StartIntegrationKeeps, SettleIntegrationKeeps, FinalKeeps, LeaveKeeps,
     SetupKeeps, LinkKeeps, SettleKeeps, ThrowKeeps DEF DriverStep
<1>2. ASSUME NEW d \in Driver, Mishap(d)
      PROVE  ObjInv' /\ Kept
  BY <1>2, MergeConflictKeeps, IntegrationThrowsKeeps DEF Mishap
<1>3. ASSUME NEW n \in Part, TaskEnds(n) \/ Ages(n) \/ AutoRetry(n)
      PROVE  ObjInv' /\ Kept
  BY <1>3, TaskEndsKeeps, AgesKeeps, AutoRetryKeeps
<1>4. ASSUME SweepEnds \/ Sweep
      PROVE  ObjInv' /\ Kept
  BY <1>4, SweepEndsKeeps, ReconcileKeeps DEF Sweep
<1>5. ASSUME Founder
      PROVE  ObjInv' /\ Kept
  BY <1>5, CancelKeeps, RunKeeps, RetryKeeps, AnswerKeeps DEF Founder
<1>6. ASSUME NEW p \in Process, Kill(p)
      PROVE  ObjInv' /\ Kept
  BY <1>6, KillKeeps
<1>7. ASSUME NEW d \in Driver, ReconcileCutShort(d) \/ RetryCutShort(d)
      PROVE  ObjInv' /\ Kept
  BY <1>7, ReconcileCutShortKeeps, RetryCutShortKeeps
<1>8. CASE UNCHANGED vars
  <2>1. UNCHANGED <<status, node, blocker, linked, runner, task, stale, swept, visited,
                    pc, flight, list, saw, boot, count>>
    BY <1>8 DEF vars, graph, tasks, calls
  <2>2. TypeOK'
    BY <2>1 DEF ObjInv, TypeOK
  <2>3. QED
    BY <2>1, <2>2, QuietKeeps DEF calls
<1>9. QED
  BY <1>1, <1>2, <1>3, <1>4, <1>5, <1>6, <1>7, <1>8 DEF Next

LEMMA ObjInvHolds ==
  ASSUME AllInDashboard
  PROVE  Spec => []ObjInv
BY InitHolds, StepHolds, PTL DEF Spec

(* Work is built on work that passed, however many runs of the objective, retries, answers,
   sweeps and restarts there are: a node runs or is done only when what it depends on is done.
   (driveObjective, graph.mjs, resumeObjectiveNodes, the reconciler.) *)
THEOREM AlwaysBuiltOnDone ==
  ASSUME AllInDashboard
  PROVE  Spec => []BuiltOnDone
<1>1. ObjInv => BuiltOnDone
  BY DEF ObjInv, BuiltOnDone, Grounded, Done, Topped
<1>2. QED
  BY <1>1, ObjInvHolds, PTL

(* A part that has stopped says why, and a node that has not says nothing.
   (integrationOutcome, runNode, resumeObjectiveNodes, clearObjectiveNodeAfterDecision.) *)
THEOREM AlwaysStoppedHasCause ==
  ASSUME AllInDashboard
  PROVE  Spec => []StoppedHasCause
<1>1. ObjInv => StoppedHasCause
  BY DEF ObjInv
<1>2. QED
  BY <1>1, ObjInvHolds, PTL

(* No two calls of runObjective in the dashboard run one node's task, though nothing locks
   it.  (driveObjective, claimObjectiveRunner, resumeStrandedObjectives.) *)
THEOREM AlwaysOneRunPerNode ==
  ASSUME AllInDashboard
  PROVE  Spec => []OneRunPerNode
<1>1. ObjInv => OneRunPerNode
  BY DEF ObjInv, OneRunPerNode, Flights, Flying
<1>2. QED
  BY <1>1, ObjInvHolds, PTL

(* What reached its gate stays there: no late end of an older run, no retry and no answer
   takes a published node back.  (runNode, resumeObjectiveNodes.) *)
THEOREM DoneIsKept ==
  ASSUME AllInDashboard
  PROVE  Spec => DoneStaysDone
<1>1. ObjInv /\ [Next]_vars => [\A n \in Node : Satisfied(n) => Satisfied(n)']_vars
  BY StepHolds DEF Kept
<1>2. QED
  BY <1>1, ObjInvHolds, PTL DEF Spec, DoneStaysDone

(* A part of a live objective that has stopped, and whose task is not merge-ready, is in the
   inbox, or the auto-retry sweep will run its task, or the reconciler will run the part.
   (buildFounderInbox, autoRetryFailedTasks, strandedNodes.) *)
THEOREM AlwaysStopsAreSomebodys ==
  ASSUME AllInDashboard
  PROVE  Spec => []StopsAreSomebodys
<1>1. ObjInv => StopsAreSomebodys
  <2>1. SUFFICES ASSUME ObjInv, status # "cancelled", NEW n \in Part, Stopped(n), task[n] # "merge-ready"
                 PROVE  InInbox(n) \/ SweepTakes(n) \/ n \in Revivable
    BY DEF StopsAreSomebodys
  <2>2. task[n] \in {"absent", "active", "yielded", "infra", "decision", "hard"}
    BY <2>1 DEF ObjInv, TypeOK
  <2>3. CASE task[n] = "absent"
    BY <2>1, <2>3 DEF ObjInv, Links, InInbox, NodeAsks, Known
  <2>4. CASE task[n] \in {"active", "yielded"}
    <3>1. n \in linked
      BY <2>1, <2>4, GraphFacts DEF ObjInv, Links, Stopped
    <3>2. QED
      BY <2>1, <2>4, <3>1 DEF Revivable, Active
  <2>5. CASE task[n] = "infra"
    <3>1. count.retries[n] \in Nat
      BY <2>1, GraphFacts DEF ObjInv, TypeOK
    <3>2. QED
      BY <2>1, <2>5, <3>1, GraphFacts DEF InInbox, TaskAsks, SweepTakes
  <2>6. CASE task[n] \in {"decision", "hard"}
    BY <2>1, <2>6 DEF InInbox, TaskAsks
  <2>7. QED
    BY <2>2, <2>3, <2>4, <2>5, <2>6
<1>2. QED
  BY <1>1, ObjInvHolds, PTL

=============================================================================
