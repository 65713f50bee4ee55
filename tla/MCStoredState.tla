---------------------------- MODULE MCStoredState ----------------------------
(***************************************************************************)
(* What the factory keeps on disk, checked for safety in one run: a task    *)
(* document and what the console shows of it, the founder's control file,   *)
(* and the state store.  They are different files, so a behaviour changes   *)
(* one of them and the others are at rest; `part' says which.               *)
(***************************************************************************)
EXTENDS TaskConsole, FounderDesk, StateStore

CONSTANTS c1, c2, l1, l2

VARIABLES part

TinyPipeline == <<"architect", "builder", "qa", "release">>

Both == {"dashboard", "worker"}

\* Both processes, and one of the three things the desk does.
MCDesks  == {Both}
MCTopics == {{"threads"}, {"questions"}, {"jobs"}}

\* A command that may be presented again and one that is not; a file that is absent,
\* garbled, as long as the window or longer.
MCStable == {c1}
MCFresh  == {c2}
Legacy(events) == File([Empty EXCEPT !.events = events])
MCFiles == {Absent, Garbled, Legacy(<<l1>>), Legacy(<<l1, l2>>)}

\* At rest a part is in one of its initial states, always the same.
MCInit ==
  /\ part \in {"task", "desk", "store"}
  /\ Init /\ DeskInit /\ StoreInit
  /\ part # "desk"  => topic = {"jobs"}
  /\ part # "store" => file = Legacy(<<l1>>)

\* Behaviours of the desk are followed up to the first lost update of the control file.
MCNext ==
  /\ UNCHANGED part
  /\ \/ part = "task" /\ Next /\ UNCHANGED <<deskVars, storeVars>>
     \/ part = "desk" /\ ~clobbered /\ DeskNext /\ UNCHANGED <<vars, storeVars>>
     \/ part = "store" /\ StoreNext /\ UNCHANGED <<vars, deskVars>>

MCSpec == MCInit /\ [][MCNext]_<<part, vars, deskVars, storeVars>>
=============================================================================
