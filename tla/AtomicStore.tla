---------------------------- MODULE AtomicStore ----------------------------
(***************************************************************************)
(* What the transactional store promises the engine, the objective driver  *)
(* and the dashboard about one state file, whoever calls it and whatever    *)
(* crashes: a history of events that only ever grows at its end, in which   *)
(* a command appears at most once.  A store whose row was damaged may stop  *)
(* answering; it never answers with an older or a shorter history.          *)
(***************************************************************************)
EXTENDS Sequences, SequencesExt

CONSTANTS Commands,      \* idempotency keys: one event stands for the command's effect
          Histories      \* the histories a file may bring from before the database

VARIABLES log,           \* the events every reader is to see, oldest first
          readable       \* FALSE once the store answers nobody any more

vars == <<log, readable>>

Init == log \in Histories /\ readable = TRUE

Apply(c) ==
  /\ readable
  /\ ~Contains(log, c)
  /\ log' = Append(log, c)
  /\ UNCHANGED readable

Lose == readable /\ readable' = FALSE /\ UNCHANGED log

Next == Lose \/ \E c \in Commands : Apply(c)

Spec == Init /\ [][Next]_vars
=============================================================================
