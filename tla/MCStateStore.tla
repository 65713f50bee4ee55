---------------------------- MODULE MCStateStore ----------------------------
(* Two processes on one state file, three commands, a window of two events, and a file
   that is absent, garbled, short or longer than the window. *)
EXTENDS StateStore

CONSTANTS c1, c2, c3, l1, l2, l3, dashboard, worker

MCProcs == {dashboard, worker}
MCStable == {c1}
MCFresh == {c2, c3}
Legacy(events) == File([Empty EXCEPT !.events = events])
MCFiles == {Absent, Garbled, Legacy(<<l1>>), Legacy(<<l1, l2, l3>>)}
MCOutsiders == {worker}
=============================================================================
