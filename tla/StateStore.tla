----------------------------- MODULE StateStore -----------------------------
(***************************************************************************)
(* The transactional store behind every state file: sqlite-state.mjs (one  *)
(* SQLite database per file) and transactional-json.mjs (the first-touch   *)
(* import of a plain JSON file, and the JSON export rewritten after every   *)
(* mutation).  Several processes (dashboard, intent worker, wakeup worker,  *)
(* scripts) call it on one file; a call is several steps, one of which is   *)
(* a transaction, and a process may die between any two.                    *)
(*                                                                          *)
(* A document is abstracted to its events, the counter of events windowed   *)
(* away, and whether its status is "failed"; a command's effect on the      *)
(* document to one event, named after the command.                          *)
(***************************************************************************)
EXTENDS Integers, Sequences, FiniteSets, SequencesExt

CONSTANTS Procs,        \* processes that use the file
          Stable,       \* command ids that name what they do and may be presented again
          Fresh,        \* command ids made of a UUID: never presented a second time
          Outsiders,    \* processes that read, decide outside and then writeState()
          Window,       \* events kept in the document (FACTORY_STATE_EVENTS_WINDOW)
          Files,        \* what the JSON file may hold before the database exists
          MayFill,      \* whether the database may pass its size ceiling
          MayDamage     \* whether the stored row may become unparseable, once

VARIABLES row,          \* the entity row: [rev, doc, ok]; rev = 0 when there is none
          revisions,    \* state_revisions: the revision numbers recorded
          table,        \* the events table, by seq
          ledger,       \* commands: command ids recorded
          file,         \* the JSON file beside the database
          full,         \* the store's files are above the ceiling
          damaged,      \* a row was made unparseable
          issued,       \* Fresh commands already presented
          call          \* per process, the call it is in

storage == <<row, revisions, table, ledger>>
storeVars == <<row, revisions, table, ledger, file, full, damaged, issued, call>>

Commands == Stable \cup Fresh
FullMark == "state-store-full"
ImportId == "import:state"
Empty == [events |-> <<>>, dropped |-> 0, failed |-> FALSE]
NoRow == [rev |-> 0, doc |-> Empty, ok |-> TRUE]
File(d) == [holds |-> "document", doc |-> d]
Absent == [holds |-> "nothing", doc |-> Empty]
Garbled == [holds |-> "garbage", doc |-> Empty]
Idle == [pc |-> "idle", cmd |-> "none", doc |-> Empty, out |-> Empty]

-----------------------------------------------------------------------------
(* The document and its projection *)

Total(d) == d.dropped + Len(d.events)

\* windowStateEvents: keep the newest Window events, count the others
Windowed(d) ==
  LET removed == Len(d.events) - Window
  IN IF removed <= 0 THEN d
     ELSE [d EXCEPT !.events = SubSeq(@, removed + 1, Len(@)), !.dropped = @ + removed]

\* Mutant: the number of new events is taken from the lengths of the windowed documents.
Projected_ByLength(t, prior, d) ==
  LET added == Len(d.events) - prior
      n == Len(d.events)
  IN IF added <= 0 THEN t
     ELSE t \o SubSeq(d.events, (IF added < n THEN n - added ELSE 0) + 1, n)

\* projectEvents: insert the tail of the document that the totals say is new
Projected(t, prior, d) ==
  LET added == Total(d) - prior
      n == Len(d.events)
  IN IF added <= 0 THEN t
     ELSE t \o SubSeq(d.events, (IF added < n THEN n - added ELSE 0) + 1, n)

\* Mutant: readers are given the window.
Rehydrated_TailOnly(d, t) == d.events

\* rehydrateEvents: a windowed document is shown with the whole table
Rehydrated(d, t) ==
  IF d.dropped = 0 \/ Len(t) < Len(d.events) THEN d.events ELSE t

-----------------------------------------------------------------------------
StoreInit ==
  /\ row = NoRow /\ revisions = {} /\ table = <<>> /\ ledger = {}
  /\ file \in Files
  /\ full = FALSE /\ damaged = FALSE /\ issued = {}
  /\ call = [p \in Procs |-> Idle]

Goto(p, pc) == call' = [call EXCEPT ![p].pc = pc]
Return(p) == call' = [call EXCEPT ![p] = Idle]

\* readEntityRow on an unparseable row: quarantine it, delete it, throw
Quarantine(p) ==
  /\ row.rev > 0 /\ ~row.ok
  /\ row' = NoRow
  /\ Return(p)
  /\ UNCHANGED <<revisions, table, ledger, file, full, damaged, issued>>

-----------------------------------------------------------------------------
(* mutateTransactionalState, up to its transaction *)

\* a caller presents a command; a Fresh one only this once
Present(p, c) ==
  /\ call[p].pc = "idle"
  /\ p \notin Outsiders
  /\ c \notin issued
  /\ issued' = IF c \in Fresh THEN issued \cup {c} ELSE issued
  /\ call' = [call EXCEPT ![p] = [Idle EXCEPT !.pc = "touch", !.cmd = c]]
  /\ UNCHANGED <<storage, file, full, damaged>>

\* readTransactionalState: any process may read; an Outsider goes on to write
StartRead(p) ==
  /\ call[p].pc = "idle"
  /\ call' = [call EXCEPT ![p] = [Idle EXCEPT !.pc = "touch", !.cmd = "read"]]
  /\ UNCHANGED <<storage, file, full, damaged, issued>>

\* ensureImported looks for the row at first touch, and again once a file was imported
Looking == {"touch", "imported"}

\* ... and finds it: a mutation goes to its transaction, a read keeps the document
TouchRow(p) ==
  /\ call[p].pc \in Looking
  /\ row.rev > 0 /\ row.ok
  /\ IF call[p].cmd = "read"
     THEN call' = [call EXCEPT ![p].pc = "rehydrate", ![p].doc = row.doc]
     ELSE Goto(p, "transact")
  /\ UNCHANGED <<storage, file, full, damaged, issued>>

\* ... a row that does not parse
TouchDamaged(p) == call[p].pc \in Looking /\ Quarantine(p)

\* ... neither row nor usable file: a read fails (ENOENT), a mutation starts from nothing;
\* a file that does not parse is quarantined and the call throws
TouchNothing(p) ==
  /\ call[p].pc \in Looking
  /\ row.rev = 0
  /\ call[p].pc = "imported" \/ file.holds # "document"
  /\ IF (call[p].pc = "imported" \/ file = Absent) /\ call[p].cmd # "read" THEN Goto(p, "transact") ELSE Return(p)
  /\ UNCHANGED <<storage, file, full, damaged, issued>>

\* ... no row and a file: its content is read now and imported in a transaction of its own
TouchFile(p) ==
  /\ call[p].pc = "touch"
  /\ row.rev = 0
  /\ file.holds = "document"
  /\ call' = [call EXCEPT ![p].pc = "import", ![p].doc = file.doc]
  /\ UNCHANGED <<storage, file, full, damaged, issued>>

\* importLegacyState: nothing when a row exists by now, else revision 1 of the whole
\* history; recording revision 1 a second time breaks the primary key and rolls back
ImportLegacy(p) ==
  /\ call[p].pc = "import"
  /\ \/ /\ row.rev > 0 /\ row.ok
        /\ Goto(p, "imported")
        /\ UNCHANGED storage
     \/ /\ row.rev = 0 /\ 1 \notin revisions /\ ImportId \notin ledger
        /\ row' = [rev |-> 1, doc |-> Windowed(call[p].doc), ok |-> TRUE]
        /\ revisions' = revisions \cup {1}
        /\ table' = Projected(table, 0, call[p].doc)
        /\ ledger' = ledger \cup {ImportId}
        /\ Goto(p, "imported")
     \/ /\ row.rev = 0 /\ (1 \in revisions \/ ImportId \in ledger)
        /\ Return(p)
        /\ UNCHANGED storage
  /\ UNCHANGED <<file, full, damaged, issued>>

\* a row that does not parse is left there: this transaction rolls its quarantine back
ImportDamaged(p) ==
  /\ call[p].pc = "import"
  /\ row.rev > 0 /\ ~row.ok
  /\ Return(p)
  /\ UNCHANGED <<storage, file, full, damaged, issued>>

-----------------------------------------------------------------------------
(* mutateEntity: one transaction, BEGIN IMMEDIATE to COMMIT or ROLLBACK *)

\* a recorded command answers from the ledger without running again
Replay(p) ==
  /\ call[p].pc = "transact"
  /\ call[p].cmd \in ledger
  /\ Goto(p, "peek")
  /\ UNCHANGED <<storage, file, full, damaged, issued>>

MeetsCeiling == full /\ ~row.doc.failed

\* a document failed by the ceiling: its status, and an event that says so
Marked(d) == [d EXCEPT !.failed = TRUE, !.events = Append(@, FullMark)]

\* above the ceiling a live document is failed, in the row alone, and the call throws;
\* with no row there is nothing to fail
HitCeiling(p) ==
  /\ call[p].pc = "transact"
  /\ call[p].cmd \notin ledger
  /\ row.ok /\ MeetsCeiling
  /\ IF row.rev > 0
     THEN row' = [row EXCEPT !.rev = @ + 1, !.doc = Windowed(Marked(@))]
     ELSE UNCHANGED row
  /\ Return(p)
  /\ UNCHANGED <<revisions, table, ledger, file, full, damaged, issued>>

TransactDamaged(p) ==
  /\ call[p].pc = "transact"
  /\ call[p].cmd \notin ledger
  /\ Quarantine(p)

\* the caller's function throws, or the revision number is taken: ROLLBACK
Abort(p) ==
  /\ call[p].pc = "transact"
  /\ call[p].cmd \notin ledger
  /\ row.ok /\ ~MeetsCeiling
  /\ Return(p)
  /\ UNCHANGED <<storage, file, full, damaged, issued>>

\* the caller's function decides to change nothing: only the ledger knows
NoChange(p) ==
  /\ call[p].pc = "transact"
  /\ call[p].cmd \notin ledger
  /\ row.ok /\ ~MeetsCeiling
  /\ ledger' = ledger \cup {call[p].cmd}
  /\ Goto(p, "peek")
  /\ UNCHANGED <<row, revisions, table, file, full, damaged, issued>>

\* what the caller's function returns: the current document and one event more, or,
\* for writeState(), the document an Outsider read and changed outside
NextDoc(p) ==
  LET base == IF p \in Outsiders THEN call[p].out ELSE row.doc
  IN [base EXCEPT !.events = Append(@, call[p].cmd)]

\* the new revision: document, revision, events and ledger in one COMMIT
Commit(p) ==
  LET d == Windowed(NextDoc(p))
      r == row.rev + 1
  IN /\ call[p].pc = "transact"
     /\ call[p].cmd \notin ledger
     /\ row.ok /\ ~MeetsCeiling
     /\ r \notin revisions
     /\ row' = [rev |-> r, doc |-> d, ok |-> TRUE]
     /\ revisions' = revisions \cup {r}
     /\ table' = Projected(table, Total(row.doc), d)
     /\ ledger' = ledger \cup {call[p].cmd}
     /\ Goto(p, "peek")
     /\ UNCHANGED <<file, full, damaged, issued>>

-----------------------------------------------------------------------------
(* After the transaction *)

\* the committed row is read again for the export
Peek(p) ==
  /\ call[p].pc = "peek"
  /\ row.ok
  /\ IF row.rev > 0
     THEN call' = [call EXCEPT ![p].pc = "export", ![p].doc = row.doc]
     ELSE Return(p)
  /\ UNCHANGED <<storage, file, full, damaged, issued>>

PeekDamaged(p) == call[p].pc = "peek" /\ Quarantine(p)

\* writeJsonExport: a temporary file renamed over the export
Export(p) ==
  /\ call[p].pc = "export"
  /\ file' = File(call[p].doc)
  /\ Return(p)
  /\ UNCHANGED <<storage, full, damaged, issued>>

\* rehydrateEvents: the events table is read after, and apart from, the row
Rehydrate(p) ==
  /\ call[p].pc = "rehydrate"
  /\ call' = [call EXCEPT ![p].pc = "holding", 
                               ![p].out = [call[p].doc EXCEPT
                                             !.events = Rehydrated(call[p].doc, table)]]
  /\ UNCHANGED <<storage, file, full, damaged, issued>>

\* a reader is done with what it read
Finish(p) ==
  /\ call[p].pc = "holding"
  /\ Return(p)
  /\ UNCHANGED <<storage, file, full, damaged, issued>>

\* an Outsider hands the document it read, changed, to writeState()
WriteBack(p, c) ==
  /\ call[p].pc = "holding"
  /\ p \in Outsiders
  /\ c \in Fresh \ issued
  /\ issued' = issued \cup {c}
  /\ call' = [call EXCEPT ![p].pc = "touch", ![p].cmd = c]
  /\ UNCHANGED <<storage, file, full, damaged>>

-----------------------------------------------------------------------------
(* Faults *)

\* the process dies: what it held is gone, what was committed stays
Crash(p) ==
  /\ call[p].pc # "idle"
  /\ Return(p)
  /\ UNCHANGED <<storage, file, full, damaged, issued>>

\* the database passes its ceiling; nothing in the code shrinks it again
Fill == MayFill /\ ~full /\ full' = TRUE /\ UNCHANGED <<storage, file, damaged, issued, call>>

\* the stored document stops parsing (a disk fault, an edit by hand)
Damage ==
  /\ MayDamage /\ ~damaged /\ row.rev > 0
  /\ damaged' = TRUE
  /\ row' = [row EXCEPT !.ok = FALSE]
  /\ UNCHANGED <<revisions, table, ledger, file, full, issued, call>>

Step(p) ==
  \/ \E c \in Commands : Present(p, c) \/ WriteBack(p, c)
  \/ StartRead(p) \/ TouchRow(p) \/ TouchDamaged(p) \/ TouchNothing(p) \/ TouchFile(p)
  \/ ImportLegacy(p) \/ ImportDamaged(p)
  \/ Replay(p) \/ HitCeiling(p) \/ TransactDamaged(p) \/ Abort(p) \/ NoChange(p) \/ Commit(p)
  \/ Peek(p) \/ PeekDamaged(p) \/ Export(p) \/ Rehydrate(p) \/ Finish(p) \/ Crash(p)

StoreNext == Fill \/ Damage \/ \E p \in Procs : Step(p)

StoreSpec == StoreInit /\ [][StoreNext]_storeVars

-----------------------------------------------------------------------------
(* What readers are promised *)

\* the store's own mark, which a document is given once, is nobody's command
Ours(events) == RemoveFirst(events, FullMark)

\* the history a reader is to be shown: of the row while there is one, of the file before
\* the database exists, of the events table once the row is lost
History ==
  IF row.rev > 0 THEN Ours(Rehydrated(row.doc, table))
  ELSE IF revisions # {} THEN table
  ELSE file.doc.events

Atomic == INSTANCE AtomicStore
            WITH log <- History,
                 readable <- row.ok /\ (row.rev > 0 \/ revisions = {}),
                 Histories <- {f.doc.events : f \in Files}

(* Over every interleaving of several processes' calls, replays, first-touch imports,
   crashes between commit and export, the size ceiling and a damaged row, the store is
   one atomic log: a command's event enters it once, whole, at its end, and what is in it
   stays, whatever the window, an import or a crash leaves behind.  (mutateEntity, windowStateEvents,
   projectEvents, importLegacyState and rehydrateEvents together.) *)
ImplementsAtomicStore == Atomic!Spec

(* A read takes the row and the events table in two statements, so a commit can fall
   between them: what it returns is still a prefix of the history, and holds everything
   the document it took had counted.  (readTransactionalState) *)
ReadsAreWhole ==
  \A p \in Procs : call[p].pc = "holding" =>
    LET seen == Ours(call[p].out.events)
        doc  == call[p].doc
    IN /\ IsPrefix(seen, History)
       /\ Len(seen) >= Total(doc) - (IF doc.failed THEN 1 ELSE 0)

(* A reader is shown every event once.  sqlite-state.mjs:60: readTransactionalState
   rehydrates the whole history from the table, "so every reader still sees exactly what it
   saw before".  A caller that reads such a document and hands it to writeState() gives the
   store a full history that still counts the windowed events as dropped. *)
NoEventTwice == row.rev > 0 => IsInjective(Rehydrated(row.doc, table))
=============================================================================
