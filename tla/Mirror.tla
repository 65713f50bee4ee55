------------------------------- MODULE Mirror -------------------------------
(***************************************************************************)
(* The mirror of the company state: a publisher on the factory machine      *)
(* (scripts/hq-publish.mjs) builds a snapshot, decides whether to send it   *)
(* and posts it to the control plane (api/mirror.mjs, _lib/store.mjs), which *)
(* keeps one document and one detail document per task, each replaced whole; *)
(* the founder's page (public/app.js) polls the document and draws it.      *)
(*                                                                          *)
(* The content of a document is the version of what it was built from.  A   *)
(* request that its caller gave up on may still reach the store, at any     *)
(* time, or never.  The document store and the network are external.        *)
(***************************************************************************)
EXTENDS Naturals, FiniteSets

CONSTANTS Tasks,        \* tasks with a detail document
          Publishers,   \* publisher processes; "loop" runs until it is killed, any other once
          MaxChanges,   \* changes of the company's state
          MaxFaults,    \* failed builds, posts and loads, deaths, expired sessions, sign-outs
          Loads         \* reads of the mirror a page has under way at once

VARIABLES company,  \* per document, the version it should show
          store,    \* per document, the version stored
          late,     \* posts given up on that may still land
          pub,      \* per publisher: where it is, its memory, what it is sending
          due,      \* publishers whose heartbeat is due
          page,     \* the page: screen, timer, version shown, loads under way
          session,  \* the viewer's session is valid
          faults    \* faults so far

mirrorVars == <<company, store, late, pub, due, page, session, faults>>
machine == <<company, store, late, pub, due>>
viewer == <<page, session>>

MirrorDoc == "mirror"
Docs == {MirrorDoc} \cup Tasks
None == 0
Unavailable == MaxChanges + 2      \* a panel whose builder failed, recorded as data
Versions == 1..(MaxChanges + 1)

\* last: fingerprints of what was sent, per document; snap: what is being sent; todo: task
\* states read for their details
Stopped == [pc |-> "off", last |-> [d \in Docs |-> None], snap |-> None, todo |-> <<>>]
NoLoad == [at |-> "idle", v |-> None, first |-> FALSE]
Closed == [screen |-> "closed", timer |-> FALSE, shown |-> None, load |-> [i \in Loads |-> NoLoad]]

MirrorInit ==
  /\ company = [d \in Docs |-> 1] /\ store = [d \in Docs |-> None]
  /\ late = {}
  /\ pub = [p \in Publishers |-> Stopped] /\ due = {}
  /\ page = Closed /\ session = FALSE
  /\ faults = 0

Fault == faults < MaxFaults /\ faults' = faults + 1
Set(p, r) == pub' = [pub EXCEPT ![p] = r]

\* what the snapshot shows changes, and with it, or alone, what a task's detail shows
Change(ds) ==
  /\ ds # {} /\ \A d \in ds : company[d] \in 1..MaxChanges
  /\ company' = [d \in Docs |-> IF d \in ds THEN company[d] + 1 ELSE company[d]]
  /\ UNCHANGED <<store, late, pub, due, viewer, faults>>

-----------------------------------------------------------------------------
(* The publisher *)

StartPublisher(p) ==
  /\ pub[p].pc = "off"
  /\ Set(p, [Stopped EXCEPT !.pc = "ready"])
  /\ due' = due \ {p}
  /\ UNCHANGED <<company, store, late, viewer, faults>>

Kill(p) ==
  /\ pub[p].pc # "off" /\ Fault
  /\ Set(p, Stopped)
  /\ UNCHANGED <<company, store, late, due, viewer>>

\* the heartbeat's five minutes pass
HeartbeatDue(p) ==
  /\ pub[p].pc # "off" /\ p \notin due
  /\ due' = due \cup {p}
  /\ UNCHANGED <<company, store, late, pub, viewer, faults>>

\* Mutant: an unchanged snapshot is never sent again.
ShouldPublish_OnChange(p, v) == pub[p].last[MirrorDoc] # v
ShouldPublish(p, v) == pub[p].last[MirrorDoc] # v \/ p \in due

\* the loop waits and tries again; the other modes end
AfterAttempt(p) == IF p = "loop" THEN "ready" ELSE "off"

\* buildSnapshot: the builder of a panel that fails is published as unavailable, a build
\* that fails as a whole is a failed attempt
Attempt(p) ==
  /\ pub[p].pc = "ready"
  /\ \/ /\ \E v \in {company[MirrorDoc], Unavailable} :
             /\ IF v = Unavailable THEN Fault ELSE UNCHANGED faults
             /\ IF ShouldPublish(p, v) THEN Set(p, [pub[p] EXCEPT !.pc = "post", !.snap = v])
                ELSE Set(p, [pub[p] EXCEPT !.pc = AfterAttempt(p)])
     \/ Fault /\ Set(p, [pub[p] EXCEPT !.pc = AfterAttempt(p)])
  /\ UNCHANGED <<company, store, late, due, viewer>>

\* a post is answered; or refused before or after the write; or given up on, and the
\* document may still be written.  "ok" is the only outcome the publisher takes for sent.
Posted(d, v, ok) ==
  \/ ok /\ store' = [store EXCEPT ![d] = v] /\ UNCHANGED <<late, faults>>
  \/ ~ok /\ Fault /\ store' \in {store, [store EXCEPT ![d] = v]} /\ UNCHANGED late
  \/ ~ok /\ Fault /\ late' = late \cup {<<d, v>>} /\ UNCHANGED store

\* a snapshot that was sent is followed by the details, from task states read then
Post(p, ok) ==
  /\ pub[p].pc = "post"
  /\ Posted(MirrorDoc, pub[p].snap, ok)
  /\ Set(p, IF ok THEN [pub[p] EXCEPT !.pc = "details", !.todo = [t \in Tasks |-> company[t]]]
            ELSE [pub[p] EXCEPT !.pc = AfterAttempt(p)])
  /\ UNCHANGED <<company, due, viewer>>

\* the detail of a task whose fingerprint is the one last sent is not sent again
Unsent(p) == {t \in DOMAIN pub[p].todo : pub[p].todo[t] # pub[p].last[t]}
Without(f, x) == [y \in DOMAIN f \ {x} |-> f[y]]

PostDetail(p, t, ok) ==
  /\ pub[p].pc = "details" /\ t \in Unsent(p)
  /\ Posted(t, pub[p].todo[t], ok)
  /\ Set(p, [pub[p] EXCEPT !.todo = Without(@, t),
                           !.last[t] = IF ok THEN pub[p].todo[t] ELSE @])
  /\ UNCHANGED <<company, due, viewer>>

\* the attempt returns and the loop remembers what was sent, and when
Remember(p) ==
  /\ pub[p].pc = "details" /\ Unsent(p) = {}
  /\ Set(p, IF p = "loop"
            THEN [pub[p] EXCEPT !.pc = "ready", !.last[MirrorDoc] = pub[p].snap, !.snap = None,
                                !.todo = <<>>]
            ELSE Stopped)
  /\ due' = due \ {p}
  /\ UNCHANGED <<company, store, late, viewer, faults>>

\* a post that was given up on reaches the store
Land(w) ==
  /\ w \in late
  /\ late' = late \ {w}
  /\ store' = [store EXCEPT ![w[1]] = w[2]]
  /\ UNCHANGED <<company, pub, due, viewer, faults>>

-----------------------------------------------------------------------------
(* The founder's page *)

Sent(i, first) == [page.load EXCEPT ![i] = [at |-> "sent", v |-> None, first |-> first]]
Free == {i \in Loads : page.load[i].at = "idle"}
SigningIn == \E i \in Loads : page.load[i].first

\* main: a valid session loads and polls, any other is asked to sign in
Open ==
  /\ \/ /\ session
        /\ \E i \in Loads :
             page' = [Closed EXCEPT !.screen = "state", !.load = [Closed.load EXCEPT ![i] =
                                            [at |-> "sent", v |-> None, first |-> TRUE]]]
     \/ ~session /\ page' = [Closed EXCEPT !.screen = "signin"]
  /\ page.screen = "closed"
  /\ UNCHANGED <<machine, session, faults>>

Reload == page.screen # "closed" /\ Fault /\ page' = Closed /\ UNCHANGED <<machine, session>>

SignIn(i) ==
  /\ page.screen = "signin" /\ ~SigningIn /\ i \in Free
  /\ session' = TRUE
  /\ page' = [page EXCEPT !.load = Sent(i, TRUE)]
  /\ UNCHANGED <<machine, faults>>

ShowSignIn == [page EXCEPT !.screen = "signin", !.timer = FALSE]

\* the view resets even when the session could not be deleted
SignOut ==
  /\ page.screen \in {"state", "mirror"} /\ Fault
  /\ session' \in {session, FALSE}
  /\ page' = ShowSignIn
  /\ UNCHANGED machine

Expire == session /\ Fault /\ session' = FALSE /\ UNCHANGED <<machine, page>>

\* the poll fires, or the founder asks for a refresh
Load(i) ==
  /\ page.timer \/ page.screen = "mirror"
  /\ i \in Free
  /\ page' = [page EXCEPT !.load = Sent(i, FALSE)]
  /\ UNCHANGED <<machine, session, faults>>

\* the control plane answers: 401, 404, the document; or the store or the network fails
Serve(i) ==
  /\ page.load[i].at = "sent"
  /\ \E at \in {"refused", "empty", "loaded", "failed"} :
       /\ at = "refused" => ~session
       /\ at \in {"empty", "loaded"} => session /\ (at = "empty" <=> store[MirrorDoc] = None)
       /\ IF at = "failed" THEN Fault ELSE UNCHANGED faults
       /\ page' = [page EXCEPT !.load[i].at = at,
                               !.load[i].v = IF at = "loaded" THEN store[MirrorDoc] ELSE None]
  /\ UNCHANGED <<machine, session>>

\* loadMirror draws what came, whatever has happened since it asked; the load of a sign-in
\* or of a fresh page starts the polling once it returns
Arrive(i) ==
  LET l == page.load[i]
      drawn == CASE l.at = "refused" -> ShowSignIn
                 [] l.at = "loaded"  -> [page EXCEPT !.screen = "mirror", !.shown = l.v]
                 [] OTHER            -> [page EXCEPT !.screen = "state"]
  IN  /\ l.at \notin {"idle", "sent"}
      /\ page' = [drawn EXCEPT !.load[i] = NoLoad, !.timer = @ \/ l.first]
      /\ UNCHANGED <<machine, session, faults>>

-----------------------------------------------------------------------------

Send(p) == \E ok \in BOOLEAN : Post(p, ok) \/ \E t \in Tasks : PostDetail(p, t, ok)
PublisherStep(p) ==
  StartPublisher(p) \/ Kill(p) \/ HeartbeatDue(p) \/ Attempt(p) \/ Send(p) \/ Remember(p)
Watch ==
  \/ Open \/ Reload \/ SignOut \/ Expire
  \/ \E i \in Loads : SignIn(i) \/ Load(i) \/ Serve(i) \/ Arrive(i)
MirrorNext ==
  \/ \E ds \in SUBSET Docs : Change(ds)
  \/ \E p \in Publishers : PublisherStep(p)
  \/ \E w \in late : Land(w)
  \/ Watch

\* while somebody looks the loop is restarted when it dies; its requests are answered or
\* time out, and time passes; a page that polls keeps polling, and its requests are answered
\* or time out
MirrorFairness ==
  /\ WF_mirrorVars(page.screen # "closed" /\ StartPublisher("loop")) /\ WF_mirrorVars(HeartbeatDue("loop"))
  /\ WF_mirrorVars((Attempt("loop") \/ Send("loop") \/ Remember("loop")))
  /\ WF_mirrorVars(page.timer /\ \E i \in Loads : Load(i))
  /\ \A i \in Loads : WF_mirrorVars((Serve(i) \/ Arrive(i)))

-----------------------------------------------------------------------------

\* A page that polls ends up showing the company as it is, whatever was lost, refused, given
\* up on or overtaken on the way (attempt, shouldPublish, loadMirror).
PageCatchesUp == <>[](page.timer => page.screen = "mirror" /\ page.shown = company[MirrorDoc])

=============================================================================
