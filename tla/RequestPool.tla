---------------------------- MODULE RequestPool ----------------------------
(***************************************************************************)
(* The worker threads and the pooled connections that requests compete     *)
(* for.  Every handler and dependency is synchronous: each is a job for a  *)
(* thread of its own turn.  The ORM session takes a connection at its      *)
(* first statement and gives it back at COMMIT or when it is closed, so a  *)
(* request may hold one while it waits for the thread of its next job.     *)
(***************************************************************************)
EXTENDS Naturals, Sequences, FiniteSets

CONSTANTS
  Requests,      \* slots for requests in flight; a slot is reused
  Threads,       \* number of worker threads
  Connections    \* size of the connection pool, its overflow included

ASSUME PoolAssumption ==
  /\ Threads \in Nat \ {0} /\ Connections \in Nat \ {0}

VARIABLES
  todo,       \* the steps a request still has to take
  working,    \* requests whose current job has a thread
  connected   \* requests whose session holds a connection

vars == <<todo, working, connected>>

-----------------------------------------------------------------------------
(* What a request does, as the steps that take or give back a resource *)

Job(steps) == <<"thread">> \o steps \o <<"leave">>

OpenSession == Job(<<>>)

\* A lookup re-reads its row after the COMMIT: it ends with a connection.
ValidSession == Job(<<"connect", "commit", "connect">>)

\* After a lookup that fails (no cookie, no row or one that vanished under it,
\* an expired row, a row that vanished before the re-read) no handler runs.
FailedLookup == {Job(<<>>), Job(<<"connect">>), Job(<<"connect", "commit">>),
                 ValidSession}

\* What a JSON handler returns is validated in one more job before the session
\* is closed; the page of a web form is not, and neither is an exception.
ValidateResponse == Job(<<>>)
Returned(handler) == handler \o ValidateResponse

Read == Job(<<"connect">>)
Write == Job(<<"connect", "commit">>)

AfterLookup == {Job(<<>>), Write}   \* me, logout_all

Endpoints == {"register", "login", "logout", "me or logout_all"}

\* A password against the policy and a refused login end in an exception or a
\* page, and so does a logout whose SELECT fails.
Handlers(endpoint) ==
  CASE endpoint = "register" -> {Job(<<>>), Write, Returned(Write)}
    [] endpoint = "login"    -> {Read, Write, Returned(Write)}
    [] endpoint = "logout"   -> {Read} \cup {Returned(h) : h \in {Job(<<>>), Read, Write}}
    [] OTHER -> FailedLookup \cup {ValidSession \o Returned(h) : h \in AfterLookup}

\* Wrong form: the session is closed by a job of its own.
CloseInThread == Job(<<"close">>)

\* Wrong form: the session is left to the garbage collector.
LeaveOpen == <<>>

\* The generator's exit does not wait for a worker thread.
CloseSession == <<"close">>

Programs(endpoint) == {OpenSession \o h \o CloseSession : h \in Handlers(endpoint)}

Steps == {"thread", "connect", "commit", "leave", "close"}

TypeOK ==
  /\ todo \in [Requests -> Seq(Steps)]
  /\ working \subseteq Requests /\ connected \subseteq Requests
  /\ Cardinality(working) <= Threads
  /\ Cardinality(connected) <= Connections

-----------------------------------------------------------------------------
(* Steps *)

Idle(r) == todo[r] = <<>>
At(r, step) == ~Idle(r) /\ Head(todo[r]) = step
Done(r) == todo' = [todo EXCEPT ![r] = Tail(@)]

Arrive(r) ==
  /\ Idle(r)
  /\ \E e \in Endpoints : \E p \in Programs(e) : todo' = [todo EXCEPT ![r] = p]
  /\ UNCHANGED <<working, connected>>

\* Wrong form: a thread is started for every job.
StartThread(r) ==
  /\ At(r, "thread")
  /\ working' = working \cup {r}
  /\ Done(r)
  /\ UNCHANGED connected

TakeThread(r) ==
  /\ At(r, "thread")
  /\ Cardinality(working) < Threads
  /\ working' = working \cup {r}
  /\ Done(r)
  /\ UNCHANGED connected

Leave(r) ==
  /\ At(r, "leave")
  /\ working' = working \ {r}
  /\ Done(r)
  /\ UNCHANGED connected

\* A session that holds a connection goes on with it.
Connect(r) ==
  /\ At(r, "connect")
  /\ r \in connected \/ Cardinality(connected) < Connections
  /\ connected' = connected \cup {r}
  /\ Done(r)
  /\ UNCHANGED working

\* Wrong form: a pool without a timeout.
WaitOn(r) == At(r, "connect") /\ r \in connected /\ UNCHANGED vars

\* The job raises: what is left is to close the session.
Raise(r) ==
  /\ todo' = [todo EXCEPT ![r] = <<"leave">> \o CloseSession]
  /\ UNCHANGED <<working, connected>>

\* No connection for the length of the pool's timeout.
PoolTimeout(r) ==
  /\ At(r, "connect")
  /\ r \notin connected
  /\ Cardinality(connected) = Connections
  /\ Raise(r)

\* A statement or the COMMIT of a unit of work fails; its connection stays with
\* the session.
DatabaseError(r) == At(r, "commit") /\ Raise(r)

Commit(r) ==
  /\ At(r, "commit")
  /\ connected' = connected \ {r}
  /\ Done(r)
  /\ UNCHANGED working

Close(r) ==
  /\ At(r, "close")
  /\ connected' = connected \ {r}
  /\ Done(r)
  /\ UNCHANGED working
-----------------------------------------------------------------------------
(* Specification *)

Init ==
  /\ todo = [r \in Requests |-> <<>>]
  /\ working = {}
  /\ connected = {}

Obtain(r) == Connect(r) \/ PoolTimeout(r)
GiveBack(r) == Leave(r) \/ Commit(r) \/ Close(r)

Next == \E r \in Requests :
          Arrive(r) \/ TakeThread(r) \/ Obtain(r) \/ GiveBack(r) \/ DatabaseError(r)

\* Threads are handed out first come first served, so a request is not passed
\* over for ever although others keep coming; a wait for a connection ends with
\* one or with the timeout.
Fairness == \A r \in Requests :
  SF_vars(TakeThread(r)) /\ WF_vars(Obtain(r)) /\ WF_vars(GiveBack(r))

Spec == Init /\ [][Next]_vars /\ Fairness

-----------------------------------------------------------------------------
(* Properties *)

\* A request that is over, in whatever way, has given back what it took.
IdleHoldsNothing ==
  \A r \in Requests : Idle(r) => r \notin working /\ r \notin connected

\* What a request may wait for a thread for with a connection in hand: its
\* handler, after a lookup, and the validation of what its handler returned.
ToAnswer ==
  {Returned(h) \o CloseSession : h \in AfterLookup}
  \cup {ValidateResponse \o CloseSession}

\* A connection in hand waits for at most two more threads, those of the handler
\* and of the validation (/me and a logout that finds no row go to the latter
\* with one).  It never waits to be given back: a request that has failed, or
\* whose answer is ready, closes its session without queueing for a thread.
HeldOnlyToAnswer ==
  \A r \in Requests : At(r, "thread") /\ r \in connected => todo[r] \in ToAnswer

\* Every request comes to its end, although requests waiting for their next
\* thread may hold every connection the working threads wait for: the pool's
\* timeout leads out of that circle.
EveryRequestEnds == \A r \in Requests : ~Idle(r) ~> Idle(r)
=============================================================================
