---------------------------- MODULE Migrations ----------------------------
(***************************************************************************)
(* The two schema migrations as `alembic` runs them: a migration is a      *)
(* sequence of statements and ends with the one that records its revision  *)
(* in alembic_version; a run goes from one migration to the next.  On      *)
(* PostgreSQL a whole run is one transaction; on SQLite every CREATE and   *)
(* DROP commits by itself and a run that dies leaves what it did.          *)
(* Revisions are numbered by their place in the chain: 0 is the base,      *)
(* 1 d97648cf181d, 2 b21ebdb3b75f.                                         *)
(***************************************************************************)
EXTENDS Integers, SequencesExt

CONSTANTS
  Runs,        \* slots for concurrent runs of alembic
  NoWork       \* a run has nothing uncommitted

VARIABLES
  dialect,     \* the database behind settings.database_url
  committed,   \* the schema: its objects, and the revision recorded with it
  run,         \* each run: what it has still to do, and its uncommitted work
  interrupted  \* history: the directions of the runs that died half way

vars == <<dialect, committed, run, interrupted>>

HeadRevision == 2

-----------------------------------------------------------------------------
(* The migration scripts *)

create(object) == [do |-> "create", object |-> object, from |-> 0, to |-> 0]
drop(object) == [do |-> "drop", object |-> object, from |-> 0, to |-> 0]
stamp(from, to) == [do |-> "stamp", object |-> "alembic_version",
                    from |-> from, to |-> to]

users_upgrade == <<create("users")>>
users_downgrade == <<drop("users")>>
sessions_upgrade == <<create("sessions"), create("ix_sessions_user_id")>>
sessions_downgrade == <<drop("ix_sessions_user_id"), drop("sessions")>>

upgrade == <<users_upgrade, sessions_upgrade>>
downgrade == <<users_downgrade, sessions_downgrade>>

\* The objects that revision v stands for: what every migration up to it made.
Objects(v) ==
  {s.object : s \in UNION {ToSet(upgrade[k]) : k \in 1..v}}

ASSUME MigrationsAssumption ==
  NoWork \notin [objects : SUBSET Objects(HeadRevision), version : 0..HeadRevision]

\* Wrong form: the revision is recorded before the statements of its script.
StampFirst(v, w) ==
  CASE v < w -> <<stamp(v, v + 1)>> \o upgrade[v + 1]
    [] w < v -> <<stamp(v, v - 1)>> \o downgrade[v]
    [] v = w -> <<>>

\* What a run to revision w executes next when it is at revision v: one
\* migration, up or down the chain, and nothing once it has arrived.
Migration(v, w) ==
  CASE v < w -> Append(upgrade[v + 1], stamp(v, v + 1))
    [] w < v -> Append(downgrade[v], stamp(v, v - 1))
    [] v = w -> <<>>

Toward(v, w) == IF v < w THEN v + 1 ELSE v - 1

-----------------------------------------------------------------------------
(* Runs *)

NotRunning ==
  [todo |-> <<>>, at |-> 0, target |-> 0, direction |-> "none", work |-> NoWork]

Running(r) == run[r].todo # <<>>
Quiet == \A r \in Runs : ~Running(r)
Transactional == dialect = "postgresql"

\* The schema as the run sees it.
Seen(r) == IF run[r].work = NoWork THEN committed ELSE run[r].work

\* The run reads the recorded revision, once, and plans its migrations from
\* there.  Upgrades go to the head, as the README tells; several may start at
\* once.  A downgrade is taken to be run alone.
Begin(r, target) ==
  LET v == committed.version
      direction == IF v < target THEN "upgrade" ELSE "downgrade"
  IN
  /\ ~Running(r)
  /\ v # target
  /\ \A q \in Runs : Running(q) => direction = "upgrade" /\ run[q].direction = "upgrade"
  /\ run' = [run EXCEPT ![r] = [todo |-> Migration(v, target), at |-> v, target |-> target,
                                direction |-> direction, work |-> NoWork]]
  /\ UNCHANGED <<dialect, committed, interrupted>>

\* The statement would wait for a lock: another run has changed the schema
\* and has not committed.
Blocked(r) == \E q \in Runs \ {r} : run[q].work # NoWork

\* What goes with a table that is dropped, and cannot be made without it.
Indexes(object) == IF object = "sessions" THEN {"ix_sessions_user_id"} ELSE {}

\* Nothing is created twice or dropped twice, an index needs its table, and
\* a stamp must find the revision it starts from.
Possible(s, schema) ==
  CASE s.do = "create" ->
         /\ s.object \notin schema.objects
         /\ s.object \in Indexes("sessions") => "sessions" \in schema.objects
    [] s.do = "drop"   -> s.object \in schema.objects
    [] s.do = "stamp"  -> s.from = schema.version

Effect(s, schema) ==
  CASE s.do = "create" -> [schema EXCEPT !.objects = @ \cup {s.object}]
    [] s.do = "drop"   -> [schema EXCEPT !.objects = @ \ ({s.object} \cup Indexes(s.object))]
    [] s.do = "stamp"  -> [schema EXCEPT !.version = s.to]

\* Wrong form: a run stops after one migration.
OneMigration(q) == [q EXCEPT !.todo = Tail(@)]

\* The statement at the head is done: behind the last one of a migration comes
\* the next migration of the plan.
Advance(q) ==
  LET v == Toward(q.at, q.target) IN
  IF Tail(q.todo) # <<>> THEN [q EXCEPT !.todo = Tail(@)]
  ELSE [q EXCEPT !.at = v, !.todo = Migration(v, q.target)]

\* Wrong form: every statement commits, in PostgreSQL too.
CommitEach(rest) == TRUE

\* A statement is committed with the last one of the run, or by itself.
CommitsAfter(rest) == ~Transactional \/ rest = <<>>

Execute(r) ==
  LET s == Head(run[r].todo)
      q == Advance(run[r])
      result == Effect(s, Seen(r))
  IN
  /\ Running(r)
  /\ ~Blocked(r)
  /\ Possible(s, Seen(r))
  /\ IF CommitsAfter(q.todo)
     THEN /\ committed' = result
          /\ run' = [run EXCEPT ![r] = IF q.todo = <<>> THEN NotRunning ELSE q]
     ELSE /\ run' = [run EXCEPT ![r] = [q EXCEPT !.work = result]]
          /\ UNCHANGED committed
  /\ UNCHANGED <<dialect, interrupted>>

\* The statement fails: the exception ends the run, its transaction rolls back.
Fail(r) ==
  /\ Running(r)
  /\ ~Blocked(r)
  /\ ~Possible(Head(run[r].todo), Seen(r))
  /\ run' = [run EXCEPT ![r] = NotRunning]
  /\ UNCHANGED <<dialect, committed, interrupted>>

\* Wrong form: the connection of a run that dies is left open.
LeaveOpen(r) ==
  /\ Running(r)
  /\ run' = [run EXCEPT ![r].todo = <<>>, ![r].direction = "none"]
  /\ interrupted' = interrupted \cup {run[r].direction}
  /\ UNCHANGED <<dialect, committed>>

\* The run is killed, or a statement fails for want of disk, lock or network.
Interrupt(r) ==
  /\ Running(r)
  /\ run' = [run EXCEPT ![r] = NotRunning]
  /\ interrupted' = interrupted \cup {run[r].direction}
  /\ UNCHANGED <<dialect, committed>>

-----------------------------------------------------------------------------
(* Specification *)

Init ==
  /\ dialect \in {"sqlite", "postgresql"}
  /\ committed = [objects |-> {}, version |-> 0]
  /\ run = [r \in Runs |-> NotRunning]
  /\ interrupted = {}

Next ==
  \E r \in Runs :
    \/ \E target \in {w \in 0..HeadRevision : w < committed.version \/ w = HeadRevision} :
         Begin(r, target)
    \/ Execute(r) \/ Fail(r) \/ Interrupt(r)

\* A run that is not waiting for another goes on.
Fairness == \A r \in Runs : WF_vars(Execute(r) \/ Fail(r))

Spec == Init /\ [][Next]_vars /\ Fairness

-----------------------------------------------------------------------------
(* Properties *)

TypeOK ==
  /\ committed.objects \subseteq Objects(HeadRevision)
  /\ committed.version \in 0..HeadRevision
  /\ \A r \in Runs : run[r].work # NoWork => Transactional /\ Running(r)
  /\ \A r \in Runs : run[r].direction = "none" <=> ~Running(r)

\* Whoever upgrades or downgrades, and in whatever order two upgrades get to
\* each statement, in the end the tables and the index are those of the
\* recorded revision, unless some run died half way.  On PostgreSQL they are
\* at every moment, whatever dies.
SchemaMatchesVersion ==
  Transactional \/ (Quiet /\ interrupted = {}) =>
    committed.objects = Objects(committed.version)

\* An interrupted upgrade never claims more than it did: every object of the
\* recorded revision is there, so the application finds its tables.
VersionNotAhead ==
  /\ "downgrade" \notin interrupted
  /\ \A r \in Runs : run[r].direction # "downgrade"
  => Objects(committed.version) \subseteq committed.objects

\* Two upgrades started at once cannot both fail: one of them brings the
\* schema to the head, if neither is interrupted.
UpgradeReachesHead ==
  \A r \in Runs :
    run[r].direction = "upgrade" ~> \/ committed.version = HeadRevision
                                    \/ interrupted # {}
=============================================================================
