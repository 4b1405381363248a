-------------------------- MODULE MigrationsProofs --------------------------
(***************************************************************************)
(* Theorems about Migrations, for any number of runs, whichever of them    *)
(* die.                                                                    *)
(***************************************************************************)
EXTENDS Migrations, SequenceTheorems, TLAPS

USE MigrationsAssumption

-----------------------------------------------------------------------------
(* The inductive invariant *)

Schema == [objects : SUBSET Objects(HeadRevision), version : 0..HeadRevision]

\* What a run in progress has still to do of the migration it is in.
InMigration(q) ==
  \/ /\ q.direction = "upgrade" /\ q.target = 2 /\ q.at = 0
     /\ \/ q.todo = <<create("users"), stamp(0, 1)>>
        \/ q.todo = <<stamp(0, 1)>>
  \/ /\ q.direction = "upgrade" /\ q.target = 2 /\ q.at = 1
     /\ \/ q.todo = <<create("sessions"), create("ix_sessions_user_id"), stamp(1, 2)>>
        \/ q.todo = <<create("ix_sessions_user_id"), stamp(1, 2)>>
        \/ q.todo = <<stamp(1, 2)>>
  \/ /\ q.direction = "downgrade" /\ q.target \in {0, 1} /\ q.at = 2
     /\ \/ q.todo = <<drop("ix_sessions_user_id"), drop("sessions"), stamp(2, 1)>>
        \/ q.todo = <<drop("sessions"), stamp(2, 1)>>
        \/ q.todo = <<stamp(2, 1)>>
  \/ /\ q.direction = "downgrade" /\ q.target = 0 /\ q.at = 1
     /\ \/ q.todo = <<drop("users"), stamp(1, 0)>>
        \/ q.todo = <<stamp(1, 0)>>

\* The run's work, if there is any, can only be of PostgreSQL.
RunShape(q) ==
  \/ q = NotRunning
  \/ /\ q = [todo |-> q.todo, at |-> q.at, target |-> q.target,
             direction |-> q.direction, work |-> q.work]
     /\ InMigration(q)
     /\ q.work # NoWork => Transactional /\ q.work \in Schema

\* The schema in which the next statement of a run is meant to be executed,
\* and the one the run ends with when there is none.
Intended(q) ==
  LET named == {q.todo[i].object : i \in DOMAIN q.todo} IN
  [version |-> q.at,
   objects |-> CASE q.todo = <<>> -> Objects(q.at)
                 [] q.todo # <<>> /\ q.direction = "upgrade" -> Objects(q.at + 1) \ named
                 [] q.todo # <<>> /\ q.direction = "downgrade" ->
                      Objects(q.at - 1) \cup (Objects(q.at) \cap named)]

Fresh(q) == q.todo = Migration(q.at, q.target)

\* The run has changed something that is not part of a finished migration, or
\* not committed.
Started(r) == Running(r) /\ (~Fresh(run[r]) \/ run[r].work # NoWork)

ShapeInv ==
  /\ dialect \in {"sqlite", "postgresql"}
  /\ committed \in Schema
  /\ DOMAIN run = Runs
  /\ \A r \in Runs : RunShape(run[r])
  \* Either upgrades are running or one downgrade is.
  /\ \A r, q \in Runs : r # q /\ Running(r) /\ Running(q) => run[r].direction = "upgrade"
  \* An upgrade never runs behind its plan and only adds to what is committed;
  \* a downgrade is where it plans to be.
  /\ \A r \in Runs :
       /\ run[r].direction = "upgrade" =>
            /\ run[r].at <= Seen(r).version
            /\ committed.version <= Seen(r).version
            /\ committed.objects \subseteq Seen(r).objects
       /\ run[r].direction = "downgrade" => run[r].at = Seen(r).version

\* No run has died where it matters: at most one run is in the middle of its
\* work, and sees what it is meant to see.
ExactInv ==
  (Transactional \/ interrupted = {}) =>
    /\ \A r \in Runs : Started(r) => Seen(r) = Intended(run[r])
    /\ \A r, q \in Runs : Started(r) /\ Started(q) => r = q
    /\ Transactional => \A r \in Runs : Started(r) => run[r].work # NoWork
    /\ (Transactional \/ \A r \in Runs : ~Started(r)) =>
         committed.objects = Objects(committed.version)

\* No downgrade has died: what is recorded is there, and so is what each run
\* takes to be there.
EnoughInv ==
  "downgrade" \notin interrupted =>
    /\ \A r \in Runs : Running(r) => Intended(run[r]).objects \subseteq Seen(r).objects
    /\ \A r \in Runs : run[r].direction = "upgrade" =>
         Objects(Seen(r).version) \subseteq Seen(r).objects
    /\ (\A r \in Runs : run[r].direction # "downgrade") =>
         Objects(committed.version) \subseteq committed.objects

MigrationsInv == ShapeInv /\ ExactInv /\ EnoughInv

-----------------------------------------------------------------------------
(* The scripts *)

Users == {"users"}
Tables == {"users", "sessions"}
All == {"users", "sessions", "ix_sessions_user_id"}

\* What the migrations make.
LEMMA ObjectsOf ==
  Objects(0) = {} /\ Objects(1) = Users /\ Objects(2) = All
  <1>1. /\ upgrade[1] = <<create("users")>>
        /\ upgrade[2] = <<create("sessions"), create("ix_sessions_user_id")>>
    BY DEF upgrade, users_upgrade, sessions_upgrade
  <1>2. /\ create("users").object = "users" /\ create("sessions").object = "sessions"
        /\ create("ix_sessions_user_id").object = "ix_sessions_user_id"
    BY DEF create
  <1>3. /\ ToSet(upgrade[1]) = {create("users")}
        /\ ToSet(upgrade[2]) = {create("sessions"), create("ix_sessions_user_id")}
    <2>1. \A x : ToSet(<<x>>) = {x}
      BY DEF ToSet
    <2>2. \A x, y : ToSet(<<x, y>>) = {x, y}
      BY DEF ToSet
    <2> QED
      BY <1>1, <2>1, <2>2
  <1>4. 1..0 = {} /\ 1..1 = {1} /\ 1..2 = {1, 2}
    OBVIOUS
  <1>5. Objects(0) = {}
    BY <1>4 DEF Objects
  <1>6. Objects(1) = {s.object : s \in ToSet(upgrade[1])}
    BY <1>4 DEF Objects
  <1>7. Objects(2) = {s.object : s \in ToSet(upgrade[1]) \cup ToSet(upgrade[2])}
    BY <1>4 DEF Objects
  <1>8. Objects(1) = Users
    BY <1>2, <1>3, <1>6 DEF Users
  <1>9. Objects(2) = All
    BY <1>2, <1>3, <1>7 DEF All
  <1> QED
    BY <1>5, <1>8, <1>9

\* Appending to one statement, and to two.
LEMMA AppendTwo ==
  ASSUME NEW x, NEW y
  PROVE  Append(<<x>>, y) = <<x, y>>
  <1> DEFINE S == {x, y}
  <1>1. /\ <<x>> \in Seq(S) /\ Len(<<x>>) = 1 /\ <<x>>[1] = x
        /\ <<x, y>> \in Seq(S) /\ Len(<<x, y>>) = 2
        /\ <<x, y>>[1] = x /\ <<x, y>>[2] = y
    OBVIOUS
  <1>2. PICK s : s = Append(<<x>>, y)
    OBVIOUS
  <1>3. s \in Seq(S) /\ Len(s) = 2 /\ s[1] = x /\ s[2] = y
    BY <1>1, <1>2, AppendProperties
  <1>4. \A i \in 1..2 : s[i] = <<x, y>>[i]
    BY <1>1, <1>3
  <1> QED
    BY <1>1, <1>2, <1>3, <1>4, SeqEqual

LEMMA AppendThree ==
  ASSUME NEW x, NEW y, NEW z
  PROVE  Append(<<x, y>>, z) = <<x, y, z>>
  <1> DEFINE S == {x, y, z}
  <1>1. /\ <<x, y>> \in Seq(S) /\ Len(<<x, y>>) = 2
        /\ <<x, y>>[1] = x /\ <<x, y>>[2] = y
        /\ <<x, y, z>> \in Seq(S) /\ Len(<<x, y, z>>) = 3
        /\ <<x, y, z>>[1] = x /\ <<x, y, z>>[2] = y /\ <<x, y, z>>[3] = z
    OBVIOUS
  <1>2. PICK s : s = Append(<<x, y>>, z)
    OBVIOUS
  <1>3. s \in Seq(S) /\ Len(s) = 3 /\ s[1] = x /\ s[2] = y /\ s[3] = z
    BY <1>1, <1>2, AppendProperties
  <1>4. \A i \in 1..3 : s[i] = <<x, y, z>>[i]
    BY <1>1, <1>3
  <1> QED
    BY <1>1, <1>2, <1>3, <1>4, SeqEqual

\* The migrations, spelt out.
LEMMA MigrationOf ==
  /\ Migration(0, 2) = <<create("users"), stamp(0, 1)>>
  /\ Migration(1, 2) = <<create("sessions"), create("ix_sessions_user_id"), stamp(1, 2)>>
  /\ \A w \in {0, 1} :
       Migration(2, w) = <<drop("ix_sessions_user_id"), drop("sessions"), stamp(2, 1)>>
  /\ Migration(1, 0) = <<drop("users"), stamp(1, 0)>>
  /\ \A w \in 0..2 : Migration(w, w) = <<>>
  <1>3. /\ upgrade[1] = <<create("users")>> /\ downgrade[1] = <<drop("users")>>
        /\ upgrade[2] = <<create("sessions"), create("ix_sessions_user_id")>>
        /\ downgrade[2] = <<drop("ix_sessions_user_id"), drop("sessions")>>
    BY DEF upgrade, users_upgrade, sessions_upgrade, downgrade, users_downgrade,
           sessions_downgrade
  <1>4. ASSUME NEW v \in 0..2, NEW w \in 0..2
        PROVE  /\ v < w => Migration(v, w) = Append(upgrade[v + 1], stamp(v, v + 1))
               /\ w < v => Migration(v, w) = Append(downgrade[v], stamp(v, v - 1))
               /\ v = w => Migration(v, w) = <<>>
    <2>1. CASE v < w
      BY <2>1 DEF Migration
    <2>2. CASE w < v
      BY <2>2 DEF Migration
    <2>3. CASE v = w
      BY <2>3 DEF Migration
    <2> QED
      BY <2>1, <2>2, <2>3
  <1>5. Migration(0, 2) = <<create("users"), stamp(0, 1)>>
    <2>1. Migration(0, 2) = Append(upgrade[1], stamp(0, 1))
      BY <1>4
    <2> QED
      BY <1>3, <2>1, AppendTwo
  <1>6. Migration(1, 2) =
          <<create("sessions"), create("ix_sessions_user_id"), stamp(1, 2)>>
    <2>1. Migration(1, 2) = Append(upgrade[2], stamp(1, 2))
      BY <1>4
    <2> QED
      BY <1>3, <2>1, AppendThree
  <1>7. ASSUME NEW w \in {0, 1}
        PROVE  Migration(2, w) =
                 <<drop("ix_sessions_user_id"), drop("sessions"), stamp(2, 1)>>
    <2>1. Migration(2, w) = Append(downgrade[2], stamp(2, 1))
      BY <1>4
    <2> QED
      BY <1>3, <2>1, AppendThree
  <1>8. Migration(1, 0) = <<drop("users"), stamp(1, 0)>>
    <2>1. Migration(1, 0) = Append(downgrade[1], stamp(1, 0))
      BY <1>4
    <2> QED
      BY <1>3, <2>1, AppendTwo
  <1>9. \A w \in 0..2 : Migration(w, w) = <<>>
    BY <1>4
  <1> QED
    BY <1>5, <1>6, <1>7, <1>8, <1>9

\* The objects that one, two or three statements name.
LEMMA Names ==
  ASSUME NEW x, NEW y, NEW z
  PROVE  /\ {<<x>>[i].object : i \in DOMAIN <<x>>} = {x.object}
         /\ {<<x, y>>[i].object : i \in DOMAIN <<x, y>>} = {x.object, y.object}
         /\ {<<x, y, z>>[i].object : i \in DOMAIN <<x, y, z>>} =
              {x.object, y.object, z.object}
  <1>1. {<<x>>[i].object : i \in DOMAIN <<x>>} = {x.object}
    OBVIOUS
  <1>2. {<<x, y>>[i].object : i \in DOMAIN <<x, y>>} = {x.object, y.object}
    OBVIOUS
  <1>3. {<<x, y, z>>[i].object : i \in DOMAIN <<x, y, z>>} =
          {x.object, y.object, z.object}
    OBVIOUS
  <1> QED
    BY <1>1, <1>2, <1>3

\* What a run is meant to see in an upgrade, and in a downgrade.
LEMMA IntendedUp ==
  ASSUME NEW q, q.direction = "upgrade"
  PROVE  /\ q.at = 0 /\ q.todo = <<create("users"), stamp(0, 1)>> =>
              Intended(q) = [version |-> 0, objects |-> {}]
         /\ q.at = 0 /\ q.todo = <<stamp(0, 1)>> =>
              Intended(q) = [version |-> 0, objects |-> Users]
         /\ q.at = 1 /\ q.todo = <<create("sessions"), create("ix_sessions_user_id"),
                                  stamp(1, 2)>> =>
              Intended(q) = [version |-> 1, objects |-> Users]
         /\ q.at = 1 /\ q.todo = <<create("ix_sessions_user_id"), stamp(1, 2)>> =>
              Intended(q) = [version |-> 1, objects |-> Tables]
         /\ q.at = 1 /\ q.todo = <<stamp(1, 2)>> =>
              Intended(q) = [version |-> 1, objects |-> All]
  <1>1. \A o : create(o).object = o
    BY DEF create
  <1>2. \A v, w : stamp(v, w).object = "alembic_version"
    BY DEF stamp
  <1>3. ASSUME NEW at \in {0, 1}, NEW named, q.at = at, q.todo # <<>>,
               named = {q.todo[i].object : i \in DOMAIN q.todo}
        PROVE  Intended(q) = [version |-> at, objects |-> Objects(at + 1) \ named]
    BY <1>3 DEF Intended
  <1>4. CASE q.at = 0 /\ q.todo = <<create("users"), stamp(0, 1)>>
    <2>1. PICK named : named = {q.todo[i].object : i \in DOMAIN q.todo}
      OBVIOUS
    <2>2. named = {"users", "alembic_version"} /\ q.todo # <<>>
      BY <1>1, <1>2, <1>4, <2>1, Names
    <2>3. Intended(q) = [version |-> 0, objects |-> Objects(1) \ named]
      BY <1>3, <1>4, <2>1, <2>2
    <2>4. Objects(1) \ named = {}
      BY <2>2, ObjectsOf DEF Users, Tables, All
    <2> QED
      BY <1>4, <2>3, <2>4
  <1>5. CASE q.at = 0 /\ q.todo = <<stamp(0, 1)>>
    <2>1. PICK named : named = {q.todo[i].object : i \in DOMAIN q.todo}
      OBVIOUS
    <2>2. named = {"alembic_version"} /\ q.todo # <<>>
      BY <1>1, <1>2, <1>5, <2>1, Names
    <2>3. Intended(q) = [version |-> 0, objects |-> Objects(1) \ named]
      BY <1>3, <1>5, <2>1, <2>2
    <2>4. Objects(1) \ named = Users
      BY <2>2, ObjectsOf DEF Users, Tables, All
    <2> QED
      BY <1>5, <2>3, <2>4
  <1>6. CASE q.at = 1 /\ q.todo = <<create("sessions"), create("ix_sessions_user_id"),
                               stamp(1, 2)>>
    <2>1. PICK named : named = {q.todo[i].object : i \in DOMAIN q.todo}
      OBVIOUS
    <2>2. named = {"sessions", "ix_sessions_user_id", "alembic_version"} /\ q.todo # <<>>
      BY <1>1, <1>2, <1>6, <2>1, Names
    <2>3. Intended(q) = [version |-> 1, objects |-> Objects(2) \ named]
      BY <1>3, <1>6, <2>1, <2>2
    <2>4. Objects(2) \ named = Users
      BY <2>2, ObjectsOf DEF Users, Tables, All
    <2> QED
      BY <1>6, <2>3, <2>4
  <1>7. CASE q.at = 1 /\ q.todo = <<create("ix_sessions_user_id"), stamp(1, 2)>>
    <2>1. PICK named : named = {q.todo[i].object : i \in DOMAIN q.todo}
      OBVIOUS
    <2>2. named = {"ix_sessions_user_id", "alembic_version"} /\ q.todo # <<>>
      BY <1>1, <1>2, <1>7, <2>1, Names
    <2>3. Intended(q) = [version |-> 1, objects |-> Objects(2) \ named]
      BY <1>3, <1>7, <2>1, <2>2
    <2>4. Objects(2) \ named = Tables
      BY <2>2, ObjectsOf DEF Users, Tables, All
    <2> QED
      BY <1>7, <2>3, <2>4
  <1>8. CASE q.at = 1 /\ q.todo = <<stamp(1, 2)>>
    <2>1. PICK named : named = {q.todo[i].object : i \in DOMAIN q.todo}
      OBVIOUS
    <2>2. named = {"alembic_version"} /\ q.todo # <<>>
      BY <1>1, <1>2, <1>8, <2>1, Names
    <2>3. Intended(q) = [version |-> 1, objects |-> Objects(2) \ named]
      BY <1>3, <1>8, <2>1, <2>2
    <2>4. Objects(2) \ named = All
      BY <2>2, ObjectsOf DEF Users, Tables, All
    <2> QED
      BY <1>8, <2>3, <2>4
  <1> QED
    BY <1>4, <1>5, <1>6, <1>7, <1>8

\* The same in a downgrade.
LEMMA IntendedDown ==
  ASSUME NEW q, q.direction = "downgrade"
  PROVE  /\ q.at = 2 /\ q.todo = <<drop("ix_sessions_user_id"), drop("sessions"),
                                  stamp(2, 1)>> =>
              Intended(q) = [version |-> 2, objects |-> All]
         /\ q.at = 2 /\ q.todo = <<drop("sessions"), stamp(2, 1)>> =>
              Intended(q) = [version |-> 2, objects |-> Tables]
         /\ q.at = 2 /\ q.todo = <<stamp(2, 1)>> =>
              Intended(q) = [version |-> 2, objects |-> Users]
         /\ q.at = 1 /\ q.todo = <<drop("users"), stamp(1, 0)>> =>
              Intended(q) = [version |-> 1, objects |-> Users]
         /\ q.at = 1 /\ q.todo = <<stamp(1, 0)>> =>
              Intended(q) = [version |-> 1, objects |-> {}]
  <1>1. \A o : drop(o).object = o
    BY DEF drop
  <1>2. \A v, w : stamp(v, w).object = "alembic_version"
    BY DEF stamp
  <1>3. ASSUME NEW at \in {1, 2}, NEW named, q.at = at, q.todo # <<>>,
               named = {q.todo[i].object : i \in DOMAIN q.todo}
        PROVE  Intended(q) = [version |-> at,
                              objects |-> Objects(at - 1) \cup (Objects(at) \cap named)]
    BY <1>3 DEF Intended
  <1>4. ASSUME q.at = 2, q.todo = <<drop("ix_sessions_user_id"), drop("sessions"),
               stamp(2, 1)>>
        PROVE  Intended(q) = [version |-> 2, objects |-> All]
    <2>1. PICK named : named = {q.todo[i].object : i \in DOMAIN q.todo}
      OBVIOUS
    <2>2. named = {"sessions", "ix_sessions_user_id", "alembic_version"} /\ q.todo # <<>>
      BY <1>1, <1>2, <1>4, <2>1, Names
    <2>3. Intended(q) = [version |-> 2, objects |-> Objects(1) \cup (Objects(2) \cap named)]
      BY <1>3, <1>4, <2>1, <2>2
    <2>4. Objects(1) \cup (Objects(2) \cap named) = All
      BY <2>2, ObjectsOf DEF Users, Tables, All
    <2> QED
      BY <1>4, <2>3, <2>4
  <1>5. ASSUME q.at = 2, q.todo = <<drop("sessions"), stamp(2, 1)>>
        PROVE  Intended(q) = [version |-> 2, objects |-> Tables]
    <2>1. PICK named : named = {q.todo[i].object : i \in DOMAIN q.todo}
      OBVIOUS
    <2>2. named = {"sessions", "alembic_version"} /\ q.todo # <<>>
      BY <1>1, <1>2, <1>5, <2>1, Names
    <2>3. Intended(q) = [version |-> 2, objects |-> Objects(1) \cup (Objects(2) \cap named)]
      BY <1>3, <1>5, <2>1, <2>2
    <2>4. Objects(1) \cup (Objects(2) \cap named) = Tables
      BY <2>2, ObjectsOf DEF Users, Tables, All
    <2> QED
      BY <1>5, <2>3, <2>4
  <1>6. ASSUME q.at = 2, q.todo = <<stamp(2, 1)>>
        PROVE  Intended(q) = [version |-> 2, objects |-> Users]
    <2>1. PICK named : named = {q.todo[i].object : i \in DOMAIN q.todo}
      OBVIOUS
    <2>2. named = {"alembic_version"} /\ q.todo # <<>>
      BY <1>1, <1>2, <1>6, <2>1, Names
    <2>3. Intended(q) = [version |-> 2, objects |-> Objects(1) \cup (Objects(2) \cap named)]
      BY <1>3, <1>6, <2>1, <2>2
    <2>4. Objects(1) \cup (Objects(2) \cap named) = Users
      BY <2>2, ObjectsOf DEF Users, Tables, All
    <2> QED
      BY <1>6, <2>3, <2>4
  <1>7. ASSUME q.at = 1, q.todo = <<drop("users"), stamp(1, 0)>>
        PROVE  Intended(q) = [version |-> 1, objects |-> Users]
    <2>1. PICK named : named = {q.todo[i].object : i \in DOMAIN q.todo}
      OBVIOUS
    <2>2. named = {"users", "alembic_version"} /\ q.todo # <<>>
      BY <1>1, <1>2, <1>7, <2>1, Names
    <2>3. Intended(q) = [version |-> 1, objects |-> Objects(0) \cup (Objects(1) \cap named)]
      BY <1>3, <1>7, <2>1, <2>2
    <2>4. Objects(0) \cup (Objects(1) \cap named) = Users
      BY <2>2, ObjectsOf DEF Users, Tables, All
    <2> QED
      BY <1>7, <2>3, <2>4
  <1>8. ASSUME q.at = 1, q.todo = <<stamp(1, 0)>>
        PROVE  Intended(q) = [version |-> 1, objects |-> {}]
    <2>1. PICK named : named = {q.todo[i].object : i \in DOMAIN q.todo}
      OBVIOUS
    <2>2. named = {"alembic_version"} /\ q.todo # <<>>
      BY <1>1, <1>2, <1>8, <2>1, Names
    <2>3. Intended(q) = [version |-> 1, objects |-> Objects(0) \cup (Objects(1) \cap named)]
      BY <1>3, <1>8, <2>1, <2>2
    <2>4. Objects(0) \cup (Objects(1) \cap named) = {}
      BY <2>2, ObjectsOf DEF Users, Tables, All
    <2> QED
      BY <1>8, <2>3, <2>4
  <1> QED
    BY <1>4, <1>5, <1>6, <1>7, <1>8

-----------------------------------------------------------------------------
(* One statement *)

Sch(v, objects) == [version |-> v, objects |-> objects]

\* The statement s is next for q; it is meant to find `before', and when it is
\* done the run is meant to find `after'.
Stage(q, s, before, after) ==
  /\ Head(q.todo) = s
  /\ Intended(q) = before
  /\ Intended(Advance(q)) = after

UpStage(q) ==
  \/ Stage(q, create("users"), Sch(0, {}), Sch(0, Users))
  \/ Stage(q, stamp(0, 1), Sch(0, Users), Sch(1, Users))
  \/ Stage(q, create("sessions"), Sch(1, Users), Sch(1, Tables))
  \/ Stage(q, create("ix_sessions_user_id"), Sch(1, Tables), Sch(1, All))
  \/ Stage(q, stamp(1, 2), Sch(1, All), Sch(2, All))

DownStage(q) ==
  \/ Stage(q, drop("ix_sessions_user_id"), Sch(2, All), Sch(2, Tables))
  \/ Stage(q, drop("sessions"), Sch(2, Tables), Sch(2, Users))
  \/ Stage(q, stamp(2, 1), Sch(2, Users), Sch(1, Users))
  \/ Stage(q, drop("users"), Sch(1, Users), Sch(1, {}))
  \/ Stage(q, stamp(1, 0), Sch(1, {}), Sch(0, {}))

IsRun(q) == q = [todo |-> q.todo, at |-> q.at, target |-> q.target,
                 direction |-> q.direction, work |-> q.work]

\* What the run is after a statement.
LEMMA Advanced ==
  ASSUME NEW q, IsRun(q)
  PROVE  /\ Tail(q.todo) # <<>> =>
              Advance(q).todo = Tail(q.todo) /\ Advance(q).at = q.at
         /\ Tail(q.todo) = <<>> =>
              /\ Advance(q).at = Toward(q.at, q.target)
              /\ Advance(q).todo = Migration(Toward(q.at, q.target), q.target)
         /\ IsRun(Advance(q))
         /\ Advance(q).target = q.target
         /\ Advance(q).direction = q.direction
         /\ Advance(q).work = q.work
  <1>1. PICK v : v = Toward(q.at, q.target)
    OBVIOUS
  <1>2. PICK todo : todo = Migration(v, q.target)
    OBVIOUS
  <1>3. PICK rest : rest = Tail(q.todo)
    OBVIOUS
  <1>4. Advance(q) = IF rest # <<>> THEN [q EXCEPT !.todo = rest]
                     ELSE [q EXCEPT !.at = v, !.todo = todo]
    BY <1>1, <1>2, <1>3 DEF Advance
  <1>5. CASE rest # <<>>
    <2>1. Advance(q) = [q EXCEPT !.todo = rest]
      BY <1>4, <1>5
    <2> QED
      BY <1>3, <1>5, <2>1 DEF IsRun
  <1>6. CASE rest = <<>>
    <2>1. Advance(q) = [q EXCEPT !.at = v, !.todo = todo]
      BY <1>4, <1>6
    <2> QED
      BY <1>1, <1>2, <1>3, <1>6, <2>1 DEF IsRun
  <1> QED
    BY <1>5, <1>6

\* A finished run is meant to leave the objects of the revision it reached.
LEMMA IntendedAtEnd ==
  ASSUME NEW q, q.todo = <<>>
  PROVE  Intended(q) = Sch(q.at, Objects(q.at))
  BY DEF Intended, Sch

LEMMA StagesUp ==
  ASSUME NEW q, IsRun(q), InMigration(q), q.direction = "upgrade"
  PROVE  UpStage(q)
  <1>1. PICK n : n = Advance(q)
    OBVIOUS
  <1>2. /\ n.direction = "upgrade" /\ q.target = 2 /\ n.target = 2
        /\ Tail(q.todo) # <<>> => n.todo = Tail(q.todo) /\ n.at = q.at
        /\ Tail(q.todo) = <<>> => /\ n.at = Toward(q.at, q.target)
                                  /\ n.todo = Migration(n.at, q.target)
    BY <1>1, Advanced DEF InMigration
  <1>3. CASE q.at = 0 /\ q.todo = <<create("users"), stamp(0, 1)>>
    <2>1. Head(q.todo) = create("users") /\ Tail(q.todo) = <<stamp(0, 1)>>
      BY <1>3
    <2>2. n.at = 0 /\ n.todo = <<stamp(0, 1)>>
      BY <1>2, <1>3, <2>1
    <2>3. Intended(q) = Sch(0, {})
      BY <1>3, IntendedUp DEF Sch
    <2>4. Intended(n) = Sch(0, Users)
      BY <1>2, <2>2, IntendedUp DEF Sch
    <2>5. Stage(q, create("users"), Sch(0, {}), Sch(0, Users))
      BY <1>1, <2>1, <2>3, <2>4 DEF Stage
    <2> QED
      BY <2>5 DEF UpStage
  <1>4. CASE q.at = 0 /\ q.todo = <<stamp(0, 1)>>
    <2>1. Head(q.todo) = stamp(0, 1) /\ Tail(q.todo) = <<>>
      BY <1>4
    <2>2. n.at = 1 /\ n.todo = Migration(1, 2)
      BY <1>2, <1>4, <2>1 DEF Toward
    <2>3. Intended(q) = Sch(0, Users)
      BY <1>4, IntendedUp DEF Sch
    <2>4. Intended(n) = Sch(1, Users)
      BY <1>2, <2>2, IntendedUp, MigrationOf DEF Sch
    <2>5. Stage(q, stamp(0, 1), Sch(0, Users), Sch(1, Users))
      BY <1>1, <2>1, <2>3, <2>4 DEF Stage
    <2> QED
      BY <2>5 DEF UpStage
  <1>5. CASE q.at = 1 /\ q.todo = <<create("sessions"), create("ix_sessions_user_id"),
                                    stamp(1, 2)>>
    <2>1. Head(q.todo) = create("sessions")
          /\ Tail(q.todo) = <<create("ix_sessions_user_id"), stamp(1, 2)>>
      BY <1>5
    <2>2. n.at = 1 /\ n.todo = <<create("ix_sessions_user_id"), stamp(1, 2)>>
      BY <1>2, <1>5, <2>1
    <2>3. Intended(q) = Sch(1, Users)
      BY <1>5, IntendedUp DEF Sch
    <2>4. Intended(n) = Sch(1, Tables)
      BY <1>2, <2>2, IntendedUp DEF Sch
    <2>5. Stage(q, create("sessions"), Sch(1, Users), Sch(1, Tables))
      BY <1>1, <2>1, <2>3, <2>4 DEF Stage
    <2> QED
      BY <2>5 DEF UpStage
  <1>6. CASE q.at = 1 /\ q.todo = <<create("ix_sessions_user_id"), stamp(1, 2)>>
    <2>1. Head(q.todo) = create("ix_sessions_user_id") /\ Tail(q.todo) = <<stamp(1, 2)>>
      BY <1>6
    <2>2. n.at = 1 /\ n.todo = <<stamp(1, 2)>>
      BY <1>2, <1>6, <2>1
    <2>3. Intended(q) = Sch(1, Tables)
      BY <1>6, IntendedUp DEF Sch
    <2>4. Intended(n) = Sch(1, All)
      BY <1>2, <2>2, IntendedUp DEF Sch
    <2>5. Stage(q, create("ix_sessions_user_id"), Sch(1, Tables), Sch(1, All))
      BY <1>1, <2>1, <2>3, <2>4 DEF Stage
    <2> QED
      BY <2>5 DEF UpStage
  <1>7. CASE q.at = 1 /\ q.todo = <<stamp(1, 2)>>
    <2>1. Head(q.todo) = stamp(1, 2) /\ Tail(q.todo) = <<>>
      BY <1>7
    <2>2. n.at = 2 /\ n.todo = <<>>
      BY <1>2, <1>7, <2>1, MigrationOf DEF Toward
    <2>3. Intended(q) = Sch(1, All)
      BY <1>7, IntendedUp DEF Sch
    <2>4. Intended(n) = Sch(2, All)
      BY <2>2, IntendedAtEnd, ObjectsOf
    <2>5. Stage(q, stamp(1, 2), Sch(1, All), Sch(2, All))
      BY <1>1, <2>1, <2>3, <2>4 DEF Stage
    <2> QED
      BY <2>5 DEF UpStage
  <1> QED
    BY <1>3, <1>4, <1>5, <1>6, <1>7 DEF InMigration

LEMMA StagesDown ==
  ASSUME NEW q, IsRun(q), InMigration(q), q.direction = "downgrade"
  PROVE  DownStage(q)
  <1>1. PICK n : n = Advance(q)
    OBVIOUS
  <1>2. /\ n.direction = "downgrade" /\ n.target = q.target
        /\ Tail(q.todo) # <<>> => n.todo = Tail(q.todo) /\ n.at = q.at
        /\ Tail(q.todo) = <<>> => /\ n.at = Toward(q.at, q.target)
                                  /\ n.todo = Migration(n.at, q.target)
    BY <1>1, Advanced
  <1>3. CASE q.at = 2 /\ q.todo = <<drop("ix_sessions_user_id"), drop("sessions"),
                                    stamp(2, 1)>>
    <2>1. Head(q.todo) = drop("ix_sessions_user_id")
          /\ Tail(q.todo) = <<drop("sessions"), stamp(2, 1)>>
      BY <1>3
    <2>2. n.at = 2 /\ n.todo = <<drop("sessions"), stamp(2, 1)>>
      BY <1>2, <1>3, <2>1
    <2>3. Intended(q) = Sch(2, All)
      BY <1>3, IntendedDown DEF Sch
    <2>4. Intended(n) = Sch(2, Tables)
      BY <1>2, <2>2, IntendedDown DEF Sch
    <2>5. Stage(q, drop("ix_sessions_user_id"), Sch(2, All), Sch(2, Tables))
      BY <1>1, <2>1, <2>3, <2>4 DEF Stage
    <2> QED
      BY <2>5 DEF DownStage
  <1>4. CASE q.at = 2 /\ q.todo = <<drop("sessions"), stamp(2, 1)>>
    <2>1. Head(q.todo) = drop("sessions") /\ Tail(q.todo) = <<stamp(2, 1)>>
      BY <1>4
    <2>2. n.at = 2 /\ n.todo = <<stamp(2, 1)>>
      BY <1>2, <1>4, <2>1
    <2>3. Intended(q) = Sch(2, Tables)
      BY <1>4, IntendedDown DEF Sch
    <2>4. Intended(n) = Sch(2, Users)
      BY <1>2, <2>2, IntendedDown DEF Sch
    <2>5. Stage(q, drop("sessions"), Sch(2, Tables), Sch(2, Users))
      BY <1>1, <2>1, <2>3, <2>4 DEF Stage
    <2> QED
      BY <2>5 DEF DownStage
  <1>5. CASE q.at = 2 /\ q.todo = <<stamp(2, 1)>>
    <2>1. Head(q.todo) = stamp(2, 1) /\ Tail(q.todo) = <<>> /\ q.target \in {0, 1}
      BY <1>5 DEF InMigration
    <2>2. n.at = 1 /\ n.todo = Migration(1, q.target)
      BY <1>2, <1>5, <2>1 DEF Toward
    <2>3. Intended(q) = Sch(2, Users)
      BY <1>5, IntendedDown DEF Sch
    <2>4. Intended(n) = Sch(1, Users)
      <3>1. CASE q.target = 0
        BY <1>2, <2>2, <3>1, IntendedDown, MigrationOf DEF Sch
      <3>2. CASE q.target = 1
        <4>1. n.todo = <<>>
          BY <2>2, <3>2, MigrationOf
        <4> QED
          BY <2>2, <4>1, IntendedAtEnd, ObjectsOf
      <3> QED
        BY <2>1, <3>1, <3>2
    <2>5. Stage(q, stamp(2, 1), Sch(2, Users), Sch(1, Users))
      BY <1>1, <2>1, <2>3, <2>4 DEF Stage
    <2> QED
      BY <2>5 DEF DownStage
  <1>6. CASE q.at = 1 /\ q.todo = <<drop("users"), stamp(1, 0)>>
    <2>1. Head(q.todo) = drop("users") /\ Tail(q.todo) = <<stamp(1, 0)>>
      BY <1>6
    <2>2. n.at = 1 /\ n.todo = <<stamp(1, 0)>>
      BY <1>2, <1>6, <2>1
    <2>3. Intended(q) = Sch(1, Users)
      BY <1>6, IntendedDown DEF Sch
    <2>4. Intended(n) = Sch(1, {})
      BY <1>2, <2>2, IntendedDown DEF Sch
    <2>5. Stage(q, drop("users"), Sch(1, Users), Sch(1, {}))
      BY <1>1, <2>1, <2>3, <2>4 DEF Stage
    <2> QED
      BY <2>5 DEF DownStage
  <1>7. CASE q.at = 1 /\ q.todo = <<stamp(1, 0)>>
    <2>1. Head(q.todo) = stamp(1, 0) /\ Tail(q.todo) = <<>> /\ q.target = 0
      BY <1>7 DEF InMigration
    <2>2. n.at = 0 /\ n.todo = <<>>
      BY <1>2, <1>7, <2>1, MigrationOf DEF Toward
    <2>3. Intended(q) = Sch(1, {})
      BY <1>7, IntendedDown DEF Sch
    <2>4. Intended(n) = Sch(0, {})
      BY <2>2, IntendedAtEnd, ObjectsOf
    <2>5. Stage(q, stamp(1, 0), Sch(1, {}), Sch(0, {}))
      BY <1>1, <2>1, <2>3, <2>4 DEF Stage
    <2> QED
      BY <2>5 DEF DownStage
  <1> QED
    BY <1>3, <1>4, <1>5, <1>6, <1>7 DEF InMigration

\* A run stays on its plan: it is in a migration again, or has arrived.
LEMMA StaysInMigration ==
  ASSUME NEW q, IsRun(q), InMigration(q)
  PROVE  Advance(q).todo = <<>> \/ InMigration(Advance(q))
  <1>1. PICK n : n = Advance(q)
    OBVIOUS
  <1>. SUFFICES n.todo = <<>> \/ InMigration(n)
    BY <1>1
  <1>2. /\ n.direction = q.direction /\ n.target = q.target
        /\ Tail(q.todo) # <<>> => n.todo = Tail(q.todo) /\ n.at = q.at
        /\ Tail(q.todo) = <<>> => /\ n.at = Toward(q.at, q.target)
                                  /\ n.todo = Migration(n.at, q.target)
    BY <1>1, Advanced
  <1>3. CASE q.direction = "upgrade" /\ q.target = 2 /\ q.at = 0
    <2>1. CASE q.todo = <<create("users"), stamp(0, 1)>>
      <3>1. Tail(q.todo) = <<stamp(0, 1)>>
        BY <2>1
      <3>2. n.todo = <<stamp(0, 1)>> /\ n.at = 0
        BY <1>2, <1>3, <2>1, <3>1
      <3>3. n.direction = "upgrade" /\ n.target = 2
        BY <1>2, <1>3
      <3> QED
        BY <3>2, <3>3 DEF InMigration
    <2>2. CASE q.todo = <<stamp(0, 1)>>
      <3>1. Tail(q.todo) = <<>>
        BY <2>2
      <3>2. n.at = 1 /\ n.todo = Migration(1, 2)
        BY <1>2, <1>3, <3>1 DEF Toward
      <3> QED
        BY <1>2, <1>3, <3>2, MigrationOf DEF InMigration
    <2> QED
      BY <1>3, <2>1, <2>2 DEF InMigration
  <1>4. CASE q.direction = "upgrade" /\ q.target = 2 /\ q.at = 1
    <2>1. CASE q.todo = <<create("sessions"), create("ix_sessions_user_id"), stamp(1, 2)>>
      <3>1. Tail(q.todo) = <<create("ix_sessions_user_id"), stamp(1, 2)>>
        BY <2>1
      <3>2. n.todo = <<create("ix_sessions_user_id"), stamp(1, 2)>> /\ n.at = 1
        BY <1>2, <1>4, <2>1, <3>1
      <3>3. n.direction = "upgrade" /\ n.target = 2
        BY <1>2, <1>4
      <3> QED
        BY <3>2, <3>3 DEF InMigration
    <2>2. CASE q.todo = <<create("ix_sessions_user_id"), stamp(1, 2)>>
      <3>1. Tail(q.todo) = <<stamp(1, 2)>>
        BY <2>2
      <3>2. n.todo = <<stamp(1, 2)>> /\ n.at = 1
        BY <1>2, <1>4, <2>2, <3>1
      <3>3. n.direction = "upgrade" /\ n.target = 2
        BY <1>2, <1>4
      <3> QED
        BY <3>2, <3>3 DEF InMigration
    <2>3. CASE q.todo = <<stamp(1, 2)>>
      <3>1. Tail(q.todo) = <<>>
        BY <2>3
      <3>2. n.at = 2 /\ n.todo = Migration(2, 2)
        BY <1>2, <1>4, <3>1 DEF Toward
      <3> QED
        BY <3>2, MigrationOf
    <2> QED
      BY <1>4, <2>1, <2>2, <2>3 DEF InMigration
  <1>5. CASE q.direction = "downgrade" /\ q.at = 2 /\ q.target \in {0, 1}
    <2>1. CASE q.todo = <<drop("ix_sessions_user_id"), drop("sessions"), stamp(2, 1)>>
      <3>1. Tail(q.todo) = <<drop("sessions"), stamp(2, 1)>>
        BY <2>1
      <3>2. n.todo = <<drop("sessions"), stamp(2, 1)>> /\ n.at = 2
        BY <1>2, <1>5, <2>1, <3>1
      <3>3. n.direction = "downgrade" /\ n.target = q.target
        BY <1>2, <1>5
      <3> QED
        BY <1>5, <3>2, <3>3 DEF InMigration
    <2>2. CASE q.todo = <<drop("sessions"), stamp(2, 1)>>
      <3>1. Tail(q.todo) = <<stamp(2, 1)>>
        BY <2>2
      <3>2. n.todo = <<stamp(2, 1)>> /\ n.at = 2
        BY <1>2, <1>5, <2>2, <3>1
      <3>3. n.direction = "downgrade" /\ n.target = q.target
        BY <1>2, <1>5
      <3> QED
        BY <1>5, <3>2, <3>3 DEF InMigration
    <2>3. CASE q.todo = <<stamp(2, 1)>>
      <3>1. Tail(q.todo) = <<>>
        BY <2>3
      <3>2. n.at = 1 /\ n.todo = Migration(1, q.target)
        BY <1>2, <1>5, <3>1 DEF Toward
      <3>3. CASE q.target = 0
        BY <1>2, <1>5, <3>2, <3>3, MigrationOf DEF InMigration
      <3>4. CASE q.target = 1
        BY <3>2, <3>4, MigrationOf
      <3> QED
        BY <1>5, <3>3, <3>4
    <2> QED
      BY <1>5, <2>1, <2>2, <2>3 DEF InMigration
  <1>6. CASE q.direction = "downgrade" /\ q.at = 1 /\ q.target = 0
    <2>1. CASE q.todo = <<drop("users"), stamp(1, 0)>>
      <3>1. Tail(q.todo) = <<stamp(1, 0)>>
        BY <2>1
      <3>2. n.todo = <<stamp(1, 0)>> /\ n.at = 1
        BY <1>2, <1>6, <2>1, <3>1
      <3>3. n.direction = "downgrade" /\ n.target = 0
        BY <1>2, <1>6
      <3> QED
        BY <3>2, <3>3 DEF InMigration
    <2>2. CASE q.todo = <<stamp(1, 0)>>
      <3>1. Tail(q.todo) = <<>>
        BY <2>2
      <3>2. n.at = 0 /\ n.todo = Migration(0, 0)
        BY <1>2, <1>6, <3>1 DEF Toward
      <3> QED
        BY <3>2, MigrationOf
    <2> QED
      BY <1>6, <2>1, <2>2 DEF InMigration
  <1> QED
    BY <1>3, <1>4, <1>5, <1>6 DEF InMigration

LEMMA SchemaIs ==
  Schema = [objects : SUBSET All, version : 0..2]
  BY ObjectsOf DEF Schema, HeadRevision

\* What a statement needs and what it does.
LEMMA CreateIs ==
  ASSUME NEW S \in Schema, NEW o
  PROVE  /\ Possible(create(o), S) <=>
              /\ o \notin S.objects
              /\ o = "ix_sessions_user_id" => "sessions" \in S.objects
         /\ Effect(create(o), S) = Sch(S.version, S.objects \cup {o})
  <1>1. create(o).do = "create" /\ create(o).object = o
    BY DEF create
  <1>2. Possible(create(o), S) <=>
          /\ o \notin S.objects
          /\ o = "ix_sessions_user_id" => "sessions" \in S.objects
    BY <1>1 DEF Possible, Indexes
  <1>3. Effect(create(o), S) = [S EXCEPT !.objects = @ \cup {o}]
    BY <1>1 DEF Effect
  <1> QED
    BY <1>2, <1>3, SchemaIs DEF Sch

LEMMA DropIs ==
  ASSUME NEW S \in Schema, NEW o
  PROVE  /\ Possible(drop(o), S) <=> o \in S.objects
         /\ Effect(drop(o), S) = Sch(S.version, S.objects \ ({o} \cup Indexes(o)))
  <1>1. drop(o).do = "drop" /\ drop(o).object = o
    BY DEF drop
  <1>2. Possible(drop(o), S) <=> o \in S.objects
    BY <1>1 DEF Possible
  <1>3. Effect(drop(o), S) = [S EXCEPT !.objects = @ \ ({o} \cup Indexes(o))]
    BY <1>1 DEF Effect
  <1> QED
    BY <1>2, <1>3, SchemaIs DEF Sch

LEMMA StampIs ==
  ASSUME NEW S \in Schema, NEW v, NEW w
  PROVE  /\ Possible(stamp(v, w), S) <=> v = S.version
         /\ Effect(stamp(v, w), S) = Sch(w, S.objects)
  <1>1. stamp(v, w).do = "stamp" /\ stamp(v, w).from = v /\ stamp(v, w).to = w
    BY DEF stamp
  <1>2. Possible(stamp(v, w), S) <=> v = S.version
    BY <1>1 DEF Possible
  <1>3. Effect(stamp(v, w), S) = [S EXCEPT !.version = w]
    BY <1>1 DEF Effect
  <1> QED
    BY <1>2, <1>3, SchemaIs DEF Sch

\* A statement of an upgrade only adds, and adds what its run is meant to find
\* next.
LEMMA UpgradeStatement ==
  ASSUME NEW q, IsRun(q), InMigration(q), q.direction = "upgrade",
         NEW S \in Schema, Possible(Head(q.todo), S), q.at <= S.version,
         NEW R, R = Effect(Head(q.todo), S), NEW n, n = Advance(q)
  PROVE  /\ R \in Schema
         /\ S.objects \subseteq R.objects
         /\ S.version <= R.version
         /\ n.at <= R.version
         /\ Intended(q).objects \subseteq S.objects =>
              Intended(n).objects \subseteq R.objects
         /\ /\ Intended(q).objects \subseteq S.objects
            /\ Objects(S.version) \subseteq S.objects
            => Objects(R.version) \subseteq R.objects
  <1> DEFINE s == Head(q.todo)
             Done == /\ R \in Schema
                     /\ S.objects \subseteq R.objects
                     /\ S.version <= R.version
                     /\ n.at <= R.version
                     /\ Intended(q).objects \subseteq S.objects =>
                          Intended(n).objects \subseteq R.objects
                     /\ /\ Intended(q).objects \subseteq S.objects
                        /\ Objects(S.version) \subseteq S.objects
                        => Objects(R.version) \subseteq R.objects
  <1>. SUFFICES Done
    OBVIOUS
  <1>1. UpStage(q)
    BY StagesUp
  <1>2. q.at = Intended(q).version /\ n.at = Intended(n).version
    BY DEF Intended
  <1>3. S.version \in 0..2 /\ S.objects \in SUBSET All
    BY SchemaIs
  <1>4. ASSUME NEW o \in All, s = create(o), n.at = q.at,
               Intended(n).objects \subseteq Intended(q).objects \cup {o}
        PROVE  Done
    <2>1. R = Sch(S.version, S.objects \cup {o})
      BY <1>4, CreateIs
    <2>2. R.version = S.version /\ R.objects = S.objects \cup {o}
      BY <2>1 DEF Sch
    <2>3. R \in Schema
      BY <1>3, <2>1, SchemaIs DEF Sch
    <2> QED
      BY <1>3, <1>4, <2>2, <2>3
  <1>5. ASSUME NEW v \in 0..1, s = stamp(v, v + 1), n.at = v + 1,
               Intended(n).objects = Intended(q).objects,
               Intended(q).objects = Objects(v + 1)
        PROVE  Done
    <2>1. R = Sch(v + 1, S.objects) /\ v = S.version
      BY <1>5, StampIs
    <2>2. R.version = v + 1 /\ R.objects = S.objects
      BY <2>1 DEF Sch
    <2>3. R \in Schema
      BY <1>3, <2>1, SchemaIs DEF Sch
    <2> QED
      BY <1>3, <1>5, <2>1, <2>2, <2>3
  <1> HIDE DEF Done
  <1>6. CASE Stage(q, create("users"), Sch(0, {}), Sch(0, Users))
    <2>1. s = create("users") /\ Intended(q) = Sch(0, {}) /\ Intended(n) = Sch(0, Users)
      BY <1>6 DEF Stage
    <2>2. Users \subseteq {} \cup {"users"}
      BY DEF Users, Tables, All
    <2>3. /\ Intended(q).objects = {} /\ Intended(n).objects = Users
          /\ n.at = q.at
      BY <1>2, <2>1 DEF Sch
    <2>4. Intended(n).objects \subseteq Intended(q).objects \cup {"users"}
      BY <2>2, <2>3
    <2>5. "users" \in All
      BY DEF All
    <2> QED
      BY <1>4, <2>1, <2>3, <2>4, <2>5
  <1>8. CASE Stage(q, create("sessions"), Sch(1, Users), Sch(1, Tables))
    <2>1. s = create("sessions") /\ Intended(q) = Sch(1, Users) /\ Intended(n) = Sch(1, Tables)
      BY <1>8 DEF Stage
    <2>2. Tables \subseteq Users \cup {"sessions"}
      BY DEF Users, Tables, All
    <2>3. /\ Intended(q).objects = Users /\ Intended(n).objects = Tables
          /\ n.at = q.at
      BY <1>2, <2>1 DEF Sch
    <2>4. Intended(n).objects \subseteq Intended(q).objects \cup {"sessions"}
      BY <2>2, <2>3
    <2>5. "sessions" \in All
      BY DEF All
    <2> QED
      BY <1>4, <2>1, <2>3, <2>4, <2>5
  <1>9. CASE Stage(q, create("ix_sessions_user_id"), Sch(1, Tables), Sch(1, All))
    <2>1. s = create("ix_sessions_user_id") /\ Intended(q) = Sch(1, Tables) /\ Intended(n) = Sch(1, All)
      BY <1>9 DEF Stage
    <2>2. All \subseteq Tables \cup {"ix_sessions_user_id"}
      BY DEF Users, Tables, All
    <2>3. /\ Intended(q).objects = Tables /\ Intended(n).objects = All
          /\ n.at = q.at
      BY <1>2, <2>1 DEF Sch
    <2>4. Intended(n).objects \subseteq Intended(q).objects \cup {"ix_sessions_user_id"}
      BY <2>2, <2>3
    <2>5. "ix_sessions_user_id" \in All
      BY DEF All
    <2> QED
      BY <1>4, <2>1, <2>3, <2>4, <2>5
  <1>7. CASE Stage(q, stamp(0, 1), Sch(0, Users), Sch(1, Users))
    <2>1. /\ s = stamp(0, 1)
          /\ Intended(q) = Sch(0, Users) /\ Intended(n) = Sch(1, Users)
      BY <1>7 DEF Stage
    <2>2. /\ Intended(q).objects = Objects(1)
          /\ Intended(n).objects = Intended(q).objects
          /\ n.at = 1
      BY <1>2, <2>1, ObjectsOf DEF Sch
    <2> QED
      BY <1>5, <2>1, <2>2
  <1>10. CASE Stage(q, stamp(1, 2), Sch(1, All), Sch(2, All))
    <2>1. /\ s = stamp(1, 2)
          /\ Intended(q) = Sch(1, All) /\ Intended(n) = Sch(2, All)
      BY <1>10 DEF Stage
    <2>2. /\ Intended(q).objects = Objects(2)
          /\ Intended(n).objects = Intended(q).objects
          /\ n.at = 2
      BY <1>2, <2>1, ObjectsOf DEF Sch
    <2> QED
      BY <1>5, <2>1, <2>2
  <1> QED
    BY <1>1, <1>6, <1>7, <1>8, <1>9, <1>10 DEF UpStage

\* A statement of a downgrade finds what it drops, and leaves what its run is
\* meant to find next.
LEMMA DowngradeStatement ==
  ASSUME NEW q, IsRun(q), InMigration(q), q.direction = "downgrade",
         NEW S \in Schema, S.version = q.at,
         NEW R, R = Effect(Head(q.todo), S), NEW n, n = Advance(q)
  PROVE  /\ R \in Schema
         /\ R.version = n.at
         /\ Intended(q).objects \subseteq S.objects =>
              /\ Possible(Head(q.todo), S)
              /\ Intended(n).objects \subseteq R.objects
  <1> DEFINE s == Head(q.todo)
             Done == /\ R \in Schema
                     /\ R.version = n.at
                     /\ Intended(q).objects \subseteq S.objects =>
                          Possible(s, S) /\ Intended(n).objects \subseteq R.objects
  <1>. SUFFICES Done
    OBVIOUS
  <1>1. DownStage(q)
    BY StagesDown
  <1>2. q.at = Intended(q).version /\ n.at = Intended(n).version
    BY DEF Intended
  <1>3. S.version \in 0..2 /\ S.objects \in SUBSET All
    BY SchemaIs
  <1>4. ASSUME NEW o \in All, s = drop(o), n.at = q.at, o \in Intended(q).objects,
               Intended(n).objects \subseteq Intended(q).objects \ ({o} \cup Indexes(o))
        PROVE  Done
    <2>1. R = Sch(S.version, S.objects \ ({o} \cup Indexes(o)))
      BY <1>4, DropIs
    <2>2. R.version = S.version /\ R.objects = S.objects \ ({o} \cup Indexes(o))
      BY <2>1 DEF Sch
    <2>3. R \in Schema
      BY <1>3, <2>1, SchemaIs DEF Sch
    <2>4. Possible(s, S) <=> o \in S.objects
      BY <1>4, DropIs
    <2> QED
      BY <1>3, <1>4, <2>2, <2>3, <2>4
  <1>5. ASSUME NEW v \in 1..2, s = stamp(v, v - 1), q.at = v, n.at = v - 1,
               Intended(n).objects = Intended(q).objects
        PROVE  Done
    <2>1. R = Sch(v - 1, S.objects) /\ (Possible(s, S) <=> v = S.version)
      BY <1>5, StampIs
    <2>2. R.version = v - 1 /\ R.objects = S.objects
      BY <2>1 DEF Sch
    <2>3. R \in Schema
      BY <1>3, <2>1, SchemaIs DEF Sch
    <2> QED
      BY <1>3, <1>5, <2>1, <2>2, <2>3
  <1> HIDE DEF Done
  <1>6. CASE Stage(q, drop("ix_sessions_user_id"), Sch(2, All), Sch(2, Tables))
    <2>1. s = drop("ix_sessions_user_id") /\ Intended(q) = Sch(2, All) /\ Intended(n) = Sch(2, Tables)
      BY <1>6 DEF Stage
    <2>2. /\ Tables \subseteq All \ ({"ix_sessions_user_id"} \cup Indexes("ix_sessions_user_id"))
          /\ "ix_sessions_user_id" \in All /\ "ix_sessions_user_id" \in All
      BY DEF Users, Tables, All, Indexes
    <2>3. /\ Intended(q).objects = All /\ Intended(n).objects = Tables
          /\ n.at = q.at
      BY <1>2, <2>1 DEF Sch
    <2>4. Intended(n).objects \subseteq
            Intended(q).objects \ ({"ix_sessions_user_id"} \cup Indexes("ix_sessions_user_id"))
      BY <2>2, <2>3
    <2> QED
      BY <1>4, <2>1, <2>2, <2>3, <2>4
  <1>7. CASE Stage(q, drop("sessions"), Sch(2, Tables), Sch(2, Users))
    <2>1. s = drop("sessions") /\ Intended(q) = Sch(2, Tables) /\ Intended(n) = Sch(2, Users)
      BY <1>7 DEF Stage
    <2>2. /\ Users \subseteq Tables \ ({"sessions"} \cup Indexes("sessions"))
          /\ "sessions" \in Tables /\ "sessions" \in All
      BY DEF Users, Tables, All, Indexes
    <2>3. /\ Intended(q).objects = Tables /\ Intended(n).objects = Users
          /\ n.at = q.at
      BY <1>2, <2>1 DEF Sch
    <2>4. Intended(n).objects \subseteq
            Intended(q).objects \ ({"sessions"} \cup Indexes("sessions"))
      BY <2>2, <2>3
    <2> QED
      BY <1>4, <2>1, <2>2, <2>3, <2>4
  <1>9. CASE Stage(q, drop("users"), Sch(1, Users), Sch(1, {}))
    <2>1. s = drop("users") /\ Intended(q) = Sch(1, Users) /\ Intended(n) = Sch(1, {})
      BY <1>9 DEF Stage
    <2>2. /\ {} \subseteq Users \ ({"users"} \cup Indexes("users"))
          /\ "users" \in Users /\ "users" \in All
      BY DEF Users, Tables, All, Indexes
    <2>3. /\ Intended(q).objects = Users /\ Intended(n).objects = {}
          /\ n.at = q.at
      BY <1>2, <2>1 DEF Sch
    <2>4. Intended(n).objects \subseteq
            Intended(q).objects \ ({"users"} \cup Indexes("users"))
      BY <2>2, <2>3
    <2> QED
      BY <1>4, <2>1, <2>2, <2>3, <2>4
  <1>8. CASE Stage(q, stamp(2, 1), Sch(2, Users), Sch(1, Users))
    <2>1. /\ s = stamp(2, 1)
          /\ Intended(q) = Sch(2, Users) /\ Intended(n) = Sch(1, Users)
      BY <1>8 DEF Stage
    <2>2. Intended(n).objects = Intended(q).objects /\ q.at = 2 /\ n.at = 1
      BY <1>2, <2>1 DEF Sch
    <2> QED
      BY <1>5, <2>1, <2>2
  <1>10. CASE Stage(q, stamp(1, 0), Sch(1, {}), Sch(0, {}))
    <2>1. /\ s = stamp(1, 0)
          /\ Intended(q) = Sch(1, {}) /\ Intended(n) = Sch(0, {})
      BY <1>10 DEF Stage
    <2>2. Intended(n).objects = Intended(q).objects /\ q.at = 1 /\ n.at = 0
      BY <1>2, <2>1 DEF Sch
    <2> QED
      BY <1>5, <2>1, <2>2
  <1> QED
    BY <1>1, <1>6, <1>7, <1>8, <1>9, <1>10 DEF DownStage

\* A run that finds what it is meant to find does not fail, and leaves what it
\* is meant to find next.
LEMMA MeantToWork ==
  ASSUME NEW q, IsRun(q), InMigration(q), NEW S \in Schema, S = Intended(q)
  PROVE  /\ Possible(Head(q.todo), S)
         /\ Effect(Head(q.todo), S) = Intended(Advance(q))
  <1> DEFINE s == Head(q.todo)
             Done == Possible(s, S) /\ Effect(s, S) = Intended(Advance(q))
  <1>. SUFFICES Done
    OBVIOUS
  <1>1. UpStage(q) \/ DownStage(q)
    BY StagesUp, StagesDown DEF InMigration
  <1>2. CASE Stage(q, create("users"), Sch(0, {}), Sch(0, Users))
    <2>1. s = create("users") /\ S = Sch(0, {}) /\ Intended(Advance(q)) = Sch(0, Users)
      BY <1>2 DEF Stage
    <2>2. S.version = 0 /\ S.objects = {}
      BY <2>1 DEF Sch
    <2>3. Possible(s, S) /\ Effect(s, S) = Sch(0, {} \cup {"users"})
      BY <2>1, <2>2, CreateIs DEF Users, Tables
    <2>4. {} \cup {"users"} = Users
      BY DEF Users, Tables, All
    <2> QED
      BY <2>1, <2>3, <2>4
  <1>3. CASE Stage(q, create("sessions"), Sch(1, Users), Sch(1, Tables))
    <2>1. s = create("sessions") /\ S = Sch(1, Users) /\ Intended(Advance(q)) = Sch(1, Tables)
      BY <1>3 DEF Stage
    <2>2. S.version = 1 /\ S.objects = Users
      BY <2>1 DEF Sch
    <2>3. Possible(s, S) /\ Effect(s, S) = Sch(1, Users \cup {"sessions"})
      BY <2>1, <2>2, CreateIs DEF Users, Tables
    <2>4. Users \cup {"sessions"} = Tables
      BY DEF Users, Tables, All
    <2> QED
      BY <2>1, <2>3, <2>4
  <1>4. CASE Stage(q, create("ix_sessions_user_id"), Sch(1, Tables), Sch(1, All))
    <2>1. s = create("ix_sessions_user_id") /\ S = Sch(1, Tables) /\ Intended(Advance(q)) = Sch(1, All)
      BY <1>4 DEF Stage
    <2>2. S.version = 1 /\ S.objects = Tables
      BY <2>1 DEF Sch
    <2>3. Possible(s, S) /\ Effect(s, S) = Sch(1, Tables \cup {"ix_sessions_user_id"})
      BY <2>1, <2>2, CreateIs DEF Users, Tables
    <2>4. Tables \cup {"ix_sessions_user_id"} = All
      BY DEF Users, Tables, All
    <2> QED
      BY <2>1, <2>3, <2>4
  <1>5. CASE Stage(q, drop("ix_sessions_user_id"), Sch(2, All), Sch(2, Tables))
    <2>1. s = drop("ix_sessions_user_id") /\ S = Sch(2, All) /\ Intended(Advance(q)) = Sch(2, Tables)
      BY <1>5 DEF Stage
    <2>2. S.version = 2 /\ S.objects = All
      BY <2>1 DEF Sch
    <2>3. /\ Possible(s, S)
          /\ Effect(s, S) = Sch(2, All \ ({"ix_sessions_user_id"} \cup Indexes("ix_sessions_user_id")))
      BY <2>1, <2>2, DropIs DEF Users, Tables, All
    <2>4. All \ ({"ix_sessions_user_id"} \cup Indexes("ix_sessions_user_id")) = Tables
      BY DEF Users, Tables, All, Indexes
    <2> QED
      BY <2>1, <2>3, <2>4
  <1>6. CASE Stage(q, drop("sessions"), Sch(2, Tables), Sch(2, Users))
    <2>1. s = drop("sessions") /\ S = Sch(2, Tables) /\ Intended(Advance(q)) = Sch(2, Users)
      BY <1>6 DEF Stage
    <2>2. S.version = 2 /\ S.objects = Tables
      BY <2>1 DEF Sch
    <2>3. /\ Possible(s, S)
          /\ Effect(s, S) = Sch(2, Tables \ ({"sessions"} \cup Indexes("sessions")))
      BY <2>1, <2>2, DropIs DEF Users, Tables, All
    <2>4. Tables \ ({"sessions"} \cup Indexes("sessions")) = Users
      BY DEF Users, Tables, All, Indexes
    <2> QED
      BY <2>1, <2>3, <2>4
  <1>7. CASE Stage(q, drop("users"), Sch(1, Users), Sch(1, {}))
    <2>1. s = drop("users") /\ S = Sch(1, Users) /\ Intended(Advance(q)) = Sch(1, {})
      BY <1>7 DEF Stage
    <2>2. S.version = 1 /\ S.objects = Users
      BY <2>1 DEF Sch
    <2>3. /\ Possible(s, S)
          /\ Effect(s, S) = Sch(1, Users \ ({"users"} \cup Indexes("users")))
      BY <2>1, <2>2, DropIs DEF Users, Tables, All
    <2>4. Users \ ({"users"} \cup Indexes("users")) = {}
      BY DEF Users, Tables, All, Indexes
    <2> QED
      BY <2>1, <2>3, <2>4
  <1>8. CASE Stage(q, stamp(0, 1), Sch(0, Users), Sch(1, Users))
    <2>1. s = stamp(0, 1) /\ S = Sch(0, Users) /\ Intended(Advance(q)) = Sch(1, Users)
      BY <1>8 DEF Stage
    <2>2. S.version = 0 /\ S.objects = Users
      BY <2>1 DEF Sch
    <2> QED
      BY <2>1, <2>2, StampIs
  <1>9. CASE Stage(q, stamp(1, 2), Sch(1, All), Sch(2, All))
    <2>1. s = stamp(1, 2) /\ S = Sch(1, All) /\ Intended(Advance(q)) = Sch(2, All)
      BY <1>9 DEF Stage
    <2>2. S.version = 1 /\ S.objects = All
      BY <2>1 DEF Sch
    <2> QED
      BY <2>1, <2>2, StampIs
  <1>10. CASE Stage(q, stamp(2, 1), Sch(2, Users), Sch(1, Users))
    <2>1. s = stamp(2, 1) /\ S = Sch(2, Users) /\ Intended(Advance(q)) = Sch(1, Users)
      BY <1>10 DEF Stage
    <2>2. S.version = 2 /\ S.objects = Users
      BY <2>1 DEF Sch
    <2> QED
      BY <2>1, <2>2, StampIs
  <1>11. CASE Stage(q, stamp(1, 0), Sch(1, {}), Sch(0, {}))
    <2>1. s = stamp(1, 0) /\ S = Sch(1, {}) /\ Intended(Advance(q)) = Sch(0, {})
      BY <1>11 DEF Stage
    <2>2. S.version = 1 /\ S.objects = {}
      BY <2>1 DEF Sch
    <2> QED
      BY <2>1, <2>2, StampIs
  <1> QED
    BY <1>2, <1>3, <1>4, <1>5, <1>6, <1>7, <1>8,
       <1>1, <1>9, <1>10, <1>11 DEF UpStage, DownStage

\* A run at the beginning of a migration is meant to find the revision it is at.
LEMMA FreshFinds ==
  ASSUME NEW q, InMigration(q), Fresh(q)
  PROVE  Intended(q) = Sch(q.at, Objects(q.at))
  <1>1. CASE q.direction = "upgrade" /\ q.target = 2 /\ q.at = 0
    <2>1. q.todo = <<create("users"), stamp(0, 1)>>
      BY <1>1, MigrationOf DEF Fresh
    <2> QED
      BY <1>1, <2>1, IntendedUp, ObjectsOf DEF Sch
  <1>2. CASE q.direction = "upgrade" /\ q.target = 2 /\ q.at = 1
    <2>1. q.todo = <<create("sessions"), create("ix_sessions_user_id"), stamp(1, 2)>>
      BY <1>2, MigrationOf DEF Fresh
    <2> QED
      BY <1>2, <2>1, IntendedUp, ObjectsOf DEF Sch
  <1>3. CASE q.direction = "downgrade" /\ q.target \in {0, 1} /\ q.at = 2
    <2>1. q.todo = <<drop("ix_sessions_user_id"), drop("sessions"), stamp(2, 1)>>
      BY <1>3, MigrationOf DEF Fresh
    <2> QED
      BY <1>3, <2>1, IntendedDown, ObjectsOf DEF Sch
  <1>4. CASE q.direction = "downgrade" /\ q.target = 0 /\ q.at = 1
    <2>1. q.todo = <<drop("users"), stamp(1, 0)>>
      BY <1>4, MigrationOf DEF Fresh
    <2> QED
      BY <1>4, <2>1, IntendedDown, ObjectsOf DEF Sch
  <1> QED
    BY <1>1, <1>2, <1>3, <1>4 DEF InMigration

\* The table that an upgrade from revision v creates first, and that tells
\* whether it has begun.
First(v) == IF v = 0 THEN "users" ELSE "sessions"

LEMMA FirstCreated ==
  ASSUME NEW q, InMigration(q), q.direction = "upgrade"
  PROVE  /\ q.at \in {0, 1}
         /\ Fresh(q) => Head(q.todo) = create(First(q.at))
         /\ ~Fresh(q) => First(q.at) \in Intended(q).objects
         /\ Objects(q.at) \subseteq Intended(q).objects
  <1> DEFINE Goal == /\ q.at \in {0, 1}
                     /\ Fresh(q) => Head(q.todo) = create(First(q.at))
                     /\ ~Fresh(q) => First(q.at) \in Intended(q).objects
                     /\ Objects(q.at) \subseteq Intended(q).objects
  <1>. SUFFICES Goal
    OBVIOUS
  <1>1. CASE q.target = 2 /\ q.at = 0 /\ q.todo = <<create("users"), stamp(0, 1)>>
    <2>1. Intended(q).objects = {}
      BY <1>1, IntendedUp
    <2>2. Objects(0) \subseteq {}
      BY ObjectsOf DEF Users, Tables, All
    <2>3. Fresh(q) /\ Head(q.todo) = create("users")
      BY <1>1, MigrationOf DEF Fresh
    <2> QED
      BY <1>1, <2>1, <2>2, <2>3 DEF First
  <1>2. CASE q.target = 2 /\ q.at = 0 /\ q.todo = <<stamp(0, 1)>>
    <2>1. Intended(q).objects = Users
      BY <1>2, IntendedUp
    <2>2. Objects(0) \subseteq Users
      BY ObjectsOf DEF Users, Tables, All
    <2>3. First(0) \in Users
      BY DEF First, Users, Tables, All
    <2>4. ~Fresh(q)
      BY <1>2, MigrationOf DEF Fresh
    <2> QED
      BY <1>2, <2>1, <2>2, <2>3, <2>4
  <1>3. CASE q.target = 2 /\ q.at = 1 /\ q.todo = <<create("sessions"), create("ix_sessions_user_id"), stamp(1, 2)>>
    <2>1. Intended(q).objects = Users
      BY <1>3, IntendedUp
    <2>2. Objects(1) \subseteq Users
      BY ObjectsOf DEF Users, Tables, All
    <2>3. Fresh(q) /\ Head(q.todo) = create("sessions")
      BY <1>3, MigrationOf DEF Fresh
    <2> QED
      BY <1>3, <2>1, <2>2, <2>3 DEF First
  <1>4. CASE q.target = 2 /\ q.at = 1 /\ q.todo = <<create("ix_sessions_user_id"), stamp(1, 2)>>
    <2>1. Intended(q).objects = Tables
      BY <1>4, IntendedUp
    <2>2. Objects(1) \subseteq Tables
      BY ObjectsOf DEF Users, Tables, All
    <2>3. First(1) \in Tables
      BY DEF First, Users, Tables, All
    <2>4. ~Fresh(q)
      <3>1. Len(q.todo) = 2
        BY <1>4
      <3>2. Fresh(q) => q.todo = Migration(1, 2)
        BY <1>4 DEF Fresh
      <3>3. Len(Migration(1, 2)) = 3
        BY MigrationOf
      <3> QED
        BY <3>1, <3>2, <3>3
    <2> QED
      BY <1>4, <2>1, <2>2, <2>3, <2>4
  <1>5. CASE q.target = 2 /\ q.at = 1 /\ q.todo = <<stamp(1, 2)>>
    <2>1. Intended(q).objects = All
      BY <1>5, IntendedUp
    <2>2. Objects(1) \subseteq All
      BY ObjectsOf DEF Users, Tables, All
    <2>3. First(1) \in All
      BY DEF First, Users, Tables, All
    <2>4. ~Fresh(q)
      <3>1. Len(q.todo) = 1
        BY <1>5
      <3>2. Fresh(q) => q.todo = Migration(1, 2)
        BY <1>5 DEF Fresh
      <3>3. Len(Migration(1, 2)) = 3
        BY MigrationOf
      <3> QED
        BY <3>1, <3>2, <3>3
    <2> QED
      BY <1>5, <2>1, <2>2, <2>3, <2>4
  <1> QED
    BY <1>1, <1>2, <1>3, <1>4, <1>5 DEF InMigration

\* What an upgrade would create first is there when its revision is passed.
LEMMA FirstIsThere ==
  ASSUME NEW v \in 0..1, NEW w \in 0..2, v < w
  PROVE  First(v) \in Objects(w)
  <1>1. First(0) = "users" /\ First(1) = "sessions"
    BY DEF First
  <1>2. "users" \in Users /\ "users" \in All /\ "sessions" \in All
    BY DEF Users, All
  <1>3. CASE v = 0 /\ w = 1
    BY <1>1, <1>2, <1>3, ObjectsOf
  <1>4. CASE v = 0 /\ w = 2
    BY <1>1, <1>2, <1>4, ObjectsOf
  <1>5. CASE v = 1 /\ w = 2
    BY <1>1, <1>2, <1>5, ObjectsOf
  <1> QED
    BY <1>3, <1>4, <1>5

\* Three facts of a run do not depend on its work.
LEMMA WorkApart ==
  ASSUME NEW q, NEW m, m.todo = q.todo, m.at = q.at, m.target = q.target,
         m.direction = q.direction
  PROVE  /\ Intended(m) = Intended(q)
         /\ InMigration(m) <=> InMigration(q)
         /\ Fresh(m) <=> Fresh(q)
  <1>1. Intended(m) = Intended(q)
    BY DEF Intended
  <1>2. InMigration(m) <=> InMigration(q)
    BY DEF InMigration
  <1>3. Fresh(m) <=> Fresh(q)
    BY DEF Fresh
  <1> QED
    BY <1>1, <1>2, <1>3

\* A schema is not the mark of a run without work, and a run in a migration has
\* something to do.
LEMMA WorkIsSomething ==
  ASSUME NEW S \in Schema
  PROVE  S # NoWork
  BY DEF Schema

LEMMA RunningInMigration ==
  ASSUME NEW q, InMigration(q)
  PROVE  q.todo # <<>> /\ q.direction \in {"upgrade", "downgrade"}
  <1>1. \A x, y, z : <<x>> # <<>> /\ <<x, y>> # <<>> /\ <<x, y, z>> # <<>>
    OBVIOUS
  <1> QED
    BY <1>1 DEF InMigration

-----------------------------------------------------------------------------
(* The invariant *)

LEMMA InitInv == Init => MigrationsInv
  <1> SUFFICES ASSUME Init PROVE MigrationsInv
    OBVIOUS
  <1>1. \A r \in Runs : run[r] = NotRunning
    BY DEF Init
  <1>2. \A r \in Runs : ~Running(r) /\ ~Started(r) /\ run[r].direction = "none"
    BY <1>1 DEF Running, Started, NotRunning
  <1>3. committed = Sch(0, {})
    BY DEF Init, Sch
  <1>4. committed \in Schema /\ committed.objects = Objects(committed.version)
    BY <1>3, SchemaIs, ObjectsOf DEF Sch
  <1>5. ShapeInv
    BY <1>1, <1>2, <1>4 DEF ShapeInv, RunShape, Init
  <1>6. ExactInv
    BY <1>2, <1>4 DEF ExactInv
  <1>7. EnoughInv
    BY <1>2, <1>4 DEF EnoughInv
  <1> QED
    BY <1>5, <1>6, <1>7 DEF MigrationsInv

\* What the shape says of a run in progress.
LEMMA RunIs ==
  ASSUME ShapeInv, NEW r \in Runs, Running(r)
  PROVE  /\ IsRun(run[r]) /\ InMigration(run[r])
         /\ run[r].direction \in {"upgrade", "downgrade"}
         /\ run[r].work # NoWork => Transactional /\ run[r].work \in Schema
         /\ Seen(r) \in Schema
  <1>1. run[r] # NotRunning
    BY DEF Running, NotRunning
  <1>2. /\ run[r] = [todo |-> run[r].todo, at |-> run[r].at, target |-> run[r].target,
                     direction |-> run[r].direction, work |-> run[r].work]
        /\ InMigration(run[r])
        /\ run[r].work # NoWork => Transactional /\ run[r].work \in Schema
    BY <1>1 DEF ShapeInv, RunShape
  <1>3. Seen(r) \in Schema
    BY <1>2 DEF Seen, ShapeInv
  <1> QED
    BY <1>2, <1>3, RunningInMigration DEF IsRun

\* What the shape says of a run that is not in progress.
LEMMA IdleIs ==
  ASSUME ShapeInv, NEW r \in Runs, ~Running(r)
  PROVE  run[r] = NotRunning
  <1>1. \A q : InMigration(q) => q.todo # <<>>
    BY RunningInMigration
  <1> QED
    BY <1>1 DEF ShapeInv, RunShape, Running

\* When no run has died half way, the run that executes a statement is the
\* only one in the middle of its work and finds what it is meant to find.
LEMMA ExecuteFinds ==
  ASSUME ShapeInv, ExactInv, Transactional \/ interrupted = {},
         NEW r \in Runs, Running(r), ~Blocked(r),
         Possible(Head(run[r].todo), Seen(r))
  PROVE  /\ Seen(r) = Intended(run[r])
         /\ \A p \in Runs \ {r} : ~Started(p)
  <1>1. /\ IsRun(run[r]) /\ InMigration(run[r]) /\ Seen(r) \in Schema
        /\ run[r].direction \in {"upgrade", "downgrade"}
    BY RunIs
  <1>2. CASE Started(r)
    BY <1>2 DEF ExactInv
  <1>3. CASE ~Started(r)
    <2>1. Fresh(run[r]) /\ run[r].work = NoWork /\ Seen(r) = committed
      BY <1>3 DEF Started, Seen
    <2>2. Intended(run[r]) = Sch(run[r].at, Objects(run[r].at))
      BY <1>1, <2>1, FreshFinds
    <2>3. committed = Sch(committed.version, committed.objects)
          /\ committed.version \in 0..2
      BY SchemaIs DEF ShapeInv, Sch
    <2>4. ASSUME run[r].direction = "upgrade"
          PROVE  First(run[r].at) \notin committed.objects
      <3>1. Head(run[r].todo) = create(First(run[r].at))
        BY <1>1, <2>1, <2>4, FirstCreated
      <3> QED
        BY <1>1, <2>1, <3>1, CreateIs
    <2>5. ASSUME NEW p \in Runs \ {r}, Started(p)
          PROVE  FALSE
      <3>1. Running(p) /\ p \in Runs
        BY <2>5 DEF Started
      <3>2. /\ run[r].direction = "upgrade" /\ run[p].direction = "upgrade"
            /\ run[r].at <= committed.version
        BY <2>1, <3>1 DEF ShapeInv
      <3>3. run[p].work = NoWork
        BY <2>5 DEF Blocked
      <3>4. Seen(p) = committed /\ Seen(p) = Intended(run[p]) /\ ~Fresh(run[p])
        BY <2>5, <3>1, <3>3 DEF ExactInv, Seen, Started
      <3>5. committed.version = run[p].at
        BY <3>4 DEF Intended
      <3>6. InMigration(run[p])
        BY <3>1, RunIs
      <3>7. /\ run[p].at \in {0, 1} /\ run[r].at \in {0, 1}
            /\ First(run[p].at) \in committed.objects
            /\ Objects(run[p].at) \subseteq committed.objects
        BY <1>1, <3>2, <3>4, <3>6, FirstCreated
      <3>8. CASE run[r].at = run[p].at
        BY <2>4, <3>2, <3>7, <3>8
      <3>9. CASE run[r].at < run[p].at
        <4>1. First(run[r].at) \in Objects(run[p].at)
          BY <3>7, <3>9, FirstIsThere
        <4> QED
          BY <2>4, <3>2, <3>7, <4>1
      <3> QED
        BY <3>2, <3>5, <3>7, <3>8, <3>9
    <2>6. \A p \in Runs : ~Started(p)
      BY <1>3, <2>5
    <2>7. committed.objects = Objects(committed.version)
      BY <2>6 DEF ExactInv
    <2>8. run[r].at = committed.version
      <3>1. CASE run[r].direction = "downgrade"
        BY <2>1, <3>1 DEF ShapeInv
      <3>2. CASE run[r].direction = "upgrade"
        <4>1. run[r].at <= committed.version /\ run[r].at \in {0, 1}
          BY <1>1, <2>1, <3>2, FirstCreated DEF ShapeInv
        <4>2. CASE run[r].at < committed.version
          <5>1. First(run[r].at) \in Objects(committed.version)
            BY <2>3, <4>1, <4>2, FirstIsThere
          <5> QED
            BY <2>4, <2>7, <3>2, <5>1
        <4> QED
          BY <2>3, <4>1, <4>2
      <3> QED
        BY <1>1, <3>1, <3>2
    <2> QED
      BY <2>1, <2>2, <2>3, <2>6, <2>7, <2>8
  <1> QED
    BY <1>2, <1>3

-----------------------------------------------------------------------------
(* Execute *)

\* The statement that r executes, the schema it leaves, and what r goes on with.
Result(r) == Effect(Head(run[r].todo), Seen(r))
Rest(r) == Advance(run[r])

LEMMA ResultIs ==
  ASSUME ShapeInv, NEW r \in Runs, Running(r), Possible(Head(run[r].todo), Seen(r))
  PROVE  /\ Result(r) \in Schema
         /\ run[r].direction = "upgrade" =>
              /\ Seen(r).objects \subseteq Result(r).objects
              /\ Seen(r).version <= Result(r).version
              /\ Rest(r).at <= Result(r).version
              /\ /\ Intended(run[r]).objects \subseteq Seen(r).objects
                 /\ Objects(Seen(r).version) \subseteq Seen(r).objects
                 => Objects(Result(r).version) \subseteq Result(r).objects
         /\ run[r].direction = "downgrade" => Rest(r).at = Result(r).version
         /\ Intended(run[r]).objects \subseteq Seen(r).objects =>
              Intended(Rest(r)).objects \subseteq Result(r).objects
  <1>1. /\ IsRun(run[r]) /\ InMigration(run[r]) /\ Seen(r) \in Schema
        /\ run[r].direction \in {"upgrade", "downgrade"}
    BY RunIs
  <1>2. PICK R : R = Effect(Head(run[r].todo), Seen(r))
    OBVIOUS
  <1>3. PICK n : n = Advance(run[r])
    OBVIOUS
  <1>4. CASE run[r].direction = "upgrade"
    <2>1. run[r].at <= Seen(r).version
      BY <1>4 DEF ShapeInv
    <2>2. /\ R \in Schema
          /\ Seen(r).objects \subseteq R.objects
          /\ Seen(r).version <= R.version
          /\ n.at <= R.version
          /\ Intended(run[r]).objects \subseteq Seen(r).objects =>
               Intended(n).objects \subseteq R.objects
          /\ /\ Intended(run[r]).objects \subseteq Seen(r).objects
             /\ Objects(Seen(r).version) \subseteq Seen(r).objects
             => Objects(R.version) \subseteq R.objects
      BY <1>1, <1>2, <1>3, <1>4, <2>1, UpgradeStatement
    <2> QED
      BY <1>2, <1>3, <1>4, <2>2 DEF Result, Rest
  <1>5. CASE run[r].direction = "downgrade"
    <2>1. run[r].at = Seen(r).version
      BY <1>5 DEF ShapeInv
    <2>2. /\ R \in Schema /\ R.version = n.at
          /\ Intended(run[r]).objects \subseteq Seen(r).objects =>
               Intended(n).objects \subseteq R.objects
      BY <1>1, <1>2, <1>3, <1>5, <2>1, DowngradeStatement
    <2> QED
      BY <1>2, <1>3, <1>5, <2>2 DEF Result, Rest
  <1> QED
    BY <1>1, <1>4, <1>5

\* What is committed and what the run keeps after a statement.
LEMMA ExecuteLeaves ==
  ASSUME ShapeInv, NEW r \in Runs, Execute(r)
  PROVE  /\ Running(r) /\ ~Blocked(r) /\ Possible(Head(run[r].todo), Seen(r))
         /\ dialect' = dialect /\ interrupted' = interrupted /\ DOMAIN run' = Runs
         /\ \A p \in Runs \ {r} : run'[p] = run[p]
         /\ ~Transactional => committed' = Result(r)
         /\ Transactional => committed' = committed \/ ~Running(r)'
         /\ ~Running(r)' => run'[r] = NotRunning /\ committed' = Result(r)
                            /\ Rest(r).todo = <<>>
         /\ Running(r)' =>
              /\ run'[r] = [todo |-> Rest(r).todo, at |-> Rest(r).at,
                            target |-> run[r].target,
                            direction |-> run[r].direction,
                            work |-> IF Transactional THEN Result(r) ELSE NoWork]
              /\ Rest(r).todo # <<>>
              /\ Seen(r)' = Result(r)
  <1>1. PICK n : n = Advance(run[r])
    OBVIOUS
  <1>2. PICK R : R = Effect(Head(run[r].todo), Seen(r))
    OBVIOUS
  <1>3. Rest(r) = n /\ Result(r) = R
    BY <1>1, <1>2 DEF Rest, Result
  <1>4. /\ Running(r) /\ ~Blocked(r) /\ Possible(Head(run[r].todo), Seen(r))
        /\ dialect' = dialect /\ interrupted' = interrupted
        /\ IF CommitsAfter(n.todo)
           THEN /\ committed' = R
                /\ run' = [run EXCEPT ![r] = IF n.todo = <<>> THEN NotRunning ELSE n]
           ELSE /\ run' = [run EXCEPT ![r] = [n EXCEPT !.work = R]]
                /\ committed' = committed
    BY <1>1, <1>2 DEF Execute
  <1>5. /\ IsRun(run[r])
        /\ run[r].work # NoWork => Transactional
    BY <1>4, RunIs
  <1>6. /\ IsRun(n) /\ n.target = run[r].target /\ n.direction = run[r].direction
        /\ n.work = run[r].work
    BY <1>1, <1>5, Advanced
  <1>7. DOMAIN run = Runs
    BY DEF ShapeInv
  <1>8. R \in Schema /\ R # NoWork
    BY <1>3, <1>4, ResultIs, WorkIsSomething
  <1>9. CASE n.todo = <<>>
    <2>1. committed' = R /\ run' = [run EXCEPT ![r] = NotRunning]
      BY <1>4, <1>9 DEF CommitsAfter
    <2>2. run'[r] = NotRunning /\ DOMAIN run' = Runs /\ \A p \in Runs \ {r} : run'[p] = run[p]
      BY <1>7, <2>1
    <2>3. ~Running(r)'
      BY <2>2 DEF Running, NotRunning
    <2> QED
      BY <1>3, <1>4, <1>9, <2>1, <2>2, <2>3
  <1>10. CASE n.todo # <<>> /\ ~Transactional
    <2>1. committed' = R /\ run' = [run EXCEPT ![r] = n]
      BY <1>4, <1>10 DEF CommitsAfter
    <2>2. run'[r] = n /\ DOMAIN run' = Runs /\ \A p \in Runs \ {r} : run'[p] = run[p]
      BY <1>7, <2>1
    <2>3. Running(r)'
      BY <1>10, <2>2 DEF Running
    <2>4. n = [todo |-> n.todo, at |-> n.at, target |-> run[r].target,
               direction |-> run[r].direction, work |-> NoWork]
      BY <1>5, <1>6, <1>10 DEF IsRun
    <2>5. Seen(r)' = R
      BY <2>1, <2>2, <2>4 DEF Seen
    <2> QED
      BY <1>3, <1>4, <1>10, <2>1, <2>2, <2>3, <2>4, <2>5
  <1>11. CASE n.todo # <<>> /\ Transactional
    <2>1. committed' = committed /\ run' = [run EXCEPT ![r] = [n EXCEPT !.work = R]]
      BY <1>4, <1>11 DEF CommitsAfter
    <2>2. /\ run'[r] = [n EXCEPT !.work = R] /\ DOMAIN run' = Runs
          /\ \A p \in Runs \ {r} : run'[p] = run[p]
      BY <1>7, <2>1
    <2>3. [n EXCEPT !.work = R] =
            [todo |-> n.todo, at |-> n.at, target |-> run[r].target,
             direction |-> run[r].direction, work |-> R]
      BY <1>6 DEF IsRun
    <2>4. Running(r)' /\ Seen(r)' = R
      BY <1>8, <1>11, <2>2, <2>3 DEF Running, Seen
    <2> QED
      BY <1>3, <1>4, <1>11, <2>1, <2>2, <2>3, <2>4
  <1> QED
    BY <1>9, <1>10, <1>11

\* A run that is not executing has nothing uncommitted.
LEMMA OthersSee ==
  ASSUME NEW r \in Runs, ~Blocked(r), NEW p \in Runs \ {r}
  PROVE  run[p].work = NoWork /\ Seen(p) = committed
  BY DEF Blocked, Seen

\* The other runs before and after a statement of r.
LEMMA OthersStay ==
  ASSUME ShapeInv, NEW r \in Runs, Execute(r), NEW p \in Runs \ {r}
  PROVE  /\ run'[p] = run[p]
         /\ Running(p)' <=> Running(p)
         /\ Started(p)' <=> Started(p)
         /\ Seen(p) = committed /\ Seen(p)' = committed'
  <1>1. run'[p] = run[p] /\ ~Blocked(r)
    BY ExecuteLeaves
  <1>2. run[p].work = NoWork /\ Seen(p) = committed
    BY <1>1, OthersSee
  <1>3. Running(p)' <=> Running(p)
    BY <1>1 DEF Running
  <1>4. Started(p)' <=> Started(p)
    BY <1>1 DEF Started, Running, Fresh
  <1>5. Seen(p)' = committed'
    BY <1>1, <1>2 DEF Seen
  <1> QED
    BY <1>1, <1>2, <1>3, <1>4, <1>5

\* The run itself after its statement.
LEMMA ExecutorAfter ==
  ASSUME ShapeInv, NEW r \in Runs, Execute(r), Running(r)'
  PROVE  /\ run'[r].direction = run[r].direction
         /\ run'[r].at = Rest(r).at
         /\ InMigration(run'[r])
         /\ Intended(run'[r]) = Intended(Rest(r))
         /\ Fresh(run'[r]) <=> Fresh(Rest(r))
         /\ RunShape(run[r])'
  <1>1. PICK n : n = Rest(r)
    OBVIOUS
  <1>2. /\ Running(r) /\ Possible(Head(run[r].todo), Seen(r)) /\ dialect' = dialect
        /\ run'[r] = [todo |-> n.todo, at |-> n.at,
                      target |-> run[r].target,
                      direction |-> run[r].direction,
                      work |-> IF Transactional THEN Result(r) ELSE NoWork]
        /\ n.todo # <<>>
    BY <1>1, ExecuteLeaves
  <1>3. IsRun(run[r]) /\ InMigration(run[r])
    BY <1>2, RunIs
  <1>4. n.target = run[r].target /\ n.direction = run[r].direction /\ InMigration(n)
    BY <1>1, <1>2, <1>3, Advanced, StaysInMigration DEF Rest
  <1>5. PICK m : m = run'[r]
    OBVIOUS
  <1>6. /\ m.todo = n.todo /\ m.at = n.at /\ m.target = n.target
        /\ m.direction = n.direction
        /\ m.work = IF Transactional THEN Result(r) ELSE NoWork
        /\ m = [todo |-> m.todo, at |-> m.at, target |-> m.target,
                direction |-> m.direction, work |-> m.work]
    BY <1>2, <1>4, <1>5
  <1>7. Intended(m) = Intended(n) /\ InMigration(m) /\ (Fresh(m) <=> Fresh(n))
    BY <1>4, <1>6, WorkApart
  <1>8. Result(r) \in Schema
    BY <1>2, ResultIs
  <1>9. m.work # NoWork => Transactional /\ m.work \in Schema
    BY <1>6, <1>8
  <1>10. RunShape(run[r])'
    BY <1>2, <1>5, <1>6, <1>7, <1>9 DEF RunShape, Transactional
  <1> QED
    BY <1>1, <1>4, <1>5, <1>6, <1>7, <1>10

LEMMA ExecuteShape ==
  ASSUME ShapeInv, NEW r \in Runs, Execute(r)
  PROVE  ShapeInv'
  <1>1. /\ Running(r) /\ Possible(Head(run[r].todo), Seen(r))
        /\ dialect' = dialect /\ DOMAIN run' = Runs
        /\ committed' = Result(r) \/ committed' = committed
        /\ ~Running(r)' => run'[r] = NotRunning
        /\ Running(r)' => Seen(r)' = Result(r)
    BY ExecuteLeaves
  <1>2. /\ Result(r) \in Schema
        /\ run[r].direction \in {"upgrade", "downgrade"}
        /\ run[r].direction = "upgrade" =>
             /\ Seen(r).objects \subseteq Result(r).objects
             /\ Seen(r).version <= Result(r).version
             /\ Rest(r).at <= Result(r).version
        /\ run[r].direction = "downgrade" => Rest(r).at = Result(r).version
    BY <1>1, ResultIs, RunIs
  <1>3. committed \in Schema /\ committed' \in Schema
    BY <1>1, <1>2 DEF ShapeInv
  <1>4. ASSUME NEW p \in Runs
        PROVE  RunShape(run[p])'
    <2>1. CASE p # r
      <3>1. run'[p] = run[p] /\ RunShape(run[p])
        BY <2>1, OthersStay DEF ShapeInv
      <3> QED
        BY <1>1, <3>1 DEF RunShape, Transactional
    <2>2. CASE p = r /\ Running(r)'
      BY <2>2, ExecutorAfter
    <2>3. CASE p = r /\ ~Running(r)'
      BY <1>1, <2>3 DEF RunShape
    <2> QED
      BY <2>1, <2>2, <2>3
  <1>5. ASSUME NEW p \in Runs, Running(p)'
        PROVE  Running(p) /\ run'[p].direction = run[p].direction
    <2>1. CASE p = r
      BY <1>1, <1>5, <2>1, ExecutorAfter
    <2>2. CASE p # r
      BY <1>5, <2>2, OthersStay
    <2> QED
      BY <2>1, <2>2
  <1>6. ASSUME NEW p \in Runs, NEW q \in Runs, p # q, Running(p)', Running(q)'
        PROVE  run'[p].direction = "upgrade"
    BY <1>5, <1>6 DEF ShapeInv
  <1>7. run[r].direction = "upgrade" => /\ committed.version <= Result(r).version
                                        /\ committed.objects \subseteq Result(r).objects
    <2>1. Seen(r) \in Schema
      BY <1>1, RunIs
    <2>2. run[r].direction = "upgrade" => /\ committed.version <= Seen(r).version
                                          /\ committed.objects \subseteq Seen(r).objects
      BY DEF ShapeInv
    <2> QED
      BY <1>2, <1>3, <2>1, <2>2, SchemaIs
  <1>8. ASSUME NEW p \in Runs
        PROVE  /\ run'[p].direction = "upgrade" =>
                    /\ run'[p].at <= Seen(p)'.version
                    /\ committed'.version <= Seen(p)'.version
                    /\ committed'.objects \subseteq Seen(p)'.objects
               /\ run'[p].direction = "downgrade" => run'[p].at = Seen(p)'.version
    <2>1. CASE ~Running(p)'
      <3>1. run'[p] = NotRunning
        <4>1. CASE p = r
          BY <1>1, <2>1, <4>1
        <4>2. CASE p # r
          <5>1. run'[p] = run[p] /\ ~Running(p)
            BY <2>1, <4>2, OthersStay
          <5> QED
            BY <5>1, IdleIs
        <4> QED
          BY <4>1, <4>2
      <3> QED
        BY <3>1 DEF NotRunning
    <2>2. CASE p = r /\ Running(r)'
      <3>1. run'[r].direction = run[r].direction /\ run'[r].at = Rest(r).at
        BY <2>2, ExecutorAfter
      <3>2. CASE run[r].direction = "downgrade"
        BY <1>1, <1>2, <2>2, <3>1, <3>2
      <3>3. CASE run[r].direction = "upgrade"
        <4>1. /\ committed'.version <= Result(r).version
              /\ committed'.objects \subseteq Result(r).objects
          BY <1>1, <1>2, <1>3, <1>7, <3>3, SchemaIs
        <4> QED
          BY <1>1, <1>2, <2>2, <3>1, <3>3, <4>1
      <3> QED
        BY <1>2, <3>2, <3>3
    <2>3. CASE p # r /\ Running(p)'
      <3>1. /\ run'[p] = run[p] /\ Running(p)
            /\ Seen(p) = committed /\ Seen(p)' = committed'
        BY <2>3, OthersStay
      <3>2. run[p].direction = "upgrade" /\ run[r].direction = "upgrade"
        BY <1>1, <2>3, <3>1 DEF ShapeInv
      <3>3. run[p].at <= committed.version
        BY <3>1, <3>2 DEF ShapeInv
      <3>4. InMigration(run[p])
        BY <3>1, RunIs
      <3>5. run[p].at \in {0, 1}
        BY <3>2, <3>4, FirstCreated
      <3>6. committed.version \in 0..2 /\ Result(r).version \in 0..2
        BY <1>2, <1>3, SchemaIs
      <3>7. committed.version <= committed'.version
        BY <1>1, <1>2, <1>7, <3>2, <3>6
      <3> QED
        BY <1>3, <3>1, <3>2, <3>3, <3>5, <3>6, <3>7, SchemaIs
    <2> QED
      BY <2>1, <2>2, <2>3
  <1> QED
    BY <1>1, <1>3, <1>4, <1>6, <1>8 DEF ShapeInv

LEMMA ExecuteExact ==
  ASSUME ShapeInv, ExactInv, NEW r \in Runs, Execute(r)
  PROVE  ExactInv'
  <1>1. /\ Running(r) /\ ~Blocked(r) /\ Possible(Head(run[r].todo), Seen(r))
        /\ dialect' = dialect /\ interrupted' = interrupted
    BY ExecuteLeaves
  <1>. SUFFICES ASSUME Transactional \/ interrupted = {}
                PROVE  /\ \A p \in Runs : Started(p)' => Seen(p)' = Intended(run'[p])
                       /\ \A p, q \in Runs : Started(p)' /\ Started(q)' => p = q
                       /\ Transactional => \A p \in Runs : Started(p)' => run'[p].work # NoWork
                       /\ (Transactional \/ \A p \in Runs : ~Started(p)') =>
                            committed'.objects = Objects(committed'.version)
    BY <1>1 DEF ExactInv, Transactional
  <1>2. /\ Seen(r) = Intended(run[r])
        /\ \A p \in Runs \ {r} : ~Started(p)
    BY <1>1, ExecuteFinds
  <1>3. Result(r) = Intended(Rest(r)) /\ Result(r) \in Schema
    BY <1>1, <1>2, RunIs, MeantToWork, ResultIs DEF Result, Rest
  <1>4. ASSUME NEW p \in Runs, Started(p)'
        PROVE  p = r /\ Running(r)'
    <2>1. p = r
      BY <1>2, <1>4, OthersStay
    <2> QED
      BY <1>4, <2>1 DEF Started
  <1>5. Running(r)' => /\ Seen(r)' = Intended(run'[r])
                       /\ Transactional => run'[r].work # NoWork
    <2>1. SUFFICES ASSUME Running(r)'
                   PROVE  /\ Seen(r)' = Intended(run'[r])
                          /\ Transactional => run'[r].work # NoWork
      OBVIOUS
    <2>2. Seen(r)' = Intended(run'[r])
      BY <1>3, <2>1, ExecuteLeaves, ExecutorAfter
    <2>3. run'[r].work = IF Transactional THEN Result(r) ELSE NoWork
      <3>1. run'[r] = [todo |-> Rest(r).todo, at |-> Rest(r).at,
                       target |-> run[r].target,
                       direction |-> run[r].direction,
                       work |-> IF Transactional THEN Result(r) ELSE NoWork]
        BY <2>1, ExecuteLeaves
      <3> QED
        BY <3>1
    <2> QED
      BY <1>3, <2>2, <2>3, WorkIsSomething
  <1>6. ASSUME Transactional \/ \A p \in Runs : ~Started(p)'
        PROVE  committed'.objects = Objects(committed'.version)
    <2>1. CASE ~Running(r)'
      <3>1. committed' = Result(r) /\ Rest(r).todo = <<>>
        BY <2>1, ExecuteLeaves
      <3>2. committed' = Sch(Rest(r).at, Objects(Rest(r).at))
        BY <1>3, <3>1, IntendedAtEnd
      <3> QED
        BY <3>2 DEF Sch
    <2>2. CASE Running(r)' /\ Transactional
      <3>1. committed' = committed
        BY <2>2, ExecuteLeaves
      <3> QED
        BY <2>2, <3>1 DEF ExactInv
    <2>3. CASE Running(r)' /\ ~Transactional
      <3>1. committed' = Intended(run'[r])
        <4>1. committed' = Result(r)
          BY <2>3, ExecuteLeaves
        <4> QED
          BY <1>3, <2>3, <4>1, ExecutorAfter
      <3>2. Fresh(run'[r])
        BY <1>6, <2>3 DEF Started, Fresh
      <3>3. InMigration(run'[r])
        BY <2>3, ExecutorAfter
      <3>4. committed' = Sch(run'[r].at, Objects(run'[r].at))
        BY <3>1, <3>2, <3>3, FreshFinds
      <3> QED
        BY <3>4 DEF Sch
    <2> QED
      BY <2>1, <2>2, <2>3
  <1> QED
    BY <1>4, <1>5, <1>6

LEMMA ExecuteEnough ==
  ASSUME ShapeInv, EnoughInv, NEW r \in Runs, Execute(r)
  PROVE  EnoughInv'
  <1>1. /\ Running(r) /\ ~Blocked(r) /\ Possible(Head(run[r].todo), Seen(r))
        /\ interrupted' = interrupted
        /\ committed' = Result(r) \/ committed' = committed
    BY ExecuteLeaves
  <1>. SUFFICES ASSUME "downgrade" \notin interrupted
                PROVE  /\ \A p \in Runs : Running(p)' =>
                            Intended(run'[p]).objects \subseteq Seen(p)'.objects
                       /\ \A p \in Runs : run'[p].direction = "upgrade" =>
                            Objects(Seen(p)'.version) \subseteq Seen(p)'.objects
                       /\ (\A p \in Runs : run'[p].direction # "downgrade") =>
                            Objects(committed'.version) \subseteq committed'.objects
    BY <1>1 DEF EnoughInv
  <1>2. /\ Intended(run[r]).objects \subseteq Seen(r).objects
        /\ run[r].direction \in {"upgrade", "downgrade"}
    BY <1>1, RunIs DEF EnoughInv
  <1>3. /\ Intended(Rest(r)).objects \subseteq Result(r).objects
        /\ run[r].direction = "upgrade" => Seen(r).objects \subseteq Result(r).objects
        /\ run[r].direction = "upgrade" =>
             Objects(Result(r).version) \subseteq Result(r).objects
        /\ run[r].direction = "downgrade" => Rest(r).at = Result(r).version
    BY <1>1, <1>2, ResultIs DEF EnoughInv
  <1>4. ASSUME NEW p \in Runs, Running(p)'
        PROVE  Intended(run'[p]).objects \subseteq Seen(p)'.objects
    <2>1. CASE p = r
      <3>1. Intended(run'[r]) = Intended(Rest(r)) /\ Seen(r)' = Result(r)
        BY <1>4, <2>1, ExecutorAfter, ExecuteLeaves
      <3> QED
        BY <1>3, <2>1, <3>1
    <2>2. CASE p # r
      <3>1. /\ run'[p] = run[p] /\ Running(p)
            /\ Seen(p) = committed /\ Seen(p)' = committed'
        BY <1>4, <2>2, OthersStay
      <3>2. run[r].direction = "upgrade"
        BY <1>1, <2>2, <3>1 DEF ShapeInv
      <3>3. Intended(run[p]).objects \subseteq committed.objects
        BY <3>1 DEF EnoughInv
      <3>4. committed.objects \subseteq committed'.objects
        <4>1. committed.objects \subseteq Seen(r).objects
          BY <3>2 DEF ShapeInv
        <4> QED
          BY <1>1, <1>3, <3>2, <4>1
      <3> QED
        BY <3>1, <3>3, <3>4
    <2> QED
      BY <2>1, <2>2
  <1>5. ASSUME NEW p \in Runs, run'[p].direction = "upgrade"
        PROVE  Objects(Seen(p)'.version) \subseteq Seen(p)'.objects
    <2>1. CASE p = r
      <3>1. Running(r)'
        <4>1. ~Running(r)' => run'[r] = NotRunning
          BY ExecuteLeaves
        <4>2. NotRunning.direction = "none"
          BY DEF NotRunning
        <4> QED
          BY <1>5, <2>1, <4>1, <4>2
      <3>2. run[r].direction = "upgrade" /\ Seen(r)' = Result(r)
        BY <1>5, <2>1, <3>1, ExecutorAfter, ExecuteLeaves
      <3> QED
        BY <1>3, <2>1, <3>2
    <2>2. CASE p # r
      <3>1. /\ run'[p] = run[p] /\ Seen(p) = committed /\ Seen(p)' = committed'
        BY <2>2, OthersStay
      <3>2. Running(p)
        <4>1. run[p].direction = "upgrade"
          BY <1>5, <3>1
        <4> QED
          BY <4>1, IdleIs DEF NotRunning
      <3>3. run[r].direction = "upgrade"
        BY <1>1, <2>2, <3>2 DEF ShapeInv
      <3>4. Objects(committed.version) \subseteq committed.objects
        BY <1>5, <3>1 DEF EnoughInv
      <3> QED
        BY <1>1, <1>3, <3>1, <3>3, <3>4
    <2> QED
      BY <2>1, <2>2
  <1>6. ASSUME \A p \in Runs : run'[p].direction # "downgrade"
        PROVE  Objects(committed'.version) \subseteq committed'.objects
    <2>1. CASE run[r].direction = "downgrade"
      <3>1. ~Running(r)'
        BY <1>6, <2>1, ExecutorAfter
      <3>2. committed' = Result(r) /\ Rest(r).todo = <<>>
        BY <3>1, ExecuteLeaves
      <3>3. Intended(Rest(r)).objects = Objects(Rest(r).at)
        BY <3>2, IntendedAtEnd DEF Sch
      <3> QED
        BY <1>3, <2>1, <3>2, <3>3
    <2>2. CASE run[r].direction = "upgrade"
      <3>1. CASE committed' = Result(r)
        BY <1>3, <2>2, <3>1
      <3>2. CASE committed' = committed
        <4>1. \A p \in Runs : run[p].direction # "downgrade"
          BY <1>6, <2>2, OthersStay
        <4> QED
          BY <3>2, <4>1 DEF EnoughInv
      <3> QED
        BY <1>1, <3>1, <3>2
    <2> QED
      BY <1>2, <2>1, <2>2
  <1> QED
    BY <1>4, <1>5, <1>6

-----------------------------------------------------------------------------
(* Fail, Interrupt and Begin *)

\* A run that ends without committing leaves everything else as it was.
LEMMA StopLeaves ==
  ASSUME ShapeInv, NEW r \in Runs, run' = [run EXCEPT ![r] = NotRunning],
         committed' = committed, dialect' = dialect
  PROVE  /\ ShapeInv'
         /\ run'[r] = NotRunning /\ ~Running(r)' /\ ~Started(r)'
         /\ \A p \in Runs \ {r} : /\ run'[p] = run[p] /\ Seen(p)' = Seen(p)
                                  /\ Running(p)' <=> Running(p)
                                  /\ Started(p)' <=> Started(p)
  <1>1. /\ run'[r] = NotRunning /\ DOMAIN run' = Runs
        /\ \A p \in Runs \ {r} : run'[p] = run[p]
    BY DEF ShapeInv
  <1>2. ~Running(r)' /\ ~Started(r)'
    BY <1>1 DEF Running, Started, NotRunning
  <1>3. ASSUME NEW p \in Runs \ {r}
        PROVE  /\ run'[p] = run[p] /\ Seen(p)' = Seen(p)
               /\ Running(p)' <=> Running(p)
               /\ Started(p)' <=> Started(p)
    BY <1>1 DEF Running, Started, Fresh, Seen
  <1>4. \A p \in Runs : RunShape(run[p])'
    BY <1>1 DEF ShapeInv, RunShape, Transactional
  <1>5. \A p, q \in Runs :
          p # q /\ Running(p)' /\ Running(q)' => run'[p].direction = "upgrade"
    BY <1>2, <1>3 DEF ShapeInv
  <1>6. ASSUME NEW p \in Runs
        PROVE  /\ run'[p].direction = "upgrade" =>
                    /\ run'[p].at <= Seen(p)'.version
                    /\ committed'.version <= Seen(p)'.version
                    /\ committed'.objects \subseteq Seen(p)'.objects
               /\ run'[p].direction = "downgrade" => run'[p].at = Seen(p)'.version
    <2>1. CASE p = r
      BY <1>1, <2>1 DEF NotRunning
    <2>2. CASE p # r
      BY <1>3, <2>2 DEF ShapeInv
    <2> QED
      BY <2>1, <2>2
  <1>7. ShapeInv'
    BY <1>1, <1>4, <1>5, <1>6 DEF ShapeInv
  <1> QED
    BY <1>1, <1>2, <1>3, <1>7

\* A run can be stopped where it is when it has not started, or its work is
\* not committed.
LEMMA StopExact ==
  ASSUME ShapeInv, ExactInv, NEW r \in Runs,
         run' = [run EXCEPT ![r] = NotRunning],
         committed' = committed, dialect' = dialect,
         Transactional \/ interrupted' = {} => Transactional \/ interrupted = {},
         Transactional \/ (interrupted' = {} => ~Started(r))
  PROVE  ExactInv'
  <1>1. /\ run'[r] = NotRunning /\ ~Running(r)' /\ ~Started(r)'
        /\ \A p \in Runs \ {r} : /\ run'[p] = run[p] /\ Seen(p)' = Seen(p)
                                 /\ Started(p)' <=> Started(p)
    BY StopLeaves
  <1>. SUFFICES ASSUME Transactional \/ interrupted' = {}
                PROVE  /\ \A p \in Runs : Started(p)' => Seen(p)' = Intended(run'[p])
                       /\ \A p, q \in Runs : Started(p)' /\ Started(q)' => p = q
                       /\ Transactional => \A p \in Runs : Started(p)' => run'[p].work # NoWork
                       /\ (Transactional \/ \A p \in Runs : ~Started(p)') =>
                            committed.objects = Objects(committed.version)
    BY DEF ExactInv, Transactional
  <1>2. \A p \in Runs : Started(p)' => p # r /\ Started(p) /\ run'[p] = run[p]
                                       /\ Seen(p)' = Seen(p)
    BY <1>1
  <1>3. /\ \A p \in Runs : Started(p) => Seen(p) = Intended(run[p])
        /\ \A p, q \in Runs : Started(p) /\ Started(q) => p = q
        /\ Transactional => \A p \in Runs : Started(p) => run[p].work # NoWork
        /\ (Transactional \/ \A p \in Runs : ~Started(p)) =>
             committed.objects = Objects(committed.version)
    BY DEF ExactInv
  <1>4. (\A p \in Runs : ~Started(p)') /\ ~Transactional => \A p \in Runs : ~Started(p)
    BY <1>1
  <1> QED
    BY <1>2, <1>3, <1>4

\* An upgrade can be stopped anywhere: what it is known to have made is there.
LEMMA StopEnough ==
  ASSUME ShapeInv, EnoughInv, NEW r \in Runs,
         run' = [run EXCEPT ![r] = NotRunning],
         committed' = committed, dialect' = dialect,
         "downgrade" \notin interrupted' =>
           "downgrade" \notin interrupted /\ run[r].direction # "downgrade"
  PROVE  EnoughInv'
  <1>1. /\ run'[r] = NotRunning /\ ~Running(r)'
        /\ \A p \in Runs \ {r} : /\ run'[p] = run[p] /\ Seen(p)' = Seen(p)
                                 /\ Running(p)' <=> Running(p)
    BY StopLeaves
  <1>2. NotRunning.direction = "none"
    BY DEF NotRunning
  <1>. SUFFICES ASSUME "downgrade" \notin interrupted'
                PROVE  /\ \A p \in Runs : Running(p)' =>
                            Intended(run'[p]).objects \subseteq Seen(p)'.objects
                       /\ \A p \in Runs : run'[p].direction = "upgrade" =>
                            Objects(Seen(p)'.version) \subseteq Seen(p)'.objects
                       /\ (\A p \in Runs : run'[p].direction # "downgrade") =>
                            Objects(committed.version) \subseteq committed.objects
    BY DEF EnoughInv
  <1>3. \A p \in Runs : Running(p)' =>
          Intended(run'[p]).objects \subseteq Seen(p)'.objects
    BY <1>1 DEF EnoughInv
  <1>4. \A p \in Runs : run'[p].direction = "upgrade" =>
          Objects(Seen(p)'.version) \subseteq Seen(p)'.objects
    BY <1>1, <1>2 DEF EnoughInv
  <1>5. (\A p \in Runs : run'[p].direction # "downgrade") =>
          \A p \in Runs : run[p].direction # "downgrade"
    BY <1>1
  <1>6. (\A p \in Runs : run[p].direction # "downgrade") =>
          Objects(committed.version) \subseteq committed.objects
    BY DEF EnoughInv
  <1> QED
    BY <1>3, <1>4, <1>5, <1>6

LEMMA FailStep ==
  ASSUME MigrationsInv, NEW r \in Runs, Fail(r)
  PROVE  MigrationsInv'
  <1>1. /\ Running(r) /\ ~Possible(Head(run[r].todo), Seen(r))
        /\ run' = [run EXCEPT ![r] = NotRunning]
        /\ committed' = committed /\ dialect' = dialect /\ interrupted' = interrupted
    BY DEF Fail
  <1>2. ShapeInv /\ ExactInv /\ EnoughInv
    BY DEF MigrationsInv
  <1>3. IsRun(run[r]) /\ InMigration(run[r]) /\ Seen(r) \in Schema
    BY <1>1, <1>2, RunIs
  <1>4. Transactional \/ interrupted = {} => ~Started(r)
    <2>1. Seen(r) # Intended(run[r])
      BY <1>1, <1>3, MeantToWork
    <2> QED
      BY <1>2, <2>1 DEF ExactInv
  <1>5. "downgrade" \notin interrupted => run[r].direction # "downgrade"
    <2>1. SUFFICES ASSUME "downgrade" \notin interrupted, run[r].direction = "downgrade"
                   PROVE  FALSE
      OBVIOUS
    <2>2. /\ Seen(r).version = run[r].at
          /\ Intended(run[r]).objects \subseteq Seen(r).objects
      BY <1>1, <1>2, <2>1 DEF ShapeInv, EnoughInv
    <2> QED
      BY <1>1, <1>3, <2>1, <2>2, DowngradeStatement
  <1>6. ShapeInv'
    BY <1>1, <1>2, StopLeaves
  <1>7. ExactInv'
    BY <1>1, <1>2, <1>4, StopExact
  <1>8. EnoughInv'
    BY <1>1, <1>2, <1>5, StopEnough
  <1> QED
    BY <1>6, <1>7, <1>8 DEF MigrationsInv

LEMMA InterruptStep ==
  ASSUME MigrationsInv, NEW r \in Runs, Interrupt(r)
  PROVE  MigrationsInv'
  <1>1. /\ Running(r)
        /\ run' = [run EXCEPT ![r] = NotRunning]
        /\ committed' = committed /\ dialect' = dialect
        /\ interrupted' = interrupted \cup {run[r].direction}
    BY DEF Interrupt
  <1>2. ShapeInv /\ ExactInv /\ EnoughInv
    BY DEF MigrationsInv
  <1>3. interrupted' # {}
    BY <1>1
  <1>4. "downgrade" \notin interrupted' =>
          "downgrade" \notin interrupted /\ run[r].direction # "downgrade"
    BY <1>1
  <1>5. ShapeInv'
    BY <1>1, <1>2, StopLeaves
  <1>6. ExactInv'
    BY <1>1, <1>2, <1>3, StopExact
  <1>7. EnoughInv'
    BY <1>1, <1>2, <1>4, StopEnough
  <1> QED
    BY <1>5, <1>6, <1>7 DEF MigrationsInv

LEMMA BeginStep ==
  ASSUME MigrationsInv, NEW r \in Runs,
         NEW target \in 0..HeadRevision,
         target < committed.version \/ target = HeadRevision,
         Begin(r, target)
  PROVE  MigrationsInv'
  <1>1. PICK v : v = committed.version
    OBVIOUS
  <1>2. PICK direction : direction = IF v < target THEN "upgrade" ELSE "downgrade"
    OBVIOUS
  <1>3. PICK m : m = [todo |-> Migration(v, target), at |-> v, target |-> target,
                      direction |-> direction, work |-> NoWork]
    OBVIOUS
  <1>4. /\ ~Running(r) /\ v # target
        /\ \A q \in Runs : Running(q) => direction = "upgrade" /\ run[q].direction = "upgrade"
        /\ run' = [run EXCEPT ![r] = m]
        /\ committed' = committed /\ dialect' = dialect /\ interrupted' = interrupted
    BY <1>1, <1>2, <1>3 DEF Begin
  <1>5. ShapeInv /\ ExactInv /\ EnoughInv
    BY DEF MigrationsInv
  <1>6. committed \in Schema /\ v \in 0..2 /\ DOMAIN run = Runs
    BY <1>1, <1>5, SchemaIs DEF ShapeInv
  <1>7. /\ m.todo = Migration(v, target) /\ m.at = v /\ m.target = target
        /\ m.direction = direction /\ m.work = NoWork
        /\ m = [todo |-> m.todo, at |-> m.at, target |-> m.target,
                direction |-> m.direction, work |-> m.work]
    BY <1>3
  <1>8. InMigration(m)
    <2>1. \/ v = 0 /\ target = 2
          \/ v = 1 /\ target = 2
          \/ v = 2 /\ target \in {0, 1}
          \/ v = 1 /\ target = 0
      <3>1. target \in 0..2 /\ (target < v \/ target = 2) /\ v # target
        BY <1>1, <1>4 DEF HeadRevision
      <3> QED
        BY <1>6, <3>1
    <2>2. CASE v = 0 /\ target = 2
      BY <1>2, <1>7, <2>2, MigrationOf DEF InMigration
    <2>3. CASE v = 1 /\ target = 2
      BY <1>2, <1>7, <2>3, MigrationOf DEF InMigration
    <2>4. CASE v = 2 /\ target \in {0, 1}
      BY <1>2, <1>7, <2>4, MigrationOf DEF InMigration
    <2>5. CASE v = 1 /\ target = 0
      BY <1>2, <1>7, <2>5, MigrationOf DEF InMigration
    <2> QED
      BY <2>1, <2>2, <2>3, <2>4, <2>5
  <1>9. Fresh(m)
    BY <1>7 DEF Fresh
  <1>10. Intended(m) = Sch(v, Objects(v))
    BY <1>7, <1>8, <1>9, FreshFinds
  <1>11. /\ run'[r] = m /\ DOMAIN run' = Runs
         /\ \A p \in Runs \ {r} : run'[p] = run[p]
    BY <1>4, <1>6
  <1>12. ~Started(r)' /\ Seen(r)' = committed
    BY <1>4, <1>7, <1>9, <1>11 DEF Started, Seen, Fresh
  <1>13. ASSUME NEW p \in Runs \ {r}
         PROVE  /\ run'[p] = run[p] /\ Seen(p)' = Seen(p)
                /\ Running(p)' <=> Running(p)
                /\ Started(p)' <=> Started(p)
    BY <1>4, <1>11 DEF Running, Started, Fresh, Seen
  <1>14. ASSUME NEW p \in Runs, ~Running(p)
         PROVE  run[p].direction = "none"
    BY <1>5, <1>14, IdleIs DEF NotRunning
  <1>15. \A p \in Runs : run[p].direction # "downgrade"
    BY <1>4, <1>14
  <1>16. ShapeInv'
    <2>1. \A p \in Runs : RunShape(run[p])'
      <3>1. ASSUME NEW p \in Runs \ {r}
            PROVE  RunShape(run[p])'
        BY <1>4, <1>5, <1>13 DEF ShapeInv, RunShape, Transactional
      <3>2. RunShape(run[r])'
        BY <1>7, <1>8, <1>11 DEF RunShape
      <3> QED
        BY <3>1, <3>2
    <2>2. ASSUME NEW p \in Runs, NEW q \in Runs, p # q, Running(p)', Running(q)'
          PROVE  run'[p].direction = "upgrade"
      <3>1. CASE p = r
        BY <1>4, <1>7, <1>11, <1>13, <2>2, <3>1
      <3>2. CASE p # r
        BY <1>4, <1>13, <2>2, <3>2
      <3> QED
        BY <3>1, <3>2
    <2>3. ASSUME NEW p \in Runs
          PROVE  /\ run'[p].direction = "upgrade" =>
                      /\ run'[p].at <= Seen(p)'.version
                      /\ committed'.version <= Seen(p)'.version
                      /\ committed'.objects \subseteq Seen(p)'.objects
                 /\ run'[p].direction = "downgrade" => run'[p].at = Seen(p)'.version
      <3>1. CASE p = r
        BY <1>1, <1>4, <1>6, <1>7, <1>11, <1>12, <3>1
      <3>2. CASE p # r
        BY <1>4, <1>5, <1>13, <3>2 DEF ShapeInv
      <3> QED
        BY <3>1, <3>2
    <2> QED
      BY <1>4, <1>5, <1>11, <2>1, <2>2, <2>3 DEF ShapeInv
  <1>17. ExactInv'
    <2>1. \A p \in Runs : Started(p)' => p # r /\ Started(p) /\ run'[p] = run[p]
                                         /\ Seen(p)' = Seen(p)
      BY <1>12, <1>13
    <2>2. \A p \in Runs : Started(p) => p # r /\ Started(p)'
      BY <1>4, <1>13 DEF Started
    <2>. SUFFICES ASSUME Transactional \/ interrupted = {}
                  PROVE  /\ \A p \in Runs : Started(p)' => Seen(p)' = Intended(run'[p])
                         /\ \A p, q \in Runs : Started(p)' /\ Started(q)' => p = q
                         /\ Transactional =>
                              \A p \in Runs : Started(p)' => run'[p].work # NoWork
                         /\ (Transactional \/ \A p \in Runs : ~Started(p)') =>
                              committed.objects = Objects(committed.version)
      BY <1>4 DEF ExactInv, Transactional
    <2>3. /\ \A p \in Runs : Started(p) => Seen(p) = Intended(run[p])
          /\ \A p, q \in Runs : Started(p) /\ Started(q) => p = q
          /\ Transactional => \A p \in Runs : Started(p) => run[p].work # NoWork
          /\ (Transactional \/ \A p \in Runs : ~Started(p)) =>
               committed.objects = Objects(committed.version)
      BY <1>5 DEF ExactInv
    <2> QED
      BY <2>1, <2>2, <2>3
  <1>18. EnoughInv'
    <2>. SUFFICES ASSUME "downgrade" \notin interrupted
                  PROVE  /\ \A p \in Runs : Running(p)' =>
                              Intended(run'[p]).objects \subseteq Seen(p)'.objects
                         /\ \A p \in Runs : run'[p].direction = "upgrade" =>
                              Objects(Seen(p)'.version) \subseteq Seen(p)'.objects
                         /\ (\A p \in Runs : run'[p].direction # "downgrade") =>
                              Objects(committed.version) \subseteq committed.objects
      BY <1>4 DEF EnoughInv
    <2>1. Objects(v) \subseteq committed.objects
      BY <1>1, <1>5, <1>15 DEF EnoughInv
    <2>2. Intended(m).objects = Objects(v)
      BY <1>10 DEF Sch
    <2>3. \A p \in Runs \ {r} : Running(p)' =>
            Intended(run'[p]).objects \subseteq Seen(p)'.objects
      BY <1>5, <1>13 DEF EnoughInv
    <2>4. \A p \in Runs \ {r} : run'[p].direction = "upgrade" =>
            Objects(Seen(p)'.version) \subseteq Seen(p)'.objects
      BY <1>5, <1>13 DEF EnoughInv
    <2> QED
      BY <1>1, <1>11, <1>12, <2>1, <2>2, <2>3, <2>4
  <1> QED
    BY <1>16, <1>17, <1>18 DEF MigrationsInv

LEMMA NextInv ==
  ASSUME MigrationsInv, [Next]_vars
  PROVE  MigrationsInv'
  <1>1. ASSUME NEW r \in Runs,
               NEW target \in {w \in 0..HeadRevision :
                                 w < committed.version \/ w = HeadRevision},
               Begin(r, target)
        PROVE  MigrationsInv'
    BY <1>1, BeginStep
  <1>2. ASSUME NEW r \in Runs, Execute(r)
        PROVE  MigrationsInv'
    BY <1>2, ExecuteShape, ExecuteExact, ExecuteEnough DEF MigrationsInv
  <1>3. ASSUME NEW r \in Runs, Fail(r)
        PROVE  MigrationsInv'
    BY <1>3, FailStep
  <1>4. ASSUME NEW r \in Runs, Interrupt(r)
        PROVE  MigrationsInv'
    BY <1>4, InterruptStep
  <1>5. CASE UNCHANGED vars
    BY <1>5 DEF vars, MigrationsInv, ShapeInv, ExactInv, EnoughInv, RunShape,
                Transactional, Running, Started, Fresh, Seen
  <1> QED
    BY <1>1, <1>2, <1>3, <1>4, <1>5 DEF Next

-----------------------------------------------------------------------------
(* Theorems *)

\* Whatever runs are started and whichever of them die, the schema, the plan of
\* each run and what it has done of it keep the shape that MigrationsInv says.
THEOREM MigrationsHold == Spec => []MigrationsInv
  BY InitInv, NextInv, PTL DEF Spec

\* The schema and the runs keep their types; a run that is not in progress, or
\* not of PostgreSQL, holds no uncommitted work.
THEOREM MigrationsTypeOK == Spec => []TypeOK
  <1>1. ASSUME ShapeInv
        PROVE  TypeOK
    <2>1. /\ committed.objects \subseteq Objects(HeadRevision)
          /\ committed.version \in 0..HeadRevision
      BY <1>1 DEF ShapeInv, Schema
    <2>2. ASSUME NEW r \in Runs
          PROVE  /\ run[r].work # NoWork => Transactional /\ Running(r)
                 /\ run[r].direction = "none" <=> ~Running(r)
      <3>1. CASE Running(r)
        <4>1. run[r].direction \in {"upgrade", "downgrade"}
              /\ (run[r].work # NoWork => Transactional)
          BY <1>1, <3>1, RunIs
        <4> QED
          BY <3>1, <4>1
      <3>2. CASE ~Running(r)
        <4>1. run[r] = NotRunning
          BY <1>1, <3>2, IdleIs
        <4> QED
          BY <3>2, <4>1 DEF NotRunning
      <3> QED
        BY <3>1, <3>2
    <2> QED
      BY <2>1, <2>2 DEF TypeOK
  <1>2. MigrationsInv => TypeOK
    BY <1>1 DEF MigrationsInv
  <1> QED
    BY <1>2, MigrationsHold, PTL

\* In whatever order the runs get to each statement, the tables and the index
\* are those of the recorded revision: at every moment on PostgreSQL, and on
\* SQLite whenever nothing runs and no run has died.
THEOREM SchemaMatchesVersionHolds == Spec => []SchemaMatchesVersion
  <1>1. ASSUME ExactInv, Transactional \/ (Quiet /\ interrupted = {})
        PROVE  committed.objects = Objects(committed.version)
    <2>1. Quiet => \A r \in Runs : ~Started(r)
      BY DEF Quiet, Started
    <2> QED
      BY <1>1, <2>1 DEF ExactInv
  <1>2. MigrationsInv => SchemaMatchesVersion
    BY <1>1 DEF MigrationsInv, SchemaMatchesVersion
  <1> QED
    BY <1>2, MigrationsHold, PTL

\* However many upgrades run and whichever of them die, every object of the
\* recorded revision is there.
THEOREM VersionNotAheadHolds == Spec => []VersionNotAhead
  <1>1. MigrationsInv => VersionNotAhead
    BY DEF MigrationsInv, EnoughInv, VersionNotAhead
  <1> QED
    BY <1>1, MigrationsHold, PTL
=============================================================================
