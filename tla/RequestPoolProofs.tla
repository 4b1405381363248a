------------------------- MODULE RequestPoolProofs -------------------------
(***************************************************************************)
(* Theorems about RequestPool, for every number of requests, of threads    *)
(* and of connections.                                                     *)
(***************************************************************************)
EXTENDS RequestPool, FiniteSetTheorems, SequenceTheorems, TLAPS

USE PoolAssumption

-----------------------------------------------------------------------------
(* The inductive invariant *)

\* What a request still has to do ends with leaving its thread, if it is to
\* use one, and with closing the session.
EndsClosed(s) ==
  s # <<>> => /\ s[Len(s)] = "close"
              /\ Len(s) > 1 => s[Len(s) - 1] = "leave"

\* It waits for a thread with a connection in hand, now or later, only to come
\* to its answer; `c` tells whether it has a connection now.
LateThreads(s, c) ==
  \A i \in 1..Len(s) :
    s[i] = "thread" /\ (c \/ \E j \in 1..(i - 1) : s[j] = "connect") =>
      SubSeq(s, i, Len(s)) \in ToAnswer

\* While it has a thread it has not left; while it has a connection it has
\* not closed.
Holds(s, w, c) ==
  /\ w => Len(s) > 1
  /\ c => s # <<>>

Disciplined(s, w, c) == EndsClosed(s) /\ LateThreads(s, c) /\ Holds(s, w, c)

PoolInv ==
  /\ IsFiniteSet(working) /\ IsFiniteSet(connected)
  /\ \A r \in Requests : Disciplined(todo[r], r \in working, r \in connected)

-----------------------------------------------------------------------------
(* What requests do *)

\* A sequence of n steps; two of them, of m and n steps, one after the other.
StepsOf(s, n) == s \in Seq(Steps) /\ n \in Nat /\ Len(s) = n

Joined(u, s, m, t, n) ==
  /\ \A i \in 1..m : u[i] = s[i]
  /\ \A i \in (m + 1)..(m + n) : u[i] = t[i - m]

LEMMA Concat ==
  ASSUME NEW s, NEW t, NEW m, NEW n, StepsOf(s, m), StepsOf(t, n)
  PROVE  StepsOf(s \o t, m + n) /\ Joined(s \o t, s, m, t, n)
  <1>1. /\ s \in Seq(Steps) /\ t \in Seq(Steps) /\ m \in Nat /\ n \in Nat
        /\ m = Len(s) /\ n = Len(t)
    BY DEF StepsOf
  <1>2. /\ s \o t \in Seq(Steps) /\ Len(s \o t) = Len(s) + Len(t)
        /\ \A i \in 1..(Len(s) + Len(t)) :
             (s \o t)[i] = IF i <= Len(s) THEN s[i] ELSE t[i - Len(s)]
    BY <1>1, ConcatProperties, Zenon
  <1>3. PICK u : u = s \o t
    OBVIOUS
  <1>4. \A i \in 1..(m + n) : u[i] = IF i <= m THEN s[i] ELSE t[i - m]
    BY <1>1, <1>2, <1>3, Zenon
  <1>5. Joined(u, s, m, t, n)
    BY <1>1, <1>4 DEF Joined
  <1>6. m + n \in Nat
    BY <1>1
  <1> QED
    BY <1>1, <1>2, <1>3, <1>5, <1>6, Zenon DEF StepsOf

\* A job of n steps: a thread for it, then only work with the connection.
IsJob(j, n) ==
  /\ StepsOf(j, n) /\ n \in Nat /\ n > 1
  /\ j[1] = "thread" /\ j[n] = "leave"
  /\ \A i \in 2..(n - 1) : j[i] \in {"connect", "commit"}

LEMMA JobShape ==
  ASSUME NEW x, NEW n \in Nat, StepsOf(x, n),
         \A i \in 1..n : x[i] \in {"connect", "commit"}
  PROVE  IsJob(Job(x), 1 + n + 1)
  <1>1. PICK t, l : t = <<"thread">> /\ l = <<"leave">>
    OBVIOUS
  <1>2. StepsOf(t, 1) /\ t[1] = "thread" /\ StepsOf(l, 1) /\ l[1] = "leave"
    BY <1>1 DEF StepsOf, Steps
  <1>3. PICK y : y = t \o x
    OBVIOUS
  <1>4. StepsOf(y, 1 + n) /\ Joined(y, t, 1, x, n)
    BY <1>2, <1>3, Concat
  <1>5. PICK j : j = y \o l
    OBVIOUS
  <1>6. StepsOf(j, 1 + n + 1) /\ Joined(j, y, 1 + n, l, 1)
    BY <1>2, <1>4, <1>5, Concat
  <1>7. /\ j[1] = "thread" /\ j[1 + n + 1] = "leave"
        /\ \A i \in 2..(n + 1) : j[i] \in {"connect", "commit"}
    BY <1>2, <1>4, <1>6 DEF Joined
  <1>8. j = Job(x)
    BY <1>1, <1>3, <1>5 DEF Job
  <1> QED
    BY <1>6, <1>7, <1>8 DEF IsJob

\* The jobs there are.
LEMMA Jobs ==
  /\ IsJob(OpenSession, 2) /\ IsJob(ValidateResponse, 2) /\ IsJob(Job(<<>>), 2)
  /\ IsJob(Read, 3) /\ IsJob(Write, 4) /\ IsJob(ValidSession, 5)
  /\ IsJob(Job(<<"connect">>), 3) /\ IsJob(Job(<<"connect", "commit">>), 4)
  <1>1. /\ StepsOf(<<>>, 0)
        /\ StepsOf(<<"connect">>, 1)
        /\ StepsOf(<<"connect", "commit">>, 2)
        /\ StepsOf(<<"connect", "commit", "connect">>, 3)
    BY DEF StepsOf, Steps
  <1>2. IsJob(Job(<<>>), 1 + 0 + 1)
    BY <1>1, JobShape
  <1>3. IsJob(Job(<<"connect">>), 1 + 1 + 1)
    BY <1>1, JobShape
  <1>4. IsJob(Job(<<"connect", "commit">>), 1 + 2 + 1)
    BY <1>1, JobShape
  <1>5. IsJob(Job(<<"connect", "commit", "connect">>), 1 + 3 + 1)
    BY <1>1, JobShape
  <1>6. 1 + 0 + 1 = 2 /\ 1 + 1 + 1 = 3 /\ 1 + 2 + 1 = 4 /\ 1 + 3 + 1 = 5
    OBVIOUS
  <1>7. /\ IsJob(Job(<<>>), 2) /\ IsJob(Job(<<"connect">>), 3)
        /\ IsJob(Job(<<"connect", "commit">>), 4)
        /\ IsJob(Job(<<"connect", "commit", "connect">>), 5)
    BY <1>2, <1>3, <1>4, <1>5, <1>6
  <1> QED
    BY <1>7, Zenon DEF OpenSession, ValidateResponse, Read, Write, ValidSession

\* The last part of a program, which ends with leaving a thread and closing the
\* session, or is the closing alone.
Ending(b, c) ==
  /\ b \in Seq(Steps) /\ b # <<>>
  /\ EndsClosed(b) /\ LateThreads(b, c)

\* A job in front of an ending.  If the job waits for its thread with a
\* connection in hand (c), it is one that leads to the answer; and what follows
\* allows for the connection the job may take (d).
LEMMA Prepend ==
  ASSUME NEW j, NEW n \in Nat, IsJob(j, n), NEW b,
         NEW c \in BOOLEAN, NEW d \in BOOLEAN, Ending(b, d),
         c => j \o b \in ToAnswer,
         d \/ (~c /\ \A i \in 1..n : j[i] # "connect")
  PROVE  Ending(j \o b, c)
  <1>1. PICK p, m : p = j \o b /\ m = Len(b)
    OBVIOUS
  <1>2. /\ j \in Seq(Steps) /\ Len(j) = n /\ n > 1 /\ StepsOf(j, n)
        /\ j[1] = "thread" /\ j[n] = "leave"
        /\ \A i \in 2..(n - 1) : j[i] \in {"connect", "commit"}
    BY DEF IsJob, StepsOf
  <1>3. b \in Seq(Steps) /\ m \in Nat /\ m > 0 /\ StepsOf(b, m)
    BY <1>1 DEF Ending, StepsOf
  <1>4. StepsOf(p, n + m) /\ Joined(p, j, n, b, m)
    BY <1>1, <1>2, <1>3, Concat
  <1>5. p \in Seq(Steps) /\ Len(p) = n + m /\ p # <<>>
    BY <1>2, <1>3, <1>4 DEF StepsOf
  <1>6. EndsClosed(p)
    <2>1. b[m] = "close" /\ (m > 1 => b[m - 1] = "leave")
      BY <1>1 DEF Ending, EndsClosed
    <2>2. p[n + m] = b[m] /\ (m > 1 => p[n + m - 1] = b[m - 1])
      BY <1>2, <1>3, <1>4 DEF Joined
    <2>3. m = 1 => p[n + m - 1] = j[n]
      BY <1>2, <1>4 DEF Joined
    <2> QED
      BY <1>2, <1>3, <1>5, <2>1, <2>2, <2>3 DEF EndsClosed
  <1>7. ASSUME NEW i \in 1..(n + m), p[i] = "thread",
               c \/ \E k \in 1..(i - 1) : p[k] = "connect"
        PROVE  SubSeq(p, i, n + m) \in ToAnswer
    <2>1. CASE i <= n
      <3>1. j[i] = "thread"
        BY <1>4, <1>7, <2>1 DEF Joined
      <3>2. i = 1
        BY <1>2, <2>1, <3>1
      <3>3. p \in ToAnswer
        BY <1>1, <1>7, <3>2
      <3>4. SubSeq(p, 1, Len(p)) = p
        BY <1>5, SubSeqFull, Zenon
      <3> QED
        BY <1>5, <3>2, <3>3, <3>4
    <2>2. CASE i > n
      <3>1. PICK l : l = i - n
        OBVIOUS
      <3>2. l \in 1..m /\ b[l] = "thread"
        BY <1>3, <1>4, <1>7, <2>2, <3>1 DEF Joined
      <3>3. d \/ \E k \in 1..(l - 1) : b[k] = "connect"
        <4>1. CASE ~d
          <5>1. PICK k \in 1..(i - 1) : p[k] = "connect"
            BY <1>7, <4>1
          <5>2. k > n
            BY <1>4, <4>1, <5>1 DEF Joined
          <5>3. k - n \in 1..(l - 1) /\ b[k - n] = "connect"
            BY <1>3, <1>4, <3>1, <5>1, <5>2 DEF Joined
          <5> QED
            BY <5>3
        <4> QED
          BY <4>1
      <3>4. SubSeq(b, l, m) \in ToAnswer
        BY <1>1, <3>2, <3>3 DEF Ending, LateThreads
      <3>5. SubSeq(p, i, n + m) = SubSeq(b, l, m)
        <4>1. PICK f, e : f = i /\ e = n + m
          OBVIOUS
        <4>2. /\ f \in (Len(j) + 1)..(Len(j) + Len(b))
              /\ e \in (Len(j) + 1)..(Len(j) + Len(b))
              /\ f - Len(j) = l /\ e - Len(j) = m
          BY <1>1, <1>2, <1>3, <2>2, <3>1, <4>1
        <4>3. SubSeq(j \o b, f, e) = SubSeq(b, f - Len(j), e - Len(j))
          BY <1>2, <1>3, <4>2, SubSeqOfConcat2, Zenon
        <4> QED
          BY <1>1, <4>1, <4>2, <4>3, Zenon
      <3> QED
        BY <3>4, <3>5
    <2> QED
      BY <2>1, <2>2
  <1>8. LateThreads(p, c)
    BY <1>5, <1>7 DEF LateThreads
  <1> QED
    BY <1>1, <1>5, <1>6, <1>8 DEF Ending

\* The closing of a session, the validation before it, and the handler and the
\* validation after a lookup: each may be reached with a connection in hand.
LEMMA Closing == Ending(CloseSession, TRUE)
  <1>1. PICK x : x = CloseSession
    OBVIOUS
  <1>2. x \in Seq(Steps) /\ x # <<>> /\ Len(x) = 1 /\ x[1] = "close"
    BY <1>1 DEF CloseSession, Steps
  <1>3. EndsClosed(x) /\ LateThreads(x, TRUE)
    BY <1>2 DEF EndsClosed, LateThreads
  <1> QED
    BY <1>1, <1>2, <1>3 DEF Ending

LEMMA Validating == Ending(ValidateResponse \o CloseSession, TRUE)
  <1>1. ValidateResponse \o CloseSession \in ToAnswer
    BY DEF ToAnswer
  <1>2. IsJob(ValidateResponse, 2) /\ 2 \in Nat
    BY Jobs
  <1> QED
    BY <1>1, <1>2, Closing, Prepend

\* Concatenation is associative, in the two ways it is needed.
LEMMA Associative ==
  ASSUME NEW s \in Seq(Steps), NEW t \in Seq(Steps), NEW u \in Seq(Steps)
  PROVE  (s \o t) \o u = s \o (t \o u)
  BY ConcatAssociative

LEMMA JobSteps ==
  ASSUME NEW j, NEW n \in Nat, IsJob(j, n)
  PROVE  j \in Seq(Steps)
  BY DEF IsJob, StepsOf

LEMMA ReturnedSteps ==
  ASSUME NEW j, NEW n \in Nat, IsJob(j, n)
  PROVE  /\ Returned(j) \in Seq(Steps)
         /\ Returned(j) \o CloseSession = j \o (ValidateResponse \o CloseSession)
  <1>1. /\ j \in Seq(Steps) /\ ValidateResponse \in Seq(Steps)
        /\ CloseSession \in Seq(Steps)
    <2>1. IsJob(ValidateResponse, 2) /\ 2 \in Nat
      BY Jobs
    <2> QED
      BY <2>1, JobSteps, Closing DEF Ending
  <1>2. Returned(j) \in Seq(Steps)
    BY <1>1, ConcatProperties, Zenon DEF Returned
  <1> QED
    BY <1>1, <1>2, Associative, Zenon DEF Returned

\* A handler, whether what it returns is validated or not.
LEMMA Handling ==
  ASSUME NEW j, NEW n \in Nat, IsJob(j, n)
  PROVE  /\ j \in Seq(Steps) /\ Ending(j \o CloseSession, FALSE)
         /\ Returned(j) \in Seq(Steps) /\ Ending(Returned(j) \o CloseSession, FALSE)
  <1>1. Ending(j \o CloseSession, FALSE)
    BY Closing, Prepend
  <1>2. Ending(j \o (ValidateResponse \o CloseSession), FALSE)
    BY Validating, Prepend
  <1> QED
    BY <1>1, <1>2, JobSteps, ReturnedSteps, Zenon

\* A lookup and the handler behind it.
LEMMA LookingUp ==
  ASSUME NEW j \in AfterLookup
  PROVE  /\ ValidSession \o Returned(j) \in Seq(Steps)
         /\ Ending((ValidSession \o Returned(j)) \o CloseSession, FALSE)
  <1>1. PICK n \in Nat : IsJob(j, n)
    <2>1. IsJob(j, 2) \/ IsJob(j, 4)
      BY Jobs DEF AfterLookup
    <2> QED
      BY <2>1
  <1>2. IsJob(ValidSession, 5) /\ 5 \in Nat
    BY Jobs
  <1>3. PICK a : a = Returned(j)
    OBVIOUS
  <1>4. /\ a \in Seq(Steps)
        /\ a \o CloseSession = j \o (ValidateResponse \o CloseSession)
    BY <1>1, <1>3, ReturnedSteps
  <1>5. a \o CloseSession \in ToAnswer
    BY <1>3 DEF ToAnswer
  <1>6. Ending(j \o (ValidateResponse \o CloseSession), TRUE)
    BY <1>1, <1>4, <1>5, Validating, Prepend
  <1>7. Ending(a \o CloseSession, TRUE)
    BY <1>4, <1>6, Zenon
  <1>8. Ending(ValidSession \o (a \o CloseSession), FALSE)
    BY <1>2, <1>7, Prepend
  <1>9. ValidSession \in Seq(Steps) /\ CloseSession \in Seq(Steps)
    BY <1>2, JobSteps, Closing DEF Ending
  <1>10. (ValidSession \o a) \o CloseSession = ValidSession \o (a \o CloseSession)
    BY <1>4, <1>9, Associative
  <1>11. ValidSession \o a \in Seq(Steps)
    BY <1>4, <1>9, ConcatProperties, Zenon
  <1> QED
    BY <1>3, <1>8, <1>10, <1>11, Zenon

\* Every way through an endpoint.
LEMMA HandlerShape ==
  ASSUME NEW e \in Endpoints, NEW h \in Handlers(e)
  PROVE  h \in Seq(Steps) /\ Ending(h \o CloseSession, FALSE)
  <1>1. \/ h \in {Job(<<>>), Read, Write, Job(<<"connect">>),
                  Job(<<"connect", "commit">>), ValidSession}
        \/ \E j \in {Job(<<>>), Read, Write} : h = Returned(j)
        \/ \E j \in AfterLookup : h = ValidSession \o Returned(j)
    BY DEF Handlers, Endpoints, FailedLookup
  <1>2. 2 \in Nat /\ 3 \in Nat /\ 4 \in Nat /\ 5 \in Nat
    OBVIOUS
  <1>3. CASE h \in {Job(<<>>), Read, Write, Job(<<"connect">>),
                    Job(<<"connect", "commit">>), ValidSession}
    <2>1. PICK n \in Nat : IsJob(h, n)
      BY <1>2, <1>3, Jobs, Zenon
    <2> QED
      BY <2>1, Handling
  <1>4. CASE \E j \in {Job(<<>>), Read, Write} : h = Returned(j)
    <2>1. PICK j \in {Job(<<>>), Read, Write} : h = Returned(j)
      BY <1>4
    <2>2. PICK n \in Nat : IsJob(j, n)
      BY <1>2, Jobs, Zenon
    <2> QED
      BY <2>1, <2>2, Handling
  <1>5. CASE \E j \in AfterLookup : h = ValidSession \o Returned(j)
    BY <1>5, LookingUp
  <1> QED
    BY <1>1, <1>3, <1>4, <1>5

\* Whatever a request is for, it gives back what it takes.
LEMMA ProgramShape ==
  ASSUME NEW e \in Endpoints, NEW p \in Programs(e)
  PROVE  p \in Seq(Steps) /\ Disciplined(p, FALSE, FALSE)
  <1>1. PICK h \in Handlers(e) : p = OpenSession \o h \o CloseSession
    BY DEF Programs
  <1>2. h \in Seq(Steps) /\ Ending(h \o CloseSession, FALSE)
    BY HandlerShape
  <1>3. IsJob(OpenSession, 2) /\ 2 \in Nat
    BY Jobs
  <1>4. \A i \in 1..2 : OpenSession[i] # "connect"
    <2>1. OpenSession[1] = "thread" /\ OpenSession[2] = "leave"
      BY <1>3 DEF IsJob
    <2> QED
      BY <2>1
  <1>5. Ending(OpenSession \o (h \o CloseSession), FALSE)
    BY <1>2, <1>3, <1>4, Prepend
  <1>6. p = OpenSession \o (h \o CloseSession)
    <2>1. OpenSession \in Seq(Steps) /\ CloseSession \in Seq(Steps)
      BY <1>3, JobSteps, Closing DEF Ending
    <2> QED
      BY <1>1, <1>2, <2>1, Associative
  <1>7. Ending(p, FALSE)
    BY <1>5, <1>6, Zenon
  <1> QED
    BY <1>7 DEF Ending, Disciplined, Holds

-----------------------------------------------------------------------------
(* Steps *)

\* What is left after a step is as disciplined as before, if a thread is given
\* up by "leave" and a connection by "close" at the latest.
LEMMA TailShape ==
  ASSUME NEW s \in Seq(Steps), s # <<>>, NEW w, NEW c, Disciplined(s, w, c),
         NEW w2 \in BOOLEAN, NEW c2 \in BOOLEAN,
         w2 => s[1] = "thread" \/ (w /\ s[1] # "leave"),
         c2 => s[1] = "connect" \/ (c /\ s[1] # "close")
  PROVE  Tail(s) \in Seq(Steps) /\ Disciplined(Tail(s), w2, c2)
  <1>1. PICK t, n : t = Tail(s) /\ n = Len(s)
    OBVIOUS
  <1>2. /\ t \in Seq(Steps) /\ n \in Nat /\ n > 0 /\ Len(t) = n - 1
        /\ \A i \in 1..(n - 1) : t[i] = s[i + 1]
    BY <1>1, HeadTailProperties
  <1>3. s[n] = "close" /\ (n > 1 => s[n - 1] = "leave")
    BY <1>1 DEF Disciplined, EndsClosed
  <1>4. /\ w => n > 1
        /\ n = 1 => s[1] = "close"
        /\ n = 2 => s[1] = "leave"
    BY <1>1, <1>2, <1>3 DEF Disciplined, Holds
  <1>5. EndsClosed(t)
    <2>1. t # <<>> => n > 1
      BY <1>2
    <2>2. n > 1 => t[n - 1] = s[n]
      BY <1>2
    <2>3. n > 2 => t[n - 2] = s[n - 1]
      BY <1>2
    <2> QED
      BY <1>2, <1>3, <2>1, <2>2, <2>3 DEF EndsClosed
  <1>6. Holds(t, w2, c2)
    <2>1. w2 => n > 2
      BY <1>2, <1>4
    <2>2. c2 => n > 1
      BY <1>2, <1>4
    <2> QED
      BY <1>2, <2>1, <2>2 DEF Holds
  <1>7. LateThreads(t, c2)
    <2> SUFFICES ASSUME NEW i \in 1..Len(t), t[i] = "thread",
                        c2 \/ \E j \in 1..(i - 1) : t[j] = "connect"
                 PROVE  SubSeq(t, i, Len(t)) \in ToAnswer
      BY DEF LateThreads
    <2>1. PICK k : k = i + 1
      OBVIOUS
    <2>2. k \in 1..n /\ 1 \in 1..(k - 1) /\ s[k] = "thread" /\ n > 1
      BY <1>2, <2>1
    <2>3. c \/ \E j \in 1..(k - 1) : s[j] = "connect"
      <3>1. CASE c2
        BY <2>2, <3>1
      <3>2. CASE \E j \in 1..(i - 1) : t[j] = "connect"
        <4>1. PICK j \in 1..(i - 1) : t[j] = "connect"
          BY <3>2
        <4>2. j + 1 \in 1..(k - 1) /\ s[j + 1] = "connect"
          BY <1>2, <2>1, <4>1
        <4> QED
          BY <4>2
      <3> QED
        BY <3>1, <3>2
    <2>4. SubSeq(s, k, n) \in ToAnswer
      BY <1>1, <2>2, <2>3 DEF Disciplined, LateThreads
    <2>5. SubSeq(t, i, n - 1) = SubSeq(s, k, n)
      <3>1. t = SubSeq(s, 2, n)
        BY <1>1, TailIsSubSeq, Zenon
      <3>2. /\ 2 \in 1..Len(s) /\ n \in 1..Len(s)
            /\ i \in 1..(n - 2 + 1) /\ n - 1 \in 1..(n - 2 + 1)
            /\ 2 + i - 1 = k /\ 2 + (n - 1) - 1 = n
        BY <1>1, <1>2, <2>1, <2>2
      <3>3. SubSeq(SubSeq(s, 2, n), i, n - 1) = SubSeq(s, 2 + i - 1, 2 + (n - 1) - 1)
        BY <1>2, <3>2, SubSeqOfSubSeq
      <3> QED
        BY <3>1, <3>2, <3>3, Zenon
    <2> QED
      BY <1>2, <2>4, <2>5
  <1> QED
    BY <1>1, <1>2, <1>5, <1>6, <1>7 DEF Disciplined

\* A request goes on to what is left of its program, or to another one; the
\* other requests keep what they have.
LEMMA Move ==
  ASSUME TypeOK, PoolInv, NEW r \in Requests, NEW t \in Seq(Steps),
         todo' = [todo EXCEPT ![r] = t],
         Disciplined(t, r \in working', r \in connected'),
         \A q \in Requests \ {r} : /\ q \in working' <=> q \in working
                                   /\ q \in connected' <=> q \in connected
  PROVE  /\ todo' \in [Requests -> Seq(Steps)]
         /\ \A q \in Requests :
              Disciplined(todo'[q], q \in working', q \in connected')
  <1>1. todo' \in [Requests -> Seq(Steps)] /\ todo'[r] = t
    BY DEF TypeOK
  <1>2. ASSUME NEW q \in Requests, q # r
        PROVE  Disciplined(todo'[q], q \in working', q \in connected')
    <2>1. todo'[q] = todo[q]
      BY <1>2 DEF TypeOK
    <2>2. Disciplined(todo[q], q \in working, q \in connected)
      BY DEF PoolInv
    <2>3. /\ q \in working' <=> q \in working
          /\ q \in connected' <=> q \in connected
      BY <1>2
    <2> QED
      BY <2>1, <2>2, <2>3 DEF Disciplined, LateThreads, Holds
  <1> QED
    BY <1>1, <1>2

\* The step a request takes is the first one it still has to.
LEMMA FirstStep ==
  ASSUME TypeOK, NEW r \in Requests, NEW step, At(r, step)
  PROVE  /\ todo[r] \in Seq(Steps) /\ todo[r] # <<>> /\ todo[r][1] = step
  BY DEF TypeOK, At, Idle

\* The step is done: what is left is disciplined.
LEMMA DoneStep ==
  ASSUME TypeOK, PoolInv, NEW r \in Requests, NEW step, At(r, step), Done(r),
         r \in working' => step = "thread" \/ (r \in working /\ step # "leave"),
         r \in connected' => step = "connect" \/ (r \in connected /\ step # "close"),
         \A q \in Requests \ {r} : /\ q \in working' <=> q \in working
                                   /\ q \in connected' <=> q \in connected
  PROVE  /\ todo' \in [Requests -> Seq(Steps)]
         /\ \A q \in Requests :
              Disciplined(todo'[q], q \in working', q \in connected')
  <1>1. PICK s : s = todo[r]
    OBVIOUS
  <1>w. PICK w \in BOOLEAN : w <=> r \in working
    OBVIOUS
  <1>c. PICK c \in BOOLEAN : c <=> r \in connected
    OBVIOUS
  <1>w2. PICK w2 \in BOOLEAN : w2 <=> r \in working'
    OBVIOUS
  <1>c2. PICK c2 \in BOOLEAN : c2 <=> r \in connected'
    OBVIOUS
  <1>2. s \in Seq(Steps) /\ s # <<>> /\ s[1] = step
    BY <1>1, FirstStep
  <1>3. Disciplined(s, w, c)
    BY <1>1, <1>w, <1>c DEF PoolInv, Disciplined, LateThreads, Holds
  <1>4. /\ w2 => s[1] = "thread" \/ (w /\ s[1] # "leave")
        /\ c2 => s[1] = "connect" \/ (c /\ s[1] # "close")
    BY <1>2, <1>w, <1>c, <1>w2, <1>c2
  <1>5. PICK t \in Seq(Steps) : t = Tail(s) /\ Disciplined(t, w2, c2)
    BY <1>2, <1>3, <1>4, TailShape
  <1>6. Disciplined(t, r \in working', r \in connected')
    BY <1>5, <1>w2, <1>c2 DEF Disciplined, LateThreads, Holds
  <1>7. todo' = [todo EXCEPT ![r] = t]
    BY <1>1, <1>5 DEF Done
  <1> QED
    BY <1>6, <1>7, Move

\* A resource is taken within its number, or given back.
LEMMA Take ==
  ASSUME NEW S, IsFiniteSet(S), NEW N \in Nat, NEW r,
         r \in S \/ Cardinality(S) < N, Cardinality(S) <= N
  PROVE  IsFiniteSet(S \cup {r}) /\ Cardinality(S \cup {r}) <= N
  <1>1. /\ IsFiniteSet(S \cup {r})
        /\ Cardinality(S \cup {r}) = IF r \in S THEN Cardinality(S) ELSE Cardinality(S) + 1
    BY FS_AddElement
  <1>2. Cardinality(S) \in Nat
    BY FS_CardinalityType
  <1> QED
    BY <1>1, <1>2

LEMMA Give ==
  ASSUME NEW S, IsFiniteSet(S), NEW N \in Nat, NEW r, Cardinality(S) <= N
  PROVE  IsFiniteSet(S \ {r}) /\ Cardinality(S \ {r}) <= N
  <1>1. /\ IsFiniteSet(S \ {r})
        /\ Cardinality(S \ {r}) = IF r \in S THEN Cardinality(S) - 1 ELSE Cardinality(S)
    BY FS_RemoveElement
  <1>2. Cardinality(S) \in Nat
    BY FS_CardinalityType
  <1> QED
    BY <1>1, <1>2

\* What a timeout leaves of a program.
LEMMA LeaveAndClose ==
  <<"leave">> \o CloseSession = <<"leave", "close">>
  <1>1. PICK s, t, u : s = <<"leave">> /\ t = <<"close">> /\ u = s \o t
    OBVIOUS
  <1>2. StepsOf(s, 1) /\ StepsOf(t, 1)
    BY <1>1 DEF StepsOf, Steps
  <1>3. StepsOf(u, 1 + 1) /\ Joined(u, s, 1, t, 1)
    BY <1>1, <1>2, Concat
  <1>4. u \in Seq(Steps) /\ Len(u) = 2 /\ u[1] = s[1] /\ u[2] = t[1]
    BY <1>3 DEF StepsOf, Joined
  <1>5. u = <<"leave", "close">>
    <2>1. PICK v \in Seq(Steps) : v = <<"leave", "close">>
      <3>1. <<"leave", "close">> \in Seq(Steps)
        BY DEF Steps
      <3> QED
        BY <3>1, Zenon
    <2>2. Len(v) = Len(u) /\ \A i \in 1..Len(u) : u[i] = v[i]
      BY <1>1, <1>4, <2>1
    <2>3. u = v
      BY <1>4, <2>2, SeqEqual
    <2> QED
      BY <2>1, <2>3
  <1> QED
    BY <1>1, <1>5 DEF CloseSession

\* Every step keeps the invariant.
LEMMA PoolStep ==
  ASSUME TypeOK, PoolInv, [Next]_vars
  PROVE  TypeOK' /\ PoolInv'
  <1>0. /\ Threads \in Nat /\ Connections \in Nat
        /\ IsFiniteSet(working) /\ IsFiniteSet(connected)
        /\ working \subseteq Requests /\ connected \subseteq Requests
        /\ Cardinality(working) <= Threads /\ Cardinality(connected) <= Connections
    BY DEF TypeOK, PoolInv
  <1>1. ASSUME NEW r \in Requests, Arrive(r) PROVE TypeOK' /\ PoolInv'
    <2>0. PICK e \in Endpoints : \E p \in Programs(e) : todo' = [todo EXCEPT ![r] = p]
      BY <1>1 DEF Arrive
    <2>1. PICK p \in Programs(e) : todo' = [todo EXCEPT ![r] = p]
      BY <2>0
    <2>2. UNCHANGED <<working, connected>>
      BY <1>1 DEF Arrive
    <2>3. r \notin working /\ r \notin connected
      BY <1>1 DEF Arrive, Idle, PoolInv, Disciplined, Holds
    <2>4. p \in Seq(Steps) /\ Disciplined(p, r \in working', r \in connected')
      BY <2>2, <2>3, ProgramShape DEF Disciplined, LateThreads, Holds
    <2>5. /\ todo' \in [Requests -> Seq(Steps)]
          /\ \A q \in Requests :
               Disciplined(todo'[q], q \in working', q \in connected')
      BY <2>1, <2>2, <2>4, Move
    <2> QED
      BY <1>0, <2>2, <2>5 DEF TypeOK, PoolInv
  <1>2. ASSUME NEW r \in Requests, TakeThread(r) PROVE TypeOK' /\ PoolInv'
    <2>1. /\ todo' \in [Requests -> Seq(Steps)]
          /\ \A q \in Requests :
               Disciplined(todo'[q], q \in working', q \in connected')
      BY <1>2, DoneStep DEF TakeThread
    <2>2. IsFiniteSet(working') /\ Cardinality(working') <= Threads
      BY <1>0, <1>2, Take DEF TakeThread
    <2> QED
      BY <1>0, <1>2, <2>1, <2>2 DEF TakeThread, TypeOK, PoolInv
  <1>3. ASSUME NEW r \in Requests, Connect(r) PROVE TypeOK' /\ PoolInv'
    <2>1. /\ todo' \in [Requests -> Seq(Steps)]
          /\ \A q \in Requests :
               Disciplined(todo'[q], q \in working', q \in connected')
      BY <1>3, DoneStep DEF Connect
    <2>2. IsFiniteSet(connected') /\ Cardinality(connected') <= Connections
      BY <1>0, <1>3, Take DEF Connect
    <2> QED
      BY <1>0, <1>3, <2>1, <2>2 DEF Connect, TypeOK, PoolInv
  <1>4. ASSUME NEW r \in Requests, PoolTimeout(r) \/ DatabaseError(r)
        PROVE  TypeOK' /\ PoolInv'
    <2>1. PICK t \in Seq(Steps) : t = <<"leave", "close">>
      <3>1. <<"leave", "close">> \in Seq(Steps)
        BY DEF Steps
      <3> QED
        BY <3>1, Zenon
    <2>2. /\ todo' = [todo EXCEPT ![r] = <<"leave">> \o CloseSession]
          /\ UNCHANGED <<working, connected>>
      BY <1>4 DEF PoolTimeout, DatabaseError, Raise
    <2>3. <<"leave">> \o CloseSession = t
      BY <2>1, LeaveAndClose
    <2>4. Len(t) = 2 /\ t[1] = "leave" /\ t[2] = "close"
      BY <2>1
    <2>5. Disciplined(t, r \in working', r \in connected')
      <3>1. EndsClosed(t)
        BY <2>4 DEF EndsClosed
      <3>2. \A i \in 1..Len(t) : t[i] # "thread"
        BY <2>4
      <3>3. LateThreads(t, r \in connected')
        BY <3>2, Zenon DEF LateThreads
      <3>4. Holds(t, r \in working', r \in connected')
        BY <2>4 DEF Holds
      <3> QED
        BY <3>1, <3>3, <3>4 DEF Disciplined
    <2>6. /\ todo' \in [Requests -> Seq(Steps)]
          /\ \A q \in Requests :
               Disciplined(todo'[q], q \in working', q \in connected')
      BY <2>2, <2>3, <2>5, Move
    <2> QED
      BY <1>0, <2>2, <2>6 DEF TypeOK, PoolInv
  <1>5. ASSUME NEW r \in Requests, Leave(r) PROVE TypeOK' /\ PoolInv'
    <2>1. /\ todo' \in [Requests -> Seq(Steps)]
          /\ \A q \in Requests :
               Disciplined(todo'[q], q \in working', q \in connected')
      BY <1>5, DoneStep DEF Leave
    <2>2. IsFiniteSet(working') /\ Cardinality(working') <= Threads
      BY <1>0, <1>5, Give DEF Leave
    <2> QED
      BY <1>0, <1>5, <2>1, <2>2 DEF Leave, TypeOK, PoolInv
  <1>6. ASSUME NEW r \in Requests, Commit(r) \/ Close(r) PROVE TypeOK' /\ PoolInv'
    <2>1. /\ todo' \in [Requests -> Seq(Steps)]
          /\ \A q \in Requests :
               Disciplined(todo'[q], q \in working', q \in connected')
      <3>1. CASE Commit(r)
        BY <3>1, DoneStep DEF Commit
      <3>2. CASE Close(r)
        BY <3>2, DoneStep DEF Close
      <3> QED
        BY <1>6, <3>1, <3>2
    <2>2. /\ IsFiniteSet(connected') /\ Cardinality(connected') <= Connections
          /\ connected' = connected \ {r} /\ UNCHANGED working
      BY <1>0, <1>6, Give DEF Commit, Close
    <2> QED
      BY <1>0, <2>1, <2>2 DEF TypeOK, PoolInv
  <1>7. CASE UNCHANGED vars
    BY <1>7 DEF vars, TypeOK, PoolInv
  <1> QED
    BY <1>1, <1>2, <1>3, <1>4, <1>5, <1>6, <1>7 DEF Next, Obtain, GiveBack

-----------------------------------------------------------------------------
(* Theorems *)

\* The inductive invariant: every request gives back what it takes.
THEOREM PoolHolds == Spec => [](TypeOK /\ PoolInv)
  <1>1. Init => TypeOK /\ PoolInv
    <2> SUFFICES ASSUME Init PROVE TypeOK /\ PoolInv
      OBVIOUS
    <2>1. IsFiniteSet({}) /\ Cardinality({}) = 0
      BY FS_EmptySet
    <2>2. Disciplined(<<>>, FALSE, FALSE)
      BY DEF Disciplined, EndsClosed, LateThreads, Holds
    <2>3. \A r \in Requests : Disciplined(todo[r], r \in working, r \in connected)
      BY <2>2 DEF Init, Disciplined, LateThreads, Holds
    <2> QED
      BY <2>1, <2>3 DEF Init, TypeOK, PoolInv
  <1>2. TypeOK /\ PoolInv /\ [Next]_vars => (TypeOK /\ PoolInv)'
    BY PoolStep
  <1> QED
    BY <1>1, <1>2, PTL DEF Spec

\* However many requests compete, no more threads work and no more connections
\* are handed out than there are.
THEOREM PoolTypeCorrect == Spec => []TypeOK
  BY PoolHolds, PTL

\* A request that is over has given back its thread and its connection, the
\* ones that failed or timed out included.
THEOREM IdleHoldsNothingHolds == Spec => []IdleHoldsNothing
  <1>1. TypeOK /\ PoolInv => IdleHoldsNothing
    BY DEF IdleHoldsNothing, Idle, TypeOK, PoolInv, Disciplined, Holds
  <1> QED
    BY <1>1, PoolHolds, PTL

\* A connection is held while waiting for a thread only on the way to an answer,
\* through the handler and the validation; never to be given back.
THEOREM HeldOnlyToAnswerHolds == Spec => []HeldOnlyToAnswer
  <1>1. TypeOK /\ PoolInv => HeldOnlyToAnswer
    <2> SUFFICES ASSUME TypeOK, PoolInv, NEW r \in Requests, At(r, "thread"),
                        r \in connected
                 PROVE  todo[r] \in ToAnswer
      BY DEF HeldOnlyToAnswer
    <2>1. PICK s \in Seq(Steps) : s = todo[r]
      BY DEF TypeOK
    <2>2. s # <<>> /\ s[1] = "thread" /\ 1 \in 1..Len(s)
      BY <2>1, FirstStep
    <2>3. LateThreads(s, TRUE)
      BY <2>1 DEF PoolInv, Disciplined, LateThreads
    <2>4. SubSeq(s, 1, Len(s)) \in ToAnswer
      BY <2>2, <2>3 DEF LateThreads
    <2>5. SubSeq(s, 1, Len(s)) = s
      BY <2>1, SubSeqFull, Zenon
    <2> QED
      BY <2>1, <2>4, <2>5
  <1> QED
    BY <1>1, PoolHolds, PTL
=============================================================================
