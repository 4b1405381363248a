------------------------------ MODULE Browser ------------------------------
(***************************************************************************)
(* One browser in front of the session service: the cookie it holds, which *)
(* answers set and clear it, and which requests carry it.  Requests of one *)
(* browser overlap (two tabs, a form sent twice), so that their answers    *)
(* arrive in any order, or not at all.                                     *)
(***************************************************************************)
EXTENDS Sessions

VARIABLES
  jar,         \* the value of the session cookie, NoCookie if there is none
  jar_until    \* the instant at which the browser drops it by itself

jarVars == <<jar, jar_until>>
browserVars ==
  <<clock, sessions, last_id, req, held, owner, uses, liveAtAsk, jar, jar_until>>

-----------------------------------------------------------------------------
(* The cookie *)

\* Wrong form: the cookie is given the idle timeout, which nothing renews.
IdleMaxAge == IDLE_TIMEOUT
max_age == ABSOLUTE_LIFETIME

\* What a request sends: the browser drops a cookie that is past its max_age.
SentCookie == IF clock < jar_until THEN jar ELSE NoCookie

\* Wrong form: the cookie is set before the session is stored.
SetsRegardless(q) == q.op = "login"

\* Only answers without an exception carry the Set-Cookie of their handler.
SetsCookie(q) == q.op = "login" /\ q.reply = "ok"

\* Wrong form: the cookie is cleared before the session is revoked.
ClearsRegardless(q) == q.op \in {"logout", "logout_all"}
ClearsCookie(q) == q.op \in {"logout", "logout_all"} /\ q.reply = "ok"

set_session_cookie(t) == jar' = t /\ jar_until' = clock + max_age

clear_session_cookie == jar' = NoCookie /\ jar_until' = 0

-----------------------------------------------------------------------------
(* Steps *)

\* A login takes no notice of a cookie sent with it: it draws a new token.
Send(r) ==
  \/ AskLogout(r, SentCookie)
  \/ \E o \in Lookups : AskLookup(r, o, SentCookie)
  \/ \E u \in Users, t \in Tokens : AskLogin(r, u, t)

\* An answer arrives, whatever the browser has sent and received since it
\* asked.
Receive(r) ==
  /\ Deliver(r)
  /\ IF SetsCookie(req[r]) THEN set_session_cookie(req[r].cookie)
     ELSE IF ClearsCookie(req[r]) THEN clear_session_cookie
     ELSE UNCHANGED jarVars

\* Any answer may be lost: what the request did stays done.
Miss(r) ==
  /\ At(r, "answer")
  /\ Release({r})
  /\ UNCHANGED <<held, jar, jar_until>>

BrowserInit == Init /\ jar = NoCookie /\ jar_until = 0

BrowserNext ==
  \/ \E r \in Requests : Receive(r) \/ Miss(r)
  \/ /\ \/ \E r \in Requests : Send(r) \/ Serve(r) \/ DatabaseError(r)
        \/ Crash
        \/ Tick
     /\ UNCHANGED jarVars

BrowserSpec == BrowserInit /\ [][BrowserNext]_browserVars

-----------------------------------------------------------------------------
(* Properties *)

Acceptable(i) ==
  ~is_expired(clock, sessions[i].expires_at, sessions[i].last_used_at)

\* The browser never drops the cookie of a session the service would still
\* accept: the cookie is issued for the absolute lifetime and never renewed,
\* while the session's idle deadline moves, and the answer may come late.
CookieOutlivesSession ==
  \A i \in DOMAIN sessions :
    sessions[i].token = jar /\ Acceptable(i) => SentCookie = jar

\* When the answer to a request that presented the browser's cookie clears
\* it, the session is gone: no error, no row that was not found and no other
\* request in between leaves it behind, live and out of the browser's reach.
ClearedMeansEnded ==
  [][\A r \in Requests :
       /\ At(r, "answer") /\ req'[r].pc = "idle"
       /\ req[r].cookie = jar /\ jar # NoCookie /\ jar' = NoCookie
       => ~Live(jar)]_browserVars

\* The cookie the browser holds is of a session that was created: a login
\* that failed on its way leaves the browser what it had.
JarIsIssued ==
  /\ jar \in held \cup {NoCookie}
  /\ jar # NoCookie => Issued(jar)
=============================================================================
