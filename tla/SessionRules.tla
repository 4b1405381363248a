---------------------------- MODULE SessionRules ----------------------------
(***************************************************************************)
(* The pure expiry rules of authcore/sessions.py.  Instants and durations  *)
(* are natural numbers of one unspecified unit.                            *)
(***************************************************************************)
EXTENDS Naturals

CONSTANTS
  ABSOLUTE_LIFETIME,   \* life of a session from its creation
  IDLE_TIMEOUT         \* longest pause between two uses of a session

\* The comment above the two values in the code asks for this order.
ASSUME LifetimeAssumption ==
  /\ ABSOLUTE_LIFETIME \in Nat
  /\ IDLE_TIMEOUT \in Nat \ {0}
  /\ IDLE_TIMEOUT < ABSOLUTE_LIFETIME

absolute_expiry(created_at) == created_at + ABSOLUTE_LIFETIME

past_absolute(now, expires_at, last_used_at) == now >= expires_at
past_idle(now, expires_at, last_used_at) == now >= last_used_at + IDLE_TIMEOUT

\* The exact instant of a deadline counts as expired.
is_expired(now, expires_at, last_used_at) ==
  \/ past_absolute(now, expires_at, last_used_at)
  \/ past_idle(now, expires_at, last_used_at)
=============================================================================
