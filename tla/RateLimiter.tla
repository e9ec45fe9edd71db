----------------------------- MODULE RateLimiter -----------------------------
(***************************************************************************)
(* The Redis counter behind login and self-service reset: RateLimiter.Allow *)
(* as AuthService.checkPublicRate calls it with the key of one account.    *)
(* INCR and EXPIRE are two commands: between them the counter has no end.  *)
(***************************************************************************)
EXTENDS Naturals

CONSTANT LoginRateLimit   \* AuthService.loginRateLimit

VARIABLES
  counted,   \* the value of rate:auth:account:<key>
  expires    \* whether the key has a time to live

counter == <<counted, expires>>

RateInit == counted = 0 /\ expires = FALSE

RateTypeOK == counted \in Nat /\ expires \in BOOLEAN

(* Allow answers count <= limit. *)
Allows(n) == n <= LoginRateLimit

Incr == counted' = counted + 1 /\ UNCHANGED expires

(* A wrong window: it is never set. *)
NoExpiry == UNCHANGED counter

(* EXPIRE, by the call whose INCR created the key *)
SetExpiry == expires' = TRUE /\ UNCHANGED counted

(* Redis drops the key when its window is over. *)
WindowEnds ==
  /\ expires
  /\ counted' = 0 /\ expires' = FALSE
=============================================================================
