---- MODULE RateLimiter ----
(***************************************************************************)
(* The fixed-window limiter of the gateway (internal/store/redis.go) and   *)
(* the counters it keeps in Redis: one key per client and window, raised   *)
(* by INCR and given a time to live by a second call, EXPIRE, when INCR    *)
(* has just created it.  Gateway conjoins these operators with the steps   *)
(* of its requests.                                                        *)
(***************************************************************************)
EXTENDS Naturals, FiniteSets

CONSTANTS
  Clients, \* client addresses
  Limit,   \* requests allowed per window
  Window,  \* seconds per window
  MaxTime  \* bound on the clock

ASSUME LimiterAssumption ==
  /\ Limit \in Nat
  /\ Window \in Nat \ {0}
  /\ MaxTime \in Nat

VARIABLES
  now,    \* seconds, on the clock of the gateway
  count,  \* count[c][b]: value of the key rl:<c>:<b>, 0 when it is absent
  ttl     \* ttl[c][b]: when Redis drops that key, or Forever

limiterVars == <<now, count, ttl>>

Windows == 0..(MaxTime \div Window)

\* A key without a time to live: past every value of the clock.
Forever == MaxTime + Window + 1

LimiterTypeOK ==
  /\ now \in 0..MaxTime
  /\ count \in [Clients -> [Windows -> Nat]]
  /\ ttl \in [Clients -> [Windows -> 0..Forever]]

LimiterInit ==
  /\ now = 0
  /\ count = [c \in Clients |-> [b \in Windows |-> 0]]
  /\ ttl = [c \in Clients |-> [b \in Windows |-> Forever]]

\* The number of the window in the key.
CurrentWindow == now \div Window

Incr(c, b) ==
  /\ count' = [count EXCEPT ![c][b] = @ + 1]
  /\ UNCHANGED <<now, ttl>>

\* Mutant of Expire: the key lives shorter than its window.
ExpireEarly(c, b) ==
  /\ ttl' = [ttl EXCEPT ![c][b] = now + Window - 1]
  /\ UNCHANGED <<now, count>>

\* EXPIRE with the length of the window; no effect on a key that is gone.
Expire(c, b) ==
  /\ ttl' = IF count[c][b] > 0 THEN [ttl EXCEPT ![c][b] = now + Window] ELSE ttl
  /\ UNCHANGED <<now, count>>

\* Redis drops every key whose time has come as the clock moves on.
Tick ==
  /\ now < MaxTime
  /\ now' = now + 1
  /\ count' = [c \in Clients |-> [b \in Windows |->
                 IF ttl[c][b] <= now' THEN 0 ELSE count[c][b]]]
  /\ ttl' = [c \in Clients |-> [b \in Windows |->
               IF ttl[c][b] <= now' THEN Forever ELSE ttl[c][b]]]

Allows(n) == n <= Limit

====
