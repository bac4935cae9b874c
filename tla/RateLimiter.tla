----------------------------- MODULE RateLimiter -----------------------------
(***************************************************************************)
(* The sliding-window limiter of one endpoint and caller (ratelimit.py,    *)
(* and the dependencies that api_deps.py builds on it).  Its dictionary    *)
(* keeps the deques of different keys apart, so one key stands for all.    *)
(*                                                                         *)
(* FastAPI runs the dependencies in a thread pool.  A call reads the clock *)
(* and only then takes the lock: stamps can be appended out of order, and  *)
(* a thread that waits for its turn has an old one.                        *)
(***************************************************************************)
EXTENDS Absent, Naturals, Sequences, FiniteSets

CONSTANTS
  Call,       \* requests on their way to check()
  MaxEvents,
  Window,     \* window_s, in ticks of the clock
  MaxStall,   \* a bound: ticks a thread waits between the clock and the lock
  Horizon     \* a bound on the clock

ASSUME LimiterAssumption ==
  /\ MaxEvents \in Nat \ {0}
  /\ {Window, MaxStall, Horizon} \subseteq Nat
  /\ None \notin Nat

VARIABLES
  clock,    \* time.monotonic()
  stamp,    \* the time each call has read
  events,   \* the deque
  passed    \* when each call that passed did, which nobody stores

limiterVars == <<clock, stamp, events, passed>>

LimiterTypeOK ==
  /\ clock \in 0..Horizon
  /\ stamp \in [Call -> 0..Horizon \cup {None}]
  /\ events \in Seq(0..Horizon) /\ Len(events) <= MaxEvents
  /\ passed \in Seq(0..Horizon)

LimiterInit ==
  /\ clock = 0
  /\ stamp = [c \in Call |-> None]
  /\ events = <<>> /\ passed = <<>>

Tick ==
  /\ clock < Horizon
  /\ \A c \in Call : stamp[c] # None => clock < stamp[c] + MaxStall
  /\ clock' = clock + 1
  /\ UNCHANGED <<stamp, events, passed>>

ReadClock(c) ==
  /\ stamp[c] = None
  /\ stamp' = [stamp EXCEPT ![c] = clock]
  /\ UNCHANGED <<clock, events, passed>>

\* Mutant of Expired: an interval counted from zero, as if all calls were in one window.
ExpiredAtMultiples(event, now) == event \div Window < now \div Window

Expired(event, now) == event + Window <= now

\* popleft while the oldest has expired; what is behind an event that has not stays.
Recent(now) ==
  LET popped == {i \in DOMAIN events : \A j \in 1..i : Expired(events[j], now)}
  IN  SubSeq(events, Cardinality(popped) + 1, Len(events))

\* The section under the lock.
Check(c) ==
  /\ stamp[c] # None
  /\ stamp' = [stamp EXCEPT ![c] = None]
  /\ LET recent == Recent(stamp[c])
     IN  IF Len(recent) >= MaxEvents
         THEN events' = recent /\ UNCHANGED passed
         ELSE events' = Append(recent, stamp[c]) /\ passed' = Append(passed, clock)
  /\ UNCHANGED clock

LimiterNext == Tick \/ (\E c \in Call : ReadClock(c) \/ Check(c))
LimiterSpec == LimiterInit /\ [][LimiterNext]_limiterVars

-----------------------------------------------------------------------------
(* Properties *)

\* In any window of Window ticks at most MaxEvents calls pass, and a call is refused only if
\* that many did: both up to the ticks a thread stalls before the lock.
LimitHolds ==
  [][\A c \in Call : stamp[c] # None /\ stamp'[c] = None =>
       LET full == Len(passed) >= MaxEvents
           first == passed[Len(passed) - MaxEvents + 1]  \* of the last MaxEvents
       IN  IF passed' # passed
           THEN full => clock + MaxStall >= first + Window
           ELSE full /\ clock < first + Window + MaxStall]_limiterVars

=============================================================================
