---------------------------- MODULE AuthLimiter ----------------------------
(***************************************************************************)
(* The sign-in limiter (auth_limiter.py): a counter of failures for every  *)
(* address and one for every peer, the waits and lockouts they earn, and   *)
(* the eviction that keeps the number of counters bounded.                 *)
(*                                                                         *)
(* A route calls begin and, if the guess was right, success without giving *)
(* way to another request (routes/auth.py), so an attempt is one step.     *)
(* Reset requests count addresses in a space of their own, by the same     *)
(* rules; here only the peer sees them, as a token attempt that fails.     *)
(***************************************************************************)
EXTENDS Naturals, Sequences

CONSTANTS
  Emails, Peers,
  Spaced,        \* addresses that are spaced but never locked (lockout=False)
  Threshold,     \* AUTH_FAIL_THRESHOLD
  ThresholdIp,   \* AUTH_FAIL_THRESHOLD_IP
  Steps,         \* _SCHEDULE_STEPS
  Window,        \* AUTH_FAIL_WINDOW_S
  Lockout,       \* AUTH_LOCKOUT_S
  MaxKeys,       \* MAX_KEYS
  MaxTime        \* bound on the clock

ASSUME SettingsArePositive ==
  {Threshold, ThresholdIp, Steps, Window, Lockout, MaxKeys} \subseteq Nat \ {0}
ASSUME SpacedAreEmails == Spaced \subseteq Emails
ASSUME ClockIsBounded == MaxTime \in Nat

VARIABLES
  now,       \* clock()
  addr,      \* the space of address keys
  peer,      \* the space of peer keys
  wrong,     \* when each address was guessed wrong, while its key is kept (history)
  missed     \* when each peer guessed wrong, while its key is kept (history)

limiterVars == <<now, addr, peer, wrong, missed>>

Entry == [failures |-> <<>>, notBefore |-> 0, lockedUntil |-> 0]

RangeOf(s) == {s[i] : i \in 1..Len(s)}
First(indices) == CHOOSE i \in indices : \A j \in indices : i <= j

\* A list of keys, each there once, without one of them.
Without(s, k) ==
  LET at == CHOOSE i \in 1..Len(s) : s[i] = k IN
  IF k \notin RangeOf(s) THEN s
  ELSE [i \in 1..(Len(s) - 1) |-> IF i < at THEN s[i] ELSE s[i + 1]]

\* A space keeps its keys least recently touched first; a key it does not
\* hold has an entry with nothing in it.
Empty(K) == [order |-> <<>>, of |-> [k \in K |-> Entry]]
Has(space, k) == k \in RangeOf(space.order)
Drop(space, k) == [order |-> Without(space.order, k), of |-> [space.of EXCEPT ![k] = Entry]]

Live(e) == e.lockedUntil > now \/ e.notBefore > now

\* _prune: failures leave from the front, up to the first that still lies in
\* the window.
Pruned(times, at) ==
  LET young == {i \in 1..Len(times) : times[i] + Window > at} IN
  IF young = {} THEN <<>> ELSE SubSeq(times, First(young), Len(times))

Recent(times) == Pruned(times, now)

\* _lookup and _prune: an existing key becomes the most recent one.
Lookup(space, k) ==
  IF Has(space, k)
  THEN [order |-> Append(Without(space.order, k), k),
        of |-> [space.of EXCEPT ![k].failures = Recent(@)]]
  ELSE space

\* Mutant: plain least recently touched.
VictimLeastRecent(space, keep) == Head(Without(space.order, keep))

\* _evict_one: the least recently touched key without a live wait; when every
\* other key is live, the least recently touched one.
Victim(space, keep) ==
  LET others == Without(space.order, keep)
      idle == {i \in 1..Len(others) : ~Live(space.of[others[i]])}
  IN others[IF idle = {} THEN 1 ELSE First(idle)]

\* _create: the key exists and is the most recent one.
Create(space, k) ==
  LET grown == [space EXCEPT !.order = Append(Without(@, k), k)] IN
  IF Len(grown.order) > MaxKeys THEN Drop(grown, Victim(grown, k)) ELSE grown

-----------------------------------------------------------------------------
(* The schedules: what one more failure earns.                              *)

\* Mutant: the lockout comes one failure late.
PunishAddrLate(e, lockable) ==
  LET failures == Append(e.failures, now)
      n == Len(failures)
  IN [failures |-> failures,
      lockedUntil |-> IF lockable /\ n > Threshold + Steps THEN now + Lockout ELSE e.lockedUntil,
      notBefore |-> CASE n < Threshold -> e.notBefore
                      [] n >= Threshold /\ n <= Threshold + Steps -> now + 2^(n - Threshold)
                      [] OTHER -> IF lockable THEN e.notBefore ELSE now + 2^(Steps - 1)]

PunishAddr(e, lockable) ==
  LET failures == Append(e.failures, now)
      n == Len(failures)
  IN [failures |-> failures,
      lockedUntil |-> IF lockable /\ n >= Threshold + Steps THEN now + Lockout ELSE e.lockedUntil,
      notBefore |-> CASE n < Threshold -> e.notBefore
                      [] n >= Threshold /\ n < Threshold + Steps -> now + 2^(n - Threshold)
                      [] OTHER -> IF lockable THEN e.notBefore ELSE now + 2^(Steps - 1)]

PunishPeer(e) ==
  LET failures == Append(e.failures, now)
      extra == Len(failures) - ThresholdIp
  IN [e EXCEPT !.failures = failures,
               !.notBefore = CASE Len(failures) < ThresholdIp -> @
                               [] extra >= Steps -> now + 2^(Steps - 1)
                               [] OTHER -> now + 2^extra]

\* success on the peer's key: the failure begin recorded comes off, and the
\* spacing with it once the key is under the threshold again.
Forgive(e) ==
  LET failures == SubSeq(e.failures, 1, Len(e.failures) - 1) IN
  [e EXCEPT !.failures = failures,
            !.notBefore = IF Len(failures) < ThresholdIp THEN 0 ELSE @]

\* Mutant: a success forgets the peer's failures altogether.
CountPeerForgetting(p, right) ==
  LET s == Create(Lookup(peer, p), p)
      punished == [s EXCEPT !.of[p] = PunishPeer(@)]
  IN IF right THEN Drop(punished, p) ELSE punished

CountPeer(p, right) ==
  LET s == Create(Lookup(peer, p), p)
      punished == [s EXCEPT !.of[p] = PunishPeer(@)]
  IN IF right THEN [punished EXCEPT !.of[p] = Forgive(@)] ELSE punished

CountAddr(a, right) ==
  LET s == Create(Lookup(addr, a), a)
      punished == [s EXCEPT !.of[a] = PunishAddr(@, a \notin Spaced)]
  IN IF right THEN Drop(punished, a) ELSE punished

-----------------------------------------------------------------------------
LimiterInit ==
  /\ now = 0
  /\ addr = Empty(Emails) /\ peer = Empty(Peers)
  /\ wrong = [a \in Emails |-> <<>>]
  /\ missed = [p \in Peers |-> <<>>]

\* The history of k takes in this attempt; that of a key evicted for k ends.
Recorded(history, space, next, k, right) ==
  [x \in DOMAIN history |->
     IF x # k THEN IF Has(space, x) /\ ~Has(next, x) THEN <<>> ELSE history[x]
     ELSE IF right THEN history[x] ELSE Append(history[x], now)]

AddrAllowed(a) == Has(addr, a) => ~Live(addr.of[a])
PeerAllowed(p) == Has(peer, p) => ~Live(peer.of[p])

\* login: begin is refused when either key says so, and a refused attempt is
\* neither recorded nor evaluated.
Refused(a, p) ==
  /\ ~AddrAllowed(a) \/ ~PeerAllowed(p)
  /\ addr' = Lookup(addr, a)
  /\ peer' = Lookup(peer, p)
  /\ UNCHANGED <<now, wrong, missed>>

\* An allowed attempt is recorded as a failure up front; a right guess
\* retracts it.
Attempt(a, p, right) ==
  /\ AddrAllowed(a) /\ PeerAllowed(p)
  /\ addr' = CountAddr(a, right)
  /\ peer' = CountPeer(p, right)
  /\ wrong' = IF right THEN [Recorded(wrong, addr, addr', a, TRUE) EXCEPT ![a] = <<>>]
              ELSE Recorded(wrong, addr, addr', a, FALSE)
  /\ missed' = Recorded(missed, peer, peer', p, right)
  /\ UNCHANGED now

\* A reset link: only the peer is counted.
TokenAttempt(p, right) ==
  /\ PeerAllowed(p)
  /\ peer' = CountPeer(p, right)
  /\ missed' = Recorded(missed, peer, peer', p, right)
  /\ UNCHANGED <<now, addr, wrong>>

Tick ==
  /\ now < MaxTime
  /\ now' = now + 1
  /\ missed' = [p \in Peers |-> Pruned(missed[p], now')]
  /\ UNCHANGED <<addr, peer, wrong>>

LimiterNext ==
  \/ \E p \in Peers, right \in BOOLEAN :
       TokenAttempt(p, right) \/ \E a \in Emails : Attempt(a, p, right)
  \/ \E a \in Emails, p \in Peers : Refused(a, p)
  \/ Tick

LimiterSpec == LimiterInit /\ [][LimiterNext]_limiterVars

-----------------------------------------------------------------------------
\* With a lockout at least as long as the window (the default), no more than
\* Threshold + Steps wrong guesses at one address are evaluated in any
\* window: not by waiting the lockout out, nor by guessing at other addresses
\* or from other peers in between, as long as its key is kept.
GuessesAreBounded ==
  Lockout >= Window =>
    \A a \in Emails \ Spaced : Len(Recent(wrong[a])) <= Threshold + Steps

\* A key that is locked goes only when every other key stands for an address
\* that was guessed wrong Threshold times itself.
LockedGoLast ==
  \A a \in RangeOf(addr.order) \ RangeOf(addr'.order) :
    addr.of[a].lockedUntil > now =>
      \A b \in RangeOf(addr.order) \ {a} : Len(wrong[b]) >= Threshold

\* "a spray of fresh addresses cannot erase a lockout" (_evict_one): the key
\* of a locked address goes only when every other key it shared the room with
\* has earned a wait of its own, by Threshold wrong guesses.
LockoutOutlivesSpray == [][LockedGoLast]_limiterVars

\* Whoever signs in behind a shared peer takes only his own attempt off its
\* count (success): the peer's failures are its wrong guesses of the window.
PeerCountIsExact ==
  \A p \in Peers : Recent(peer.of[p].failures) = missed[p]
=============================================================================
