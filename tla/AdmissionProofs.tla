-------------------------- MODULE AdmissionProofs --------------------------
(***************************************************************************)
(* The limits, for any clients, routes, requests and limits.  The          *)
(* invariant says of each counter by itself how its hits, its block and    *)
(* what it let through go together (CountersInv), and of the requests      *)
(* under way that the throttlers they are past have let them through       *)
(* (FlowInv, and FormsInv between the two of the forms).  All of it is     *)
(* about sums over spans of time: SumProofs.                               *)
(***************************************************************************)
EXTENDS Admission, SumProofs

-----------------------------------------------------------------------------
(* One counter: h are its hits, b the end of its block, p the requests it  *)
(* let through, up to the instant n.                                       *)

Recent(n, span) == {i \in 0 .. n : n - i < span}
Since(n, a) == {i \in 0 .. n : i >= a}

\* A counter that blocks nobody has counted what it let through.  One that
\* does, or did until its next hit, has let nothing through since the block
\* began, and as much as its limit in the ttl before.
CounterOK(h, b, p, ttl, lim, n) ==
    /\ \A i \in 0 .. MaxTime : i > n => h[i] = 0 /\ p[i] = 0
    /\ SumFunctionOnSet(p, Recent(n, ttl)) <= lim
    /\ SumFunctionOnSet(h, Recent(n, ttl)) <= lim + 1
    /\ b = 0 => /\ SumFunctionOnSet(h, Recent(n, ttl)) <= lim
                /\ \A i \in Recent(n, ttl) : h[i] = p[i]
    /\ b > 0 => /\ ttl <= b /\ b <= n + ttl
                /\ \A i \in 0 .. MaxTime : i > b - ttl => p[i] = 0
                /\ lim <= SumFunctionOnSet(p, Since(n, b - 2 * ttl + 1))

\* The instants of a span are finitely many.
LEMMA RecentIs ==
    ASSUME NEW n \in 0 .. MaxTime, NEW span \in Nat
    PROVE  /\ IsFiniteSet(Recent(n, span))
           /\ Recent(n, span) \subseteq 0 .. MaxTime
           /\ span > 0 => n \in Recent(n, span)
<1>1. IsFiniteSet(0 .. n) /\ MaxTime \in Nat
  BY FS_Interval, AdmissionAssumption
<1>2. Recent(n, span) \subseteq 0 .. n
  BY DEF Recent
<1> QED
  BY <1>1, <1>2, FS_Subset DEF Recent

\* And so are those since an instant.
LEMMA SinceIs ==
    ASSUME NEW n \in 0 .. MaxTime, NEW a \in Int
    PROVE  /\ IsFiniteSet(Since(n, a))
           /\ Since(n, a) \subseteq 0 .. MaxTime
           /\ a <= n => n \in Since(n, a)
<1>1. IsFiniteSet(0 .. n) /\ MaxTime \in Nat
  BY FS_Interval, AdmissionAssumption
<1>2. Since(n, a) \subseteq 0 .. n
  BY DEF Since
<1> QED
  BY <1>1, <1>2, FS_Subset DEF Since

\* The next instant keeps a counter in order: the spans end later, and nothing
\* has happened there yet.
LEMMA CounterTick ==
    ASSUME NEW h \in Counts, NEW p \in Counts, NEW b \in Nat,
           NEW ttl \in Nat \ {0}, NEW lim \in Nat,
           NEW n \in 0 .. MaxTime, n + 1 \in 0 .. MaxTime,
           CounterOK(h, b, p, ttl, lim, n)
    PROVE  CounterOK(h, b, p, ttl, lim, n + 1)
<1> DEFINE m == n + 1
           old == Recent(n, ttl) \cap Recent(m, ttl)
<1>0. /\ m \in 0 .. MaxTime /\ m \in Nat /\ MaxTime \in Nat
      /\ h[m] = 0 /\ p[m] = 0 /\ \A i \in 0 .. MaxTime : h[i] \in Nat /\ p[i] \in Nat
  BY AdmissionAssumption DEF Counts, CounterOK
<1>1. /\ Recent(m, ttl) = old \cup {m} /\ old \subseteq Recent(n, ttl)
      /\ IsFiniteSet(Recent(n, ttl)) /\ Recent(n, ttl) \subseteq 0 .. MaxTime
      /\ IsFiniteSet(Recent(m, ttl)) /\ Recent(m, ttl) \subseteq 0 .. MaxTime
  BY <1>0, RecentIs DEF Recent
<1> HIDE DEF m
<1>2. ASSUME NEW f \in Counts, f[m] = 0
      PROVE  /\ SumFunctionOnSet(f, Recent(m, ttl)) \in Nat
             /\ SumFunctionOnSet(f, Recent(n, ttl)) \in Nat
             /\ SumFunctionOnSet(f, Recent(m, ttl)) <= SumFunctionOnSet(f, Recent(n, ttl))
  <2>1. \A i \in 0 .. MaxTime : f[i] \in Nat
    BY DEF Counts
  <2>2. SumFunctionOnSet(f, Recent(m, ttl)) = SumFunctionOnSet(f, old)
    BY <1>1, <1>2, <2>1, SumZeros
  <2>3. SumFunctionOnSet(f, old) <= SumFunctionOnSet(f, Recent(n, ttl))
    BY <1>1, <2>1, SumMono
  <2> QED
    BY <1>1, <2>1, <2>2, <2>3, SumNat
<1>3. /\ SumFunctionOnSet(p, Recent(m, ttl)) <= lim
      /\ SumFunctionOnSet(h, Recent(m, ttl)) <= lim + 1
  BY <1>0, <1>2 DEF CounterOK
<1>4. ASSUME b = 0
      PROVE  /\ SumFunctionOnSet(h, Recent(m, ttl)) <= lim
             /\ \A i \in Recent(m, ttl) : h[i] = p[i]
  BY <1>0, <1>1, <1>2, <1>4 DEF CounterOK
<1>5. ASSUME b > 0
      PROVE  lim <= SumFunctionOnSet(p, Since(m, b - 2 * ttl + 1))
  <2> DEFINE a == b - 2 * ttl + 1
  <2>1. a \in Int
    OBVIOUS
  <2>2. lim <= SumFunctionOnSet(p, Since(n, a))
    BY <1>5 DEF CounterOK
  <2> HIDE DEF a
  <2>3. /\ IsFiniteSet(Since(m, a)) /\ Since(m, a) \subseteq 0 .. MaxTime
        /\ IsFiniteSet(Since(n, a)) /\ Since(n, a) \subseteq Since(m, a)
    BY <1>0, <2>1, SinceIs DEF Since, m
  <2>4. SumFunctionOnSet(p, Since(n, a)) <= SumFunctionOnSet(p, Since(m, a))
    BY <1>0, <2>3, SumMono
  <2>5. /\ SumFunctionOnSet(p, Since(n, a)) \in Nat
        /\ SumFunctionOnSet(p, Since(m, a)) \in Nat
    BY <1>0, <2>3, SumNat
  <2>6. lim <= SumFunctionOnSet(p, Since(m, a))
    BY <2>2, <2>4, <2>5
  <2> QED
    BY <2>6 DEF a
<1>6. /\ \A i \in 0 .. MaxTime : i > m => h[i] = 0 /\ p[i] = 0
      /\ b > 0 => /\ ttl <= b /\ b <= m + ttl
                  /\ \A i \in 0 .. MaxTime : i > b - ttl => p[i] = 0
  BY DEF CounterOK, m
<1>7. CounterOK(h, b, p, ttl, lim, m)
  BY <1>3, <1>4, <1>5, <1>6 DEF CounterOK
<1> QED
  BY <1>7 DEF m

\* A counter that is in order and blocks has let its limit through in two ttls.
LEMMA BlockedUsed ==
    ASSUME NEW h \in Counts, NEW p \in Counts, NEW b \in Nat,
           NEW ttl \in Nat \ {0}, NEW lim \in Nat, NEW n \in 0 .. MaxTime,
           CounterOK(h, b, p, ttl, lim, n), b > n
    PROVE  lim <= SumFunctionOnSet(p, Recent(n, 2 * ttl))
<1> DEFINE a == b - 2 * ttl + 1
<1>1. a \in Int /\ 2 * ttl \in Nat
  OBVIOUS
<1>2. lim <= SumFunctionOnSet(p, Since(n, a))
  BY DEF CounterOK
<1>3. Since(n, a) \subseteq Recent(n, 2 * ttl)
  BY DEF Since, Recent
<1>4. \A i \in 0 .. MaxTime : p[i] \in Nat
  BY DEF Counts
<1>5. /\ IsFiniteSet(Recent(n, 2 * ttl)) /\ Recent(n, 2 * ttl) \subseteq 0 .. MaxTime
      /\ IsFiniteSet(Since(n, a)) /\ Since(n, a) \subseteq 0 .. MaxTime
  BY <1>1, RecentIs, SinceIs
<1> HIDE DEF a
<1>6. SumFunctionOnSet(p, Since(n, a)) <= SumFunctionOnSet(p, Recent(n, 2 * ttl))
  BY <1>3, <1>4, <1>5, SumMono
<1>7. /\ SumFunctionOnSet(p, Since(n, a)) \in Nat
      /\ SumFunctionOnSet(p, Recent(n, 2 * ttl)) \in Nat
  BY <1>4, <1>5, SumNat
<1> QED
  BY <1>2, <1>6, <1>7

\* One more at an instant.
LEMMA PlusOne ==
    ASSUME NEW f \in Counts, NEW n \in 0 .. MaxTime
    PROVE  LET g == [f EXCEPT ![n] = @ + 1] IN
           /\ g \in Counts
           /\ \A i \in 0 .. MaxTime : g[i] = IF i = n THEN f[i] + 1 ELSE f[i]
           /\ \A i \in 0 .. MaxTime : f[i] \in Nat
BY DEF Counts

\* And in the sum over some.
LEMMA PlusOneInSum ==
    ASSUME NEW f \in Counts, NEW n \in 0 .. MaxTime,
           NEW S, IsFiniteSet(S), S \subseteq 0 .. MaxTime, n \in S
    PROVE  SumFunctionOnSet([f EXCEPT ![n] = @ + 1], S) = SumFunctionOnSet(f, S) + 1
<1> DEFINE g == [f EXCEPT ![n] = @ + 1]
<1>1. (\A i \in S : f[i] \in Nat) /\ \A i \in S : g[i] = IF i = n THEN f[i] + 1 ELSE f[i]
  BY PlusOne
<1> HIDE DEF g
<1>2. SumFunctionOnSet(g, S) = SumFunctionOnSet(f, S) + 1
  BY <1>1, SumPlusOne
<1> QED
  BY <1>2 DEF g

\* A hit on a counter that does not block.
Hit(h, b, n) == [(IF b > 0 THEN None ELSE h) EXCEPT ![n] = @ + 1]

\* It is let through and counted, or it blocks.
LEMMA CounterHit ==
    ASSUME NEW h \in Counts, NEW p \in Counts, NEW b \in Nat,
           NEW ttl \in Nat \ {0}, NEW lim \in Nat, NEW n \in 0 .. MaxTime,
           CounterOK(h, b, p, ttl, lim, n), b <= n
    PROVE  /\ SumFunctionOnSet(Hit(h, b, n), Recent(n, ttl)) > lim =>
                /\ CounterOK(Hit(h, b, n), n + ttl, p, ttl, lim, n)
                /\ lim <= SumFunctionOnSet(p, Recent(n, 2 * ttl))
           /\ SumFunctionOnSet(Hit(h, b, n), Recent(n, ttl)) <= lim =>
                CounterOK(Hit(h, b, n), 0, [p EXCEPT ![n] = @ + 1], ttl, lim, n)
<1>base. PICK base : base = IF b > 0 THEN None ELSE h
  OBVIOUS
<1>g. PICK g : g = [base EXCEPT ![n] = @ + 1]
  OBVIOUS
<1>hit. Hit(h, b, n) = g
  BY <1>base, <1>g DEF Hit
<1> DEFINE R == Recent(n, ttl)
<1>0. /\ \A i \in 0 .. MaxTime : h[i] \in Nat /\ p[i] \in Nat
      /\ IsFiniteSet(R) /\ R \subseteq 0 .. MaxTime /\ n \in R
      /\ MaxTime \in Nat
  BY RecentIs, AdmissionAssumption DEF Counts
<1>1. /\ base \in Counts
      /\ \A i \in R : base[i] = p[i]
      /\ \A i \in 0 .. MaxTime : i > n => base[i] = 0 /\ p[i] = 0
  <2>1. CASE b = 0
    BY <1>base, <2>1 DEF CounterOK
  <2>2. CASE b > 0
    <3>1. base = [i \in 0 .. MaxTime |-> 0]
      BY <1>base, <2>2 DEF None
    <3>2. \A i \in R : i > b - ttl
      BY DEF Recent
    <3>3. \A i \in R : p[i] = 0
      BY <1>0, <2>2, <3>2 DEF CounterOK
    <3>4. \A i \in 0 .. MaxTime : i > n => p[i] = 0
      BY DEF CounterOK
    <3> QED
      BY <1>0, <3>1, <3>3, <3>4 DEF Counts
  <2> QED
    BY <2>1, <2>2
<1>2. /\ g \in Counts
      /\ \A i \in 0 .. MaxTime : g[i] = IF i = n THEN base[i] + 1 ELSE base[i]
      /\ \A i \in 0 .. MaxTime : base[i] \in Nat
  <2>1. LET f == [base EXCEPT ![n] = @ + 1] IN
        /\ f \in Counts
        /\ \A i \in 0 .. MaxTime : f[i] = IF i = n THEN base[i] + 1 ELSE base[i]
        /\ \A i \in 0 .. MaxTime : base[i] \in Nat
    BY <1>1, PlusOne
  <2> QED
    BY <1>g, <2>1
<1>3. [p EXCEPT ![n] = @ + 1] \in Counts
  BY DEF Counts
<1> DEFINE sum == SumFunctionOnSet(p, R)
<1>4. /\ SumFunctionOnSet(base, R) = sum
      /\ sum \in Nat /\ sum <= lim
  BY <1>0, <1>1, SumSame, SumNat DEF CounterOK
<1>5. SumFunctionOnSet(g, R) = sum + 1
  <2>1. SumFunctionOnSet([base EXCEPT ![n] = @ + 1], R) = SumFunctionOnSet(base, R) + 1
    BY <1>0, <1>1, PlusOneInSum
  <2> QED
    BY <1>g, <1>4, <2>1
<1>6. ASSUME SumFunctionOnSet(g, R) > lim
      PROVE  /\ CounterOK(g, n + ttl, p, ttl, lim, n)
             /\ lim <= SumFunctionOnSet(p, Recent(n, 2 * ttl))
  <2>1. sum = lim
    BY <1>4, <1>5, <1>6
  <2> DEFINE c == n + ttl
  <2>2. Since(n, c - 2 * ttl + 1) = R
    BY DEF Since, Recent
  <2>3. lim <= SumFunctionOnSet(p, Since(n, c - 2 * ttl + 1))
    BY <2>1, <2>2
  <2>4. CounterOK(g, c, p, ttl, lim, n)
    <3>1. c > 0 /\ ttl <= c /\ c <= n + ttl /\ c # 0
      OBVIOUS
    <3>2. \A i \in 0 .. MaxTime : i > c - ttl => p[i] = 0
      BY <1>1
    <3>3. \A i \in 0 .. MaxTime : i > n => g[i] = 0 /\ p[i] = 0
      BY <1>1, <1>2
    <3> HIDE DEF c
    <3> QED
      BY <1>4, <1>5, <2>1, <2>3, <3>1, <3>2, <3>3 DEF CounterOK
  <2>5. lim <= SumFunctionOnSet(p, Recent(n, 2 * ttl))
    <3>1. c \in Nat /\ c > n
      OBVIOUS
    <3> HIDE DEF c
    <3> QED
      BY <1>2, <2>4, <3>1, BlockedUsed
  <2> QED
    BY <2>4, <2>5
<1>7. ASSUME SumFunctionOnSet(g, R) <= lim
      PROVE  CounterOK(g, 0, [p EXCEPT ![n] = @ + 1], ttl, lim, n)
  <2>1. PICK q : q = [p EXCEPT ![n] = @ + 1]
    OBVIOUS
  <2>2. \A i \in 0 .. MaxTime : q[i] = IF i = n THEN p[i] + 1 ELSE p[i]
    BY <2>1 DEF Counts
  <2>3. SumFunctionOnSet(q, R) = sum + 1
    <3>1. SumFunctionOnSet([p EXCEPT ![n] = @ + 1], R) = sum + 1
      BY <1>0, PlusOneInSum
    <3> QED
      BY <2>1, <3>1
  <2>4. CounterOK(g, 0, q, ttl, lim, n)
    <3>1. \A i \in R : g[i] = q[i]
      BY <1>0, <1>1, <1>2, <2>2
    <3>2. \A i \in 0 .. MaxTime : i > n => g[i] = 0 /\ q[i] = 0
      BY <1>1, <1>2, <2>2
    <3> QED
      BY <1>4, <1>5, <1>7, <2>3, <3>1, <3>2 DEF CounterOK
  <2> QED
    BY <2>1, <2>4
<1> QED
  BY <1>hit, <1>6, <1>7

-----------------------------------------------------------------------------
(* The throttlers *)

\* The policies whose requests a throttler counts.
Covers(t) == {p \in Policies : Policy(t) \in {"any", p}}

\* The throttlers by name.
LEMMA NamesAre ==
    /\ DOMAIN Throttlers = 1 .. 6
    /\ Names = {"global", "form-minute", "form-day", "auth", "refresh", "profile"}
<1>1. DOMAIN Throttlers = 1 .. 6
  BY DEF Throttlers
<1>2. /\ Throttlers[1] = "global" /\ Throttlers[2] = "form-minute"
      /\ Throttlers[3] = "form-day" /\ Throttlers[4] = "auth"
      /\ Throttlers[5] = "refresh" /\ Throttlers[6] = "profile"
  BY DEF Throttlers
<1>3. \A i \in 1 .. 6 : i \in {1, 2, 3, 4, 5, 6}
  OBVIOUS
<1> QED
  BY <1>1, <1>2, <1>3 DEF Names

\* The throttler asked first is one of those to ask, and the day's limit of the
\* forms comes after the minute's.
LEMMA FirstOfIs ==
    ASSUME NEW ask \in SUBSET Names, ask # {}
    PROVE  /\ FirstOf(ask) \in ask
           /\ FirstOf(ask) = "form-day" => "form-minute" \notin ask
<1> DEFINE Good(i) == /\ Throttlers[i] \in ask
                      /\ \A j \in 1 .. i - 1 : Throttlers[j] \notin ask
<1>1. /\ Throttlers[1] = "global" /\ Throttlers[2] = "form-minute"
      /\ Throttlers[3] = "form-day" /\ Throttlers[4] = "auth"
      /\ Throttlers[5] = "refresh" /\ Throttlers[6] = "profile"
  BY DEF Throttlers
<1>2. \E i \in 1 .. 6 : Throttlers[i] \in ask
  <2>1. PICK t \in ask : t \in Names
    OBVIOUS
  <2>2. PICK i \in 1 .. 6 : t = Throttlers[i]
    BY <2>1, NamesAre DEF Names
  <2> QED
    BY <2>1, <2>2
<1>3. \E i \in 1 .. 6 : Good(i)
  <2> DEFINE In(i) == Throttlers[i] \in ask
  <2>1. \E i \in 1 .. 6 : In(i)
    BY <1>2
  <2> HIDE DEF In
  <2>2. \E i \in 1 .. 6 : In(i) /\ \A j \in 1 .. i - 1 : ~ In(j)
    <3>1. In(1) \/ In(2) \/ In(3) \/ In(4) \/ In(5) \/ In(6)
      BY <2>1
    <3>2. CASE In(1)
      BY <3>2
    <3>3. CASE ~ In(1) /\ In(2)
      BY <3>3
    <3>4. CASE ~ In(1) /\ ~ In(2) /\ In(3)
      BY <3>4
    <3>5. CASE ~ In(1) /\ ~ In(2) /\ ~ In(3) /\ In(4)
      BY <3>5
    <3>6. CASE ~ In(1) /\ ~ In(2) /\ ~ In(3) /\ ~ In(4) /\ In(5)
      BY <3>6
    <3>7. CASE ~ In(1) /\ ~ In(2) /\ ~ In(3) /\ ~ In(4) /\ ~ In(5) /\ In(6)
      BY <3>7
    <3> QED
      BY <3>1, <3>2, <3>3, <3>4, <3>5, <3>6, <3>7
  <2> QED
    BY <2>2 DEF In
<1>4. PICK i \in 1 .. 6 : Good(i) /\ FirstOf(ask) = Throttlers[i]
  <2> DEFINE chosen == CHOOSE i \in DOMAIN Throttlers :
                          /\ Throttlers[i] \in ask
                          /\ \A j \in 1 .. i - 1 : Throttlers[j] \notin ask
  <2>1. chosen \in 1 .. 6 /\ Good(chosen)
    BY <1>3, NamesAre
  <2>2. FirstOf(ask) = Throttlers[chosen]
    BY DEF FirstOf
  <2> QED
    BY <2>1, <2>2
<1>5. ASSUME Throttlers[i] = "form-day"
      PROVE  "form-minute" \notin ask
  <2>1. i = 3
    BY <1>1, <1>5
  <2>2. 2 \in 1 .. i - 1
    BY <2>1
  <2> QED
    BY <1>1, <1>4, <2>2
<1> QED
  BY <1>4, <1>5

\* Windows are positive and limits natural.
LEMMA LimitsAre ==
    ASSUME NEW t \in Names
    PROVE  Ttl(t) \in Nat \ {0} /\ Limit(t) \in Nat
BY NamesAre, AdmissionAssumption DEF Ttl, Limit

\* Five policies.
LEMMA CoversFinite ==
    ASSUME NEW P \in SUBSET Policies
    PROVE  IsFiniteSet(P)
<1>1. Policies = {"form"} \cup {"auth"} \cup {"refresh"} \cup {"profile"} \cup {"none"}
  BY DEF Policies
<1>2. IsFiniteSet(Policies)
  BY <1>1, FS_Singleton, FS_Union
<1> QED
  BY <1>2, FS_Subset

-----------------------------------------------------------------------------
(* The invariant *)

\* A request is asked by throttlers of its route alone.
Typed ==
    /\ now \in 0 .. MaxTime
    /\ req \in [Reqs -> {Idle} \cup Busy]
    /\ \A r \in Reqs : req[r] # Idle => req[r].ask \subseteq Asked(req[r].route)
    /\ store \in [Keys -> [hits : Counts, blockedUntil : Nat]]
    /\ passed \in [Keys -> Counts]
    /\ handled \in [Trackers -> [Policies \X (0 .. MaxTime) -> Nat]]

CountersInv ==
    \A k \in Keys :
        CounterOK(store[k].hits, store[k].blockedUntil, passed[k],
                  Ttl(k[1]), Limit(k[1]), now)

\* The requests of client c on their way that throttler t has let through.
Flying(t, c) ==
    {r \in Reqs : /\ req[r] # Idle
                  /\ req[r].tracker = c
                  /\ PolicyOf(req[r].route) \in Covers(t)
                  /\ t \notin req[r].ask}

\* What has been handled of a client's requests since any instant, and what is
\* about to be, each throttler of the route has let through since then.
FlowInv ==
    /\ \A c \in Trackers, p \in Policies, i \in 0 .. MaxTime :
          i > now => handled[c][<<p, i>>] = 0
    /\ \A t \in Names, c \in Trackers, a \in Int :
          a <= now =>
              SumFunctionOnSet(handled[c], Covers(t) \X Since(now, a))
                + Cardinality(Flying(t, c))
              <= SumFunctionOnSet(passed[<<t, c>>], Since(now, a))

\* The forms of client c that the minute's limit let through and the day's has
\* not been asked about.
Between(c) ==
    {r \in Reqs : /\ req[r] # Idle
                  /\ req[r].tracker = c
                  /\ PolicyOf(req[r].route) = "form"
                  /\ "form-minute" \notin req[r].ask
                  /\ "form-day" \in req[r].ask}

\* What the day's counter has since any instant, and what is about to be
\* counted there, the minute's let through since then.
FormsInv ==
    \A c \in Trackers, a \in Int :
        a <= now =>
            SumFunctionOnSet(store[<<"form-day", c>>].hits, Since(now, a))
              + Cardinality(Between(c))
            <= SumFunctionOnSet(passed[<<"form-minute", c>>], Since(now, a))

\* What the next throttler does to each part of the state.
Passes(r, t, c) ==
    /\ store'[<<t, c>>].blockedUntil <= now
    /\ req'[r] \in Busy
    /\ req'[r].tracker = c
    /\ req'[r].route = req[r].route
    /\ req'[r].ask = req[r].ask \ {t}
    /\ passed'[<<t, c>>] = [passed[<<t, c>>] EXCEPT ![now] = @ + 1]

Refuses(r, t, c) ==
    /\ store'[<<t, c>>].blockedUntil > now
    /\ req'[r] = Idle
    /\ passed'[<<t, c>>] = passed[<<t, c>>]

Answers(r, t, c) ==
    /\ req[r] \in Busy /\ req[r] # Idle
    /\ t = FirstOf(req[r].ask) /\ t \in req[r].ask
    /\ t = "form-day" => "form-minute" \notin req[r].ask
    /\ c = req[r].tracker
    /\ <<t, c>> \in Keys
    /\ store' \in [Keys -> [hits : Counts, blockedUntil : Nat]]
    /\ store'[<<t, c>>] = Increment(store[<<t, c>>], t)
    /\ \A k \in Keys \ {<<t, c>>} :
          store'[k] = store[k] /\ passed'[k] = passed[k]
    /\ passed' \in [Keys -> Counts]
    /\ req' \in [Reqs -> {Idle} \cup Busy]
    /\ \A q \in Reqs \ {r} : req'[q] = req[q]
    /\ Passes(r, t, c) \/ Refuses(r, t, c)
    /\ UNCHANGED <<now, handled>>

\* The answer is about the request's client.
LEMMA ThrottleEffect ==
    ASSUME Typed, NEW r \in Reqs, Throttle(r)
    PROVE  \E t \in Names, c \in Trackers : Answers(r, t, c)
<1>1. req[r] \in Busy /\ req[r] # Idle /\ req[r].ask # {}
  BY DEF Typed, Throttle
<1>2. PICK t, c : t = FirstOf(req[r].ask) /\ c = req[r].tracker
  OBVIOUS
<1>3. /\ t \in req[r].ask /\ t \in Names /\ c \in Trackers
      /\ t = "form-day" => "form-minute" \notin req[r].ask
  BY <1>1, <1>2, FirstOfIs DEF Busy
<1>4. <<t, c>> \in Keys /\ Key(t, c) = <<t, c>>
  BY <1>3 DEF Keys, Key
<1> DEFINE k == <<t, c>>
<1>5. PICK entry : entry = Increment(store[k], t)
  OBVIOUS
<1>6. entry \in [hits : Counts, blockedUntil : Nat]
  <2>1. /\ store[k].hits \in Counts /\ store[k].blockedUntil \in Nat
        /\ store[k] \in [hits : Counts, blockedUntil : Nat]
    BY <1>4 DEF Typed
  <2>2. None \in Counts
    BY DEF None, Counts
  <2>3. now \in 0 .. MaxTime /\ MaxTime \in Nat /\ now + Ttl(t) \in Nat
    BY <1>3, LimitsAre, AdmissionAssumption DEF Typed
  <2>4. /\ Counted(None) \in Counts
        /\ Counted(store[k].hits) \in Counts
    BY <2>1, <2>2, <2>3, PlusOne DEF Counted
  <2> DEFINE hits == Counted(IF store[k].blockedUntil > 0 THEN None ELSE store[k].hits)
             until == IF Within(hits, Ttl(t)) > Limit(t) THEN now + Ttl(t) ELSE 0
  <2>5. hits \in Counts /\ until \in Nat
    BY <2>3, <2>4
  <2>6. entry = store[k] \/ entry = [hits |-> hits, blockedUntil |-> until]
    BY <1>5 DEF Increment
  <2> HIDE DEF hits, until
  <2> QED
    BY <2>1, <2>5, <2>6
<1>7. /\ store' = [store EXCEPT ![k] = entry]
      /\ IF Blocked(entry)
           THEN /\ req' = [req EXCEPT ![r] = Idle]
                /\ UNCHANGED passed
           ELSE /\ req' = [req EXCEPT ![r].ask = @ \ {t}]
                /\ passed' = [passed EXCEPT ![k] = Counted(@)]
      /\ UNCHANGED <<now, handled>>
  BY <1>2, <1>4, <1>5 DEF Throttle
<1>8. /\ store' \in [Keys -> [hits : Counts, blockedUntil : Nat]]
      /\ store'[k] = entry
      /\ \A l \in Keys \ {k} : store'[l] = store[l]
  BY <1>4, <1>6, <1>7 DEF Typed
<1> HIDE DEF k
<1>9. CASE Blocked(entry)
  <2>1. /\ req' \in [Reqs -> {Idle} \cup Busy]
        /\ \A q \in Reqs \ {r} : req'[q] = req[q]
        /\ req'[r] = Idle
        /\ passed' = passed
    BY <1>7, <1>9 DEF Typed
  <2>2. Refuses(r, t, c)
    BY <1>8, <1>9, <2>1 DEF Refuses, Blocked, k
  <2> QED
    BY <1>1, <1>2, <1>3, <1>4, <1>5, <1>7, <1>8, <2>1, <2>2 DEF k, Typed, Answers
<1>10. CASE ~ Blocked(entry)
  <2>1. /\ req' = [req EXCEPT ![r].ask = @ \ {t}]
        /\ passed' = [passed EXCEPT ![k] = Counted(@)]
    BY <1>7, <1>10
  <2>2. /\ req' \in [Reqs -> {Idle} \cup Busy]
        /\ \A q \in Reqs \ {r} : req'[q] = req[q]
        /\ req'[r] \in Busy
        /\ req'[r].tracker = req[r].tracker
        /\ req'[r].route = req[r].route
        /\ req'[r].ask = req[r].ask \ {t}
    BY <1>1, <2>1 DEF Typed, Busy
  <2>3. /\ k \in Keys /\ passed[k] \in Counts /\ Counted(passed[k]) \in Counts
    BY <1>4, PlusOne DEF Typed, Counted, k
  <2>4. /\ passed' \in [Keys -> Counts]
        /\ passed'[k] = Counted(passed[k])
        /\ \A l \in Keys \ {k} : passed'[l] = passed[l]
    BY <2>1, <2>3 DEF Typed
  <2>5. store'[k].blockedUntil <= now
    <3>1. entry.blockedUntil \in Nat /\ now \in Nat
      BY <1>6, AdmissionAssumption DEF Typed
    <3> QED
      BY <1>8, <1>10, <3>1 DEF Blocked
  <2>6. Passes(r, t, c)
    BY <1>2, <2>2, <2>4, <2>5 DEF Passes, Counted, k
  <2> QED
    BY <1>1, <1>2, <1>3, <1>4, <1>5, <1>7, <1>8, <2>2, <2>4, <2>6 DEF k, Answers
<1> QED
  BY <1>9, <1>10

\* The invariant holds before the first request.
LEMMA InvInit == Init => Typed /\ CountersInv /\ FlowInv /\ FormsInv
<1> SUFFICES ASSUME Init PROVE Typed /\ CountersInv /\ FlowInv /\ FormsInv
  OBVIOUS
<1>0. /\ now = 0 /\ now \in 0 .. MaxTime /\ None \in Counts
      /\ \A i \in 0 .. MaxTime : None[i] = 0
  BY AdmissionAssumption DEF Init, None, Counts
<1>1. /\ \A k \in Keys : /\ store[k].hits = None /\ store[k].blockedUntil = 0
                         /\ passed[k] = None
      /\ \A r \in Reqs : req[r] = Idle
      /\ \A c \in Trackers, x \in Policies \X (0 .. MaxTime) : handled[c][x] = 0
  BY DEF Init
<1>2. Typed
  <2>1. store \in [Keys -> [hits : Counts, blockedUntil : Nat]]
    BY <1>0 DEF Init
  <2>2. passed \in [Keys -> Counts] /\ req \in [Reqs -> {Idle} \cup Busy]
    BY <1>0 DEF Init
  <2>3. handled \in [Trackers -> [Policies \X (0 .. MaxTime) -> Nat]]
    BY DEF Init
  <2> QED
    BY <1>0, <1>1, <2>1, <2>2, <2>3 DEF Typed
<1>3. ASSUME NEW S, IsFiniteSet(S), S \subseteq 0 .. MaxTime
      PROVE  SumFunctionOnSet(None, S) = 0
  <2>1. \A i \in S : None[i] \in Nat /\ None[i] = 0
    BY <1>0, <1>3
  <2>2. SumFunctionOnSet(None, S) = SumFunctionOnSet(None, {})
    BY <1>3, <2>1, SumZeros
  <2> QED
    BY <2>2, SumEmpty
<1>4. CountersInv
  <2> SUFFICES ASSUME NEW k \in Keys
               PROVE  CounterOK(None, 0, None, Ttl(k[1]), Limit(k[1]), 0)
    BY <1>0, <1>1 DEF CountersInv
  <2>1. Ttl(k[1]) \in Nat /\ Limit(k[1]) \in Nat
    BY LimitsAre DEF Keys
  <2>2. SumFunctionOnSet(None, Recent(0, Ttl(k[1]))) = 0
    BY <1>0, <1>3, <2>1, RecentIs
  <2> QED
    BY <1>0, <2>1, <2>2 DEF CounterOK
<1>5. ASSUME NEW a \in Int
      PROVE  SumFunctionOnSet(None, Since(now, a)) = 0
  BY <1>0, <1>3, SinceIs
<1>6. FlowInv
  <2>1. \A t, c : Flying(t, c) = {}
    BY <1>1 DEF Flying
  <2>2. ASSUME NEW t \in Names, NEW c \in Trackers, NEW a \in Int
        PROVE  SumFunctionOnSet(handled[c], Covers(t) \X Since(now, a)) = 0
    <3> DEFINE S == Covers(t) \X Since(now, a)
    <3>1. IsFiniteSet(S) /\ S \subseteq Policies \X (0 .. MaxTime)
      <4>1. Covers(t) \subseteq Policies /\ IsFiniteSet(Covers(t))
        BY CoversFinite DEF Covers
      <4> QED
        BY <1>0, <4>1, SinceIs, FS_Product
    <3>2. \A x \in S : handled[c][x] \in Nat /\ handled[c][x] = 0
      BY <1>1, <3>1
    <3> HIDE DEF S
    <3>3. SumFunctionOnSet(handled[c], S) = SumFunctionOnSet(handled[c], {})
      BY <3>1, <3>2, SumZeros
    <3> QED
      BY <3>3, SumEmpty DEF S
  <2>3. \A t \in Names, c \in Trackers : passed[<<t, c>>] = None
    BY <1>1 DEF Keys
  <2>4. Cardinality({}) = 0
    BY FS_EmptySet
  <2>5. \A c \in Trackers, p \in Policies, i \in 0 .. MaxTime :
            i > now => handled[c][<<p, i>>] = 0
    BY <1>1
  <2>6. ASSUME NEW t \in Names, NEW c \in Trackers, NEW a \in Int
        PROVE  /\ SumFunctionOnSet(handled[c], Covers(t) \X Since(now, a)) = 0
               /\ Cardinality(Flying(t, c)) = 0
               /\ SumFunctionOnSet(passed[<<t, c>>], Since(now, a)) = 0
    <3>1. Flying(t, c) = {} /\ passed[<<t, c>>] = None
      BY <2>1, <2>3
    <3> QED
      BY <1>5, <2>2, <2>4, <3>1
  <2>7. 0 + 0 <= 0
    OBVIOUS
  <2> QED
    BY <2>5, <2>6, <2>7 DEF FlowInv
<1>7. FormsInv
  <2>1. \A c : Between(c) = {}
    BY <1>1 DEF Between
  <2>2. \A c \in Trackers : /\ store[<<"form-day", c>>].hits = None
                            /\ passed[<<"form-minute", c>>] = None
    BY <1>1, NamesAre DEF Keys
  <2>3. Cardinality({}) = 0
    BY FS_EmptySet
  <2> QED
    BY <1>5, <2>1, <2>2, <2>3 DEF FormsInv
<1> QED
  BY <1>2, <1>4, <1>6, <1>7

\* What the arrival of a request does.
LEMMA ArriveEffect ==
    ASSUME Typed, NEW r \in Reqs, NEW ip \in Ips,
           NEW token \in Users \cup {"none", "bad"}, NEW route \in Routes,
           Arrive(r, ip, token, route)
    PROVE  /\ req[r] = Idle
           /\ req' \in [Reqs -> {Idle} \cup Busy]
           /\ req'[r].route = route /\ req'[r].ask = Asked(route)
           /\ \A q \in Reqs \ {r} : req'[q] = req[q]
           /\ UNCHANGED <<now, store, passed, handled>>
<1> DEFINE user == Identity(route, token)
           new == [pc |-> "throttle", tracker |-> TrackerOf(ip, user),
                   route |-> route, ask |-> Asked(route)]
<1>1. /\ req[r] = Idle /\ Authenticated(route, token)
      /\ req' = [req EXCEPT ![r] = new]
      /\ UNCHANGED <<now, store, passed, handled>>
  BY DEF Arrive
<1>2. user = Guest \/ user \in Users
  BY <1>1 DEF Identity, Authenticated
<1>3. TrackerOf(ip, user) \in Trackers /\ Asked(route) \in SUBSET Names
  BY <1>2 DEF TrackerOf, Trackers, Asked
<1> HIDE DEF user
<1>4. new \in Busy
  BY <1>3 DEF Busy
<1>5. new.route = route /\ new.ask = Asked(route)
  OBVIOUS
<1> HIDE DEF new
<1> QED
  BY <1>1, <1>4, <1>5 DEF Typed

\* What the handler does.
Handles(r, c, p) ==
    /\ req[r] # Idle /\ req[r] \in Busy /\ req[r].ask = {}
    /\ c = req[r].tracker /\ p = PolicyOf(req[r].route)
    /\ req' \in [Reqs -> {Idle} \cup Busy]
    /\ req'[r] = Idle
    /\ \A q \in Reqs \ {r} : req'[q] = req[q]
    /\ handled' \in [Trackers -> [Policies \X (0 .. MaxTime) -> Nat]]
    /\ \A x \in Policies \X (0 .. MaxTime) :
          handled'[c][x] = IF x = <<p, now>> THEN handled[c][x] + 1
                           ELSE handled[c][x]
    /\ \A d \in Trackers \ {c} : handled'[d] = handled[d]
    /\ UNCHANGED <<now, store, passed>>

\* It handles a request of the client for a route of the policy.
LEMMA HandleEffect ==
    ASSUME Typed, NEW r \in Reqs, Handle(r)
    PROVE  \E c \in Trackers, p \in Policies : Handles(r, c, p)
<1>1. req[r] \in Busy /\ req[r] # Idle /\ req[r].ask = {}
  BY DEF Typed, Handle
<1>2. PICK c, p : c = req[r].tracker /\ p = PolicyOf(req[r].route)
  OBVIOUS
<1>3. c \in Trackers /\ p \in Policies
  BY <1>1, <1>2 DEF Busy, PolicyOf, Policies
<1>4. /\ req' = [req EXCEPT ![r] = Idle]
      /\ handled' = [handled EXCEPT ![c][<<p, now>>] = @ + 1]
      /\ UNCHANGED <<now, store, passed>>
  BY <1>2 DEF Handle
<1>5. now \in 0 .. MaxTime /\ handled \in [Trackers -> [Policies \X (0 .. MaxTime) -> Nat]]
  BY DEF Typed
<1>6. PICK at : at = <<p, now>>
  OBVIOUS
<1>7. at \in Policies \X (0 .. MaxTime)
  BY <1>3, <1>5, <1>6
<1>8. handled' = [handled EXCEPT ![c] = [handled[c] EXCEPT ![at] = @ + 1]]
  BY <1>3, <1>4, <1>5, <1>6
<1>9. PICK D : D = Policies \X (0 .. MaxTime)
  OBVIOUS
<1>10. PICK counts : counts = [handled[c] EXCEPT ![at] = @ + 1]
  OBVIOUS
<1>11. /\ counts \in [D -> Nat]
       /\ \A x \in D : counts[x] = IF x = at THEN handled[c][x] + 1 ELSE handled[c][x]
  <2>1. handled[c] \in [D -> Nat] /\ at \in D
    BY <1>3, <1>5, <1>7, <1>9
  <2> QED
    BY <1>10, <2>1
<1>12. /\ handled' \in [Trackers -> [D -> Nat]]
       /\ handled'[c] = counts
       /\ \A d \in Trackers \ {c} : handled'[d] = handled[d]
  <2>1. handled' = [handled EXCEPT ![c] = counts] /\ handled \in [Trackers -> [D -> Nat]]
    BY <1>5, <1>8, <1>9, <1>10
  <2> QED
    BY <1>3, <1>11, <2>1
<1>13. /\ req' \in [Reqs -> {Idle} \cup Busy]
       /\ req'[r] = Idle
       /\ \A q \in Reqs \ {r} : req'[q] = req[q]
  BY <1>4 DEF Typed
<1>14. /\ handled' \in [Trackers -> [Policies \X (0 .. MaxTime) -> Nat]]
       /\ \A x \in Policies \X (0 .. MaxTime) :
             handled'[c][x] = IF x = <<p, now>> THEN handled[c][x] + 1 ELSE handled[c][x]
  BY <1>6, <1>9, <1>11, <1>12
<1>15. UNCHANGED <<now, store, passed>>
  BY <1>4
<1>16. \A d \in Trackers \ {c} : handled'[d] = handled[d]
  BY <1>12
<1> QED
  BY <1>1, <1>2, <1>3, <1>13, <1>14, <1>15, <1>16 DEF Handles

\* Every step keeps the types.
LEMMA TypedStep == Typed /\ [Next]_vars => Typed'
<1> SUFFICES ASSUME Typed, [Next]_vars PROVE Typed'
  OBVIOUS
<1>0. MaxTime \in Nat
  BY AdmissionAssumption
<1>1. ASSUME NEW r \in Reqs, NEW ip \in Ips,
             NEW token \in Users \cup {"none", "bad"}, NEW route \in Routes,
             Arrive(r, ip, token, route)
      PROVE  Typed'
  <2>1. /\ req' \in [Reqs -> {Idle} \cup Busy]
        /\ req'[r].route = route /\ req'[r].ask = Asked(route)
        /\ \A q \in Reqs \ {r} : req'[q] = req[q]
        /\ UNCHANGED <<now, store, passed, handled>>
    BY <1>1, ArriveEffect
  <2>2. \A q \in Reqs : req'[q] # Idle => req'[q].ask \subseteq Asked(req'[q].route)
    BY <2>1 DEF Typed
  <2> QED
    BY <2>1, <2>2 DEF Typed
<1>2. ASSUME NEW r \in Reqs, Throttle(r)
      PROVE  Typed'
  <2> PICK t \in Names, c \in Trackers : Answers(r, t, c)
    BY <1>2, ThrottleEffect
  <2>1. /\ req[r] # Idle
        /\ store' \in [Keys -> [hits : Counts, blockedUntil : Nat]]
        /\ passed' \in [Keys -> Counts]
        /\ req' \in [Reqs -> {Idle} \cup Busy]
        /\ \A q \in Reqs \ {r} : req'[q] = req[q]
        /\ UNCHANGED <<now, handled>>
    BY DEF Answers
  <2>2. req'[r] = Idle \/ (req'[r].route = req[r].route /\ req'[r].ask \subseteq req[r].ask)
    BY DEF Answers, Passes, Refuses
  <2>3. \A q \in Reqs : req'[q] # Idle => req'[q].ask \subseteq Asked(req'[q].route)
    BY <2>1, <2>2 DEF Typed
  <2> QED
    BY <2>1, <2>3 DEF Typed
<1>3. ASSUME NEW r \in Reqs, Handle(r)
      PROVE  Typed'
  <2>1. /\ req' \in [Reqs -> {Idle} \cup Busy]
        /\ req'[r] = Idle
        /\ \A q \in Reqs \ {r} : req'[q] = req[q]
        /\ handled' \in [Trackers -> [Policies \X (0 .. MaxTime) -> Nat]]
        /\ UNCHANGED <<now, store, passed>>
    BY <1>3, HandleEffect DEF Handles
  <2>2. \A q \in Reqs : req'[q] # Idle => req'[q].ask \subseteq Asked(req'[q].route)
    BY <2>1 DEF Typed
  <2> QED
    BY <2>1, <2>2 DEF Typed
<1>4. CASE Tick
  <2>1. now < MaxTime /\ now' = now + 1 /\ UNCHANGED <<store, req, passed, handled>>
    BY <1>4 DEF Tick
  <2>2. now' \in 0 .. MaxTime
    BY <1>0, <2>1 DEF Typed
  <2> QED
    BY <2>1, <2>2 DEF Typed
<1>5. CASE UNCHANGED vars
  BY <1>5 DEF Typed, vars
<1> QED
  BY <1>1, <1>2, <1>3, <1>4, <1>5 DEF Next

-----------------------------------------------------------------------------
(* The counters *)

\* A throttler's answer keeps its counter in order, and it refuses only who has
\* used its limit.
LEMMA AnswerInOrder ==
    ASSUME Typed, CountersInv, NEW t \in Names, NEW c \in Trackers, NEW r \in Reqs,
           store'[<<t, c>>] = Increment(store[<<t, c>>], t),
           Passes(r, t, c) \/ Refuses(r, t, c)
    PROVE  /\ CounterOK(store'[<<t, c>>].hits, store'[<<t, c>>].blockedUntil,
                        passed'[<<t, c>>], Ttl(t), Limit(t), now)
           /\ Refuses(r, t, c) =>
                 Limit(t) <= SumFunctionOnSet(passed[<<t, c>>], Recent(now, 2 * Ttl(t)))
<1> DEFINE k == <<t, c>>
           ttl == Ttl(t)
           lim == Limit(t)
           h == store[k].hits
           b == store[k].blockedUntil
           p == passed[k]
<1>1. k \in Keys /\ k[1] = t
  BY DEF Keys
<1>2. /\ h \in Counts /\ b \in Nat /\ p \in Counts
      /\ ttl \in Nat \ {0} /\ lim \in Nat /\ now \in 0 .. MaxTime /\ now \in Nat
  BY <1>1, LimitsAre, AdmissionAssumption DEF Typed
<1>3. CounterOK(h, b, p, ttl, lim, now)
  BY <1>1 DEF CountersInv
<1>4. store'[k] = Increment(store[k], t)
  OBVIOUS
<1>5. CASE b > now
  <2>1. store'[k] = store[k]
    BY <1>4, <1>5 DEF Increment
  <2>2. Refuses(r, t, c)
    BY <1>2, <1>5, <2>1 DEF Passes
  <2>3. store'[k].hits = h /\ store'[k].blockedUntil = b /\ passed'[k] = p
    BY <2>1, <2>2 DEF Refuses
  <2> HIDE DEF ttl, lim, h, b, p
  <2>4. lim <= SumFunctionOnSet(p, Recent(now, 2 * ttl))
    BY <1>2, <1>3, <1>5, BlockedUsed
  <2>5. CounterOK(store'[k].hits, store'[k].blockedUntil, passed'[k], ttl, lim, now)
    BY <1>3, <2>3
  <2> QED
    BY <2>4, <2>5 DEF k, ttl, lim, p
<1>6. CASE b <= now
  <2>1. PICK g : g = Hit(h, b, now)
    OBVIOUS
  <2>2. PICK sum : sum = SumFunctionOnSet(g, Recent(now, ttl))
    OBVIOUS
  <2>3. /\ store'[k].hits = g
        /\ store'[k].blockedUntil = IF sum > lim THEN now + ttl ELSE 0
    <3>1. ~ (b > now)
      BY <1>2, <1>6
    <3>2. Counted(IF b > 0 THEN None ELSE h) = g
      BY <2>1 DEF Counted, Hit
    <3>3. Within(g, ttl) = sum
      BY <2>2 DEF Within, Last, Recent
    <3> QED
      BY <1>4, <3>1, <3>2, <3>3 DEF Increment
  <2>4. sum \in Nat
    <3>1. g \in Counts
      BY <1>2, <2>1, PlusOne DEF Hit, None, Counts
    <3>2. \A i \in 0 .. MaxTime : g[i] \in Nat
      BY <3>1 DEF Counts
    <3>3. IsFiniteSet(Recent(now, ttl)) /\ Recent(now, ttl) \subseteq 0 .. MaxTime
      BY <1>2, RecentIs
    <3> QED
      BY <2>2, <3>2, <3>3, SumNat
  <2>5. /\ sum > lim => /\ CounterOK(g, now + ttl, p, ttl, lim, now)
                        /\ lim <= SumFunctionOnSet(p, Recent(now, 2 * ttl))
        /\ sum <= lim => CounterOK(g, 0, [p EXCEPT ![now] = @ + 1], ttl, lim, now)
    <3> HIDE DEF ttl, lim, h, b, p
    <3> QED
      BY <1>2, <1>3, <1>6, <2>1, <2>2, CounterHit
  <2>6. CASE sum > lim
    <3>1. store'[k].blockedUntil = now + ttl /\ now + ttl > now
      BY <1>2, <2>3, <2>6
    <3>2. ~ (store'[k].blockedUntil <= now)
      BY <1>2, <3>1
    <3>3. Refuses(r, t, c)
      BY <3>2 DEF Passes
    <3>4. passed'[k] = p
      BY <3>3 DEF Refuses
    <3>5. CounterOK(store'[k].hits, store'[k].blockedUntil, passed'[k], ttl, lim, now)
      BY <2>3, <2>5, <2>6, <3>1, <3>4
    <3> QED
      BY <2>5, <2>6, <3>5
  <2>7. CASE sum <= lim
    <3>1. store'[k].blockedUntil = 0
      BY <1>2, <2>3, <2>4, <2>7
    <3>2. ~ (store'[k].blockedUntil > now)
      BY <1>2, <3>1
    <3>3. Passes(r, t, c) /\ ~ Refuses(r, t, c)
      BY <3>2 DEF Refuses
    <3>4. passed'[k] = [p EXCEPT ![now] = @ + 1]
      BY <3>3 DEF Passes
    <3>5. CounterOK(store'[k].hits, store'[k].blockedUntil, passed'[k], ttl, lim, now)
      BY <2>3, <2>5, <2>7, <3>1, <3>4
    <3> QED
      BY <3>3, <3>5
  <2> QED
    BY <1>2, <2>4, <2>6, <2>7
<1> QED
  BY <1>2, <1>5, <1>6

\* Every counter stays in order.
LEMMA CountersStep == Typed /\ CountersInv /\ [Next]_vars => CountersInv'
<1> SUFFICES ASSUME Typed, CountersInv, [Next]_vars PROVE CountersInv'
  OBVIOUS
<1>1. ASSUME UNCHANGED <<now, store, passed>>
      PROVE  CountersInv'
  BY <1>1 DEF CountersInv
<1>2. ASSUME NEW r \in Reqs, Throttle(r)
      PROVE  CountersInv'
  <2> PICK t \in Names, c \in Trackers : Answers(r, t, c)
    BY <1>2, ThrottleEffect
  <2>1. /\ store'[<<t, c>>] = Increment(store[<<t, c>>], t)
        /\ \A k \in Keys \ {<<t, c>>} :
              store'[k] = store[k] /\ passed'[k] = passed[k]
        /\ Passes(r, t, c) \/ Refuses(r, t, c)
        /\ UNCHANGED <<now, handled>>
    BY DEF Answers
  <2>2. CounterOK(store'[<<t, c>>].hits, store'[<<t, c>>].blockedUntil,
                  passed'[<<t, c>>], Ttl(t), Limit(t), now)
    BY <2>1, AnswerInOrder
  <2>3. SUFFICES ASSUME NEW k \in Keys
                 PROVE  CounterOK(store'[k].hits, store'[k].blockedUntil, passed'[k],
                                  Ttl(k[1]), Limit(k[1]), now')
    BY DEF CountersInv
  <2>4. CASE k = <<t, c>>
    <3>1. k[1] = t
      BY <2>4
    <3> QED
      BY <2>1, <2>2, <2>4, <3>1
  <2>5. CASE k # <<t, c>>
    <3>1. store'[k] = store[k] /\ passed'[k] = passed[k] /\ now' = now
      BY <2>1, <2>5
    <3> QED
      BY <3>1 DEF CountersInv
  <2> QED
    BY <2>4, <2>5
<1>3. CASE Tick
  <2>1. now' = now + 1 /\ store' = store /\ passed' = passed /\ now < MaxTime
    BY <1>3 DEF Tick
  <2>2. SUFFICES ASSUME NEW k \in Keys
                 PROVE  CounterOK(store[k].hits, store[k].blockedUntil, passed[k],
                                  Ttl(k[1]), Limit(k[1]), now + 1)
    BY <2>1 DEF CountersInv
  <2>3. /\ store[k].hits \in Counts /\ store[k].blockedUntil \in Nat /\ passed[k] \in Counts
        /\ Ttl(k[1]) \in Nat \ {0} /\ Limit(k[1]) \in Nat
        /\ now \in 0 .. MaxTime /\ now + 1 \in 0 .. MaxTime
    BY <2>1, LimitsAre, AdmissionAssumption DEF Typed, Keys
  <2> QED
    BY <2>3, CounterTick DEF CountersInv
<1>4. ASSUME NEW r \in Reqs, Handle(r)
      PROVE  CountersInv'
  BY <1>1, <1>4 DEF Handle
<1>5. ASSUME NEW r \in Reqs, NEW ip \in Ips,
             NEW token \in Users \cup {"none", "bad"}, NEW route \in Routes,
             Arrive(r, ip, token, route)
      PROVE  CountersInv'
  BY <1>1, <1>5 DEF Arrive
<1>6. CASE UNCHANGED vars
  BY <1>1, <1>6 DEF vars
<1> QED
  BY <1>2, <1>3, <1>4, <1>5, <1>6 DEF Next

-----------------------------------------------------------------------------
(* What is handled has been let through *)

\* The policies of a throttler, at the instants of a span: finitely many.
LEMMA CoveredSpan ==
    ASSUME NEW t, NEW n \in 0 .. MaxTime, NEW a \in Int
    PROVE  /\ IsFiniteSet(Covers(t) \X Since(n, a))
           /\ Covers(t) \X Since(n, a) \subseteq Policies \X (0 .. MaxTime)
<1>1. Covers(t) \subseteq Policies /\ IsFiniteSet(Covers(t))
  BY CoversFinite DEF Covers
<1> QED
  BY <1>1, SinceIs, FS_Product

\* The three numbers of FlowInv.
LEMMA FlowNat ==
    ASSUME Typed, NEW t \in Names, NEW c \in Trackers, NEW a \in Int
    PROVE  /\ SumFunctionOnSet(handled[c], Covers(t) \X Since(now, a)) \in Nat
           /\ SumFunctionOnSet(passed[<<t, c>>], Since(now, a)) \in Nat
           /\ IsFiniteSet(Flying(t, c)) /\ Cardinality(Flying(t, c)) \in Nat
<1> DEFINE S == Covers(t) \X Since(now, a)
<1>1. now \in 0 .. MaxTime
  BY DEF Typed
<1>2. IsFiniteSet(S) /\ S \subseteq Policies \X (0 .. MaxTime)
  BY <1>1, CoveredSpan
<1>3. \A x \in S : handled[c][x] \in Nat
  BY <1>2 DEF Typed
<1> HIDE DEF S
<1>4. SumFunctionOnSet(handled[c], S) \in Nat
  BY <1>2, <1>3, SumNat
<1>5. \A i \in 0 .. MaxTime : passed[<<t, c>>][i] \in Nat
  BY DEF Typed, Keys, Counts
<1>6. SumFunctionOnSet(passed[<<t, c>>], Since(now, a)) \in Nat
  BY <1>1, <1>5, SinceIs, SumNat
<1>7. IsFiniteSet(Flying(t, c)) /\ Cardinality(Flying(t, c)) \in Nat
  BY AdmissionAssumption, FS_Subset, FS_CardinalityType DEF Flying
<1> QED
  BY <1>4, <1>6, <1>7 DEF S

\* When nothing is handled or let through, it is enough that no request is
\* on its way that was not before.
LEMMA FlowShrinks ==
    ASSUME Typed, FlowInv, UNCHANGED <<now, handled>>,
           \A k \in Keys : passed'[k] = passed[k],
           \A t \in Names, c \in Trackers : Flying(t, c)' \subseteq Flying(t, c)
    PROVE  FlowInv'
<1>1. \A c \in Trackers, p \in Policies, i \in 0 .. MaxTime :
          i > now' => handled'[c][<<p, i>>] = 0
  BY DEF FlowInv
<1>2. ASSUME NEW t \in Names, NEW c \in Trackers, NEW a \in Int, a <= now'
      PROVE  SumFunctionOnSet(handled'[c], Covers(t) \X Since(now', a))
               + Cardinality(Flying(t, c)')
             <= SumFunctionOnSet(passed'[<<t, c>>], Since(now', a))
  <2>1. passed'[<<t, c>>] = passed[<<t, c>>] /\ handled' = handled /\ now' = now
    BY DEF Keys
  <2>2. Cardinality(Flying(t, c)') \in Nat /\ Cardinality(Flying(t, c)') <= Cardinality(Flying(t, c))
    BY FlowNat, FS_Subset, FS_CardinalityType
  <2>3. SumFunctionOnSet(handled[c], Covers(t) \X Since(now, a)) + Cardinality(Flying(t, c))
             <= SumFunctionOnSet(passed[<<t, c>>], Since(now, a))
    BY <1>2 DEF FlowInv
  <2>4. SumFunctionOnSet(handled[c], Covers(t) \X Since(now, a)) + Cardinality(Flying(t, c)')
             <= SumFunctionOnSet(passed[<<t, c>>], Since(now, a))
    BY <2>2, <2>3, FlowNat
  <2> QED
    BY <2>1, <2>4
<1> QED
  BY <1>1, <1>2 DEF FlowInv

\* A request that arrives has passed no throttler of its route.
LEMMA FlowArrive ==
    ASSUME Typed, FlowInv, NEW r \in Reqs, NEW ip \in Ips,
           NEW token \in Users \cup {"none", "bad"}, NEW route \in Routes,
           Arrive(r, ip, token, route)
    PROVE  FlowInv'
<1>1. /\ req'[r].route = route /\ req'[r].ask = Asked(route)
      /\ \A q \in Reqs \ {r} : req'[q] = req[q]
      /\ UNCHANGED <<now, store, passed, handled>>
  BY ArriveEffect
<1>2. ASSUME NEW t \in Names, NEW c \in Trackers
      PROVE  Flying(t, c)' \subseteq Flying(t, c)
  <2>1. r \notin Flying(t, c)'
    BY <1>1 DEF Flying, Covers, Asked
  <2> QED
    BY <1>1, <2>1 DEF Flying
<1> QED
  BY <1>1, <1>2, FlowShrinks

\* A throttler that lets a request through counts it.
LEMMA FlowThrottle ==
    ASSUME Typed, FlowInv, NEW r \in Reqs, Throttle(r)
    PROVE  FlowInv'
<1> PICK t0 \in Names, c0 \in Trackers : Answers(r, t0, c0)
  BY ThrottleEffect
<1>1. /\ req[r] # Idle /\ t0 \in req[r].ask
      /\ c0 = req[r].tracker
      /\ \A k \in Keys \ {<<t0, c0>>} :
            store'[k] = store[k] /\ passed'[k] = passed[k]
      /\ \A q \in Reqs \ {r} : req'[q] = req[q]
      /\ Passes(r, t0, c0) \/ Refuses(r, t0, c0)
      /\ UNCHANGED <<now, handled>>
  BY DEF Answers
<1>2. CASE Refuses(r, t0, c0)
  <2>1. /\ req'[r] = Idle
        /\ \A k \in Keys : passed'[k] = passed[k]
    BY <1>1, <1>2 DEF Refuses
  <2>2. \A t \in Names, c \in Trackers : Flying(t, c)' \subseteq Flying(t, c)
    BY <1>1, <2>1 DEF Flying
  <2> QED
    BY <1>1, <2>1, <2>2, FlowShrinks
<1>3. CASE Passes(r, t0, c0)
  <2>1. /\ req'[r].tracker = c0 /\ req'[r].route = req[r].route
        /\ req'[r].ask = req[r].ask \ {t0}
        /\ passed'[<<t0, c0>>] = [passed[<<t0, c0>>] EXCEPT ![now] = @ + 1]
    BY <1>3 DEF Passes
  <2>2. ASSUME NEW t \in Names, NEW c \in Trackers, <<t, c>> # <<t0, c0>>
        PROVE  Flying(t, c)' \subseteq Flying(t, c)
    <3>1. r \in Flying(t, c)' => r \in Flying(t, c)
      BY <1>1, <2>1, <2>2 DEF Flying
    <3> QED
      BY <1>1, <3>1 DEF Flying
  <2>3. Flying(t0, c0)' \subseteq Flying(t0, c0) \cup {r}
    BY <1>1 DEF Flying
  <2>4. \A c \in Trackers, p \in Policies, i \in 0 .. MaxTime :
            i > now' => handled'[c][<<p, i>>] = 0
    BY <1>1 DEF FlowInv
  <2>5. ASSUME NEW t \in Names, NEW c \in Trackers, NEW a \in Int, a <= now
        PROVE  SumFunctionOnSet(handled[c], Covers(t) \X Since(now, a))
                 + Cardinality(Flying(t, c)')
               <= SumFunctionOnSet(passed'[<<t, c>>], Since(now, a))
    <3>1. PICK H : H = SumFunctionOnSet(handled[c], Covers(t) \X Since(now, a))
      OBVIOUS
    <3>2. PICK P : P = SumFunctionOnSet(passed[<<t, c>>], Since(now, a))
      OBVIOUS
    <3>3. PICK F : F = Cardinality(Flying(t, c))
      OBVIOUS
    <3>4. H \in Nat /\ P \in Nat /\ F \in Nat /\ H + F <= P
      BY <2>5, <3>1, <3>2, <3>3, FlowNat DEF FlowInv
    <3>5. CASE <<t, c>> = <<t0, c0>>
      <4>1. t = t0 /\ c = c0
        BY <3>5
      <4>2. /\ IsFiniteSet(Flying(t, c) \cup {r})
            /\ Cardinality(Flying(t, c) \cup {r}) <= F + 1
            /\ Cardinality(Flying(t, c) \cup {r}) \in Nat
        <5>1. IsFiniteSet(Flying(t, c))
          BY FlowNat
        <5>2. PICK old : old = Flying(t, c)
          OBVIOUS
        <5>3. /\ IsFiniteSet(old \cup {r})
              /\ Cardinality(old \cup {r}) = IF r \in old THEN F ELSE F + 1
          BY <3>3, <5>1, <5>2, FS_AddElement
        <5> QED
          BY <3>4, <5>2, <5>3
      <4>3. Cardinality(Flying(t, c)') \in Nat /\ Cardinality(Flying(t, c)') <= F + 1
        <5>1. /\ Cardinality(Flying(t, c)') <= Cardinality(Flying(t, c) \cup {r})
              /\ Cardinality(Flying(t, c)') \in Nat
          BY <2>3, <4>1, <4>2, FS_Subset, FS_CardinalityType
        <5> QED
          BY <3>4, <4>2, <5>1
      <4>4. SumFunctionOnSet(passed'[<<t, c>>], Since(now, a)) = P + 1
        <5>1. passed[<<t, c>>] \in Counts /\ now \in 0 .. MaxTime
          BY DEF Typed, Keys
        <5>2. /\ IsFiniteSet(Since(now, a)) /\ Since(now, a) \subseteq 0 .. MaxTime
              /\ now \in Since(now, a)
          BY <2>5, <5>1, SinceIs
        <5>3. SumFunctionOnSet([passed[<<t, c>>] EXCEPT ![now] = @ + 1], Since(now, a))
                = SumFunctionOnSet(passed[<<t, c>>], Since(now, a)) + 1
          BY <5>1, <5>2, PlusOneInSum
        <5> QED
          BY <2>1, <3>2, <4>1, <5>3
      <4>5. H + Cardinality(Flying(t, c)') <= P + 1
        BY <3>4, <4>3
      <4> QED
        BY <3>1, <4>4, <4>5
    <3>6. CASE <<t, c>> # <<t0, c0>>
      <4>1. passed'[<<t, c>>] = passed[<<t, c>>]
        BY <1>1, <3>6 DEF Keys
      <4>2. Cardinality(Flying(t, c)') \in Nat /\ Cardinality(Flying(t, c)') <= F
        BY <2>2, <3>3, <3>6, FlowNat, FS_Subset, FS_CardinalityType
      <4>3. H + Cardinality(Flying(t, c)') <= P
        BY <3>4, <4>2
      <4> QED
        BY <3>1, <3>2, <4>1, <4>3
    <3> QED
      BY <3>5, <3>6
  <2>6. now' = now /\ handled' = handled
    BY <1>1
  <2> QED
    BY <2>4, <2>5, <2>6 DEF FlowInv
<1> QED
  BY <1>1, <1>2, <1>3

\* A request that is handled has passed every throttler of its route.
LEMMA FlowHandle ==
    ASSUME Typed, FlowInv, NEW r \in Reqs, Handle(r)
    PROVE  FlowInv'
<1> PICK c0 \in Trackers, p0 \in Policies : Handles(r, c0, p0)
  BY HandleEffect
<1>1. /\ req[r] # Idle /\ req[r].ask = {}
      /\ c0 = req[r].tracker /\ p0 = PolicyOf(req[r].route)
      /\ req'[r] = Idle
      /\ \A q \in Reqs \ {r} : req'[q] = req[q]
      /\ \A d \in Trackers \ {c0} : handled'[d] = handled[d]
      /\ UNCHANGED <<now, store, passed>>
  BY DEF Handles
<1>2. \A x \in Policies \X (0 .. MaxTime) :
          handled'[c0][x] = IF x = <<p0, now>> THEN handled[c0][x] + 1 ELSE handled[c0][x]
  BY DEF Handles
<1>3. now \in 0 .. MaxTime /\ now \in Nat
  BY AdmissionAssumption DEF Typed
<1>4. ASSUME NEW c \in Trackers, NEW p \in Policies, NEW i \in 0 .. MaxTime, i > now
      PROVE  handled'[c][<<p, i>>] = 0
  <2>1. handled[c][<<p, i>>] = 0
    BY <1>4 DEF FlowInv
  <2>2. <<p, i>> # <<p0, now>> /\ <<p, i>> \in Policies \X (0 .. MaxTime)
    BY <1>3, <1>4
  <2> QED
    BY <1>1, <1>2, <2>1, <2>2
<1>5. \A t \in Names, c \in Trackers : Flying(t, c)' \subseteq Flying(t, c) \ {r}
  BY <1>1 DEF Flying
<1>6. ASSUME NEW t \in Names, NEW c \in Trackers, NEW a \in Int, a <= now
      PROVE  SumFunctionOnSet(handled'[c], Covers(t) \X Since(now, a))
               + Cardinality(Flying(t, c)')
             <= SumFunctionOnSet(passed[<<t, c>>], Since(now, a))
  <2>1. PICK S : S = Covers(t) \X Since(now, a)
    OBVIOUS
  <2>2. PICK P : P = SumFunctionOnSet(passed[<<t, c>>], Since(now, a))
    OBVIOUS
  <2>3. PICK old : old = Flying(t, c)
    OBVIOUS
  <2>4. PICK new : new = Flying(t, c)'
    OBVIOUS
  <2>5. PICK H : H = SumFunctionOnSet(handled[c], S)
    OBVIOUS
  <2>6. /\ H \in Nat /\ P \in Nat /\ IsFiniteSet(old) /\ Cardinality(old) \in Nat
        /\ H + Cardinality(old) <= P
    BY <1>6, <2>1, <2>2, <2>3, <2>5, FlowNat DEF FlowInv
  <2>7. IsFiniteSet(S) /\ S \subseteq Policies \X (0 .. MaxTime)
    BY <1>3, <2>1, CoveredSpan
  <2>8. \A x \in S : handled[c][x] \in Nat
    BY <2>7 DEF Typed
  <2>9. new \subseteq old \ {r}
    BY <1>5, <2>3, <2>4
  <2>10. CASE c = c0 /\ p0 \in Covers(t)
    <3>1. r \in old
      BY <1>1, <2>3, <2>10 DEF Flying
    <3>2. IsFiniteSet(old \ {r}) /\ Cardinality(old \ {r}) = Cardinality(old) - 1
      BY <2>6, <3>1, FS_RemoveElement
    <3>3. Cardinality(new) \in Nat /\ Cardinality(new) <= Cardinality(old) - 1
      BY <2>9, <3>2, FS_Subset, FS_CardinalityType
    <3>4. <<p0, now>> \in S
      BY <1>3, <1>6, <2>1, <2>10, SinceIs
    <3>5. \A x \in S : handled'[c][x] = IF x = <<p0, now>> THEN handled[c][x] + 1
                                          ELSE handled[c][x]
      BY <1>2, <2>7, <2>10
    <3>6. SumFunctionOnSet(handled'[c], S) = H + 1
      BY <2>5, <2>7, <2>8, <3>4, <3>5, SumPlusOne
    <3>7. H + 1 + Cardinality(new) <= P
      BY <2>6, <3>3
    <3> QED
      BY <2>1, <2>2, <2>4, <3>6, <3>7
  <2>11. CASE c # c0 \/ p0 \notin Covers(t)
    <3>1. \A x \in S : handled'[c][x] = handled[c][x]
      <4>1. CASE c # c0
        BY <1>1, <4>1
      <4>2. CASE c = c0 /\ p0 \notin Covers(t)
        <5>1. <<p0, now>> \notin S
          BY <2>1, <4>2
        <5> QED
          BY <1>2, <2>7, <4>2, <5>1
      <4> QED
        BY <2>11, <4>1, <4>2
    <3>2. SumFunctionOnSet(handled'[c], S) = H
      BY <2>5, <2>7, <2>8, <3>1, SumSame
    <3>3. Cardinality(new) \in Nat /\ Cardinality(new) <= Cardinality(old)
      BY <2>6, <2>9, FS_Subset, FS_CardinalityType
    <3>4. H + Cardinality(new) <= P
      BY <2>6, <3>3
    <3> QED
      BY <2>1, <2>2, <2>4, <3>2, <3>4
  <2> QED
    BY <2>10, <2>11
<1>7. now' = now /\ passed' = passed
  BY <1>1
<1> QED
  BY <1>4, <1>6, <1>7 DEF FlowInv

\* The clock moves only when no request is on its way.
LEMMA FlowTick ==
    ASSUME Typed, FlowInv, Tick
    PROVE  FlowInv'
<1>1. /\ now' = now + 1 /\ handled' = handled /\ passed' = passed
      /\ now \in 0 .. MaxTime /\ now + 1 \in 0 .. MaxTime
      /\ now \in Nat /\ MaxTime \in Nat
      /\ \A r \in Reqs : req'[r] = Idle
  BY AdmissionAssumption DEF Tick, Typed
<1>2. ASSUME NEW c \in Trackers, NEW p \in Policies, NEW i \in 0 .. MaxTime, i > now'
      PROVE  handled'[c][<<p, i>>] = 0
  <2>1. i > now
    BY <1>1, <1>2
  <2> QED
    BY <1>1, <2>1 DEF FlowInv
<1>3. ASSUME NEW t \in Names, NEW c \in Trackers
      PROVE  Cardinality(Flying(t, c)') = 0
  <2>1. Flying(t, c)' = {}
    BY <1>1 DEF Flying
  <2> QED
    BY <2>1, FS_EmptySet
<1>4. ASSUME NEW t \in Names, NEW c \in Trackers, NEW a \in Int, a <= now + 1
      PROVE  SumFunctionOnSet(handled[c], Covers(t) \X Since(now + 1, a))
             <= SumFunctionOnSet(passed[<<t, c>>], Since(now + 1, a))
  <2>1. PICK m : m = now + 1
    OBVIOUS
  <2>2. PICK S : S = Covers(t) \X Since(now, a)
    OBVIOUS
  <2>3. PICK T : T = Covers(t) \X Since(m, a)
    OBVIOUS
  <2>4. /\ IsFiniteSet(T) /\ T \subseteq Policies \X (0 .. MaxTime) /\ S \subseteq T
        /\ IsFiniteSet(S)
    <3>1. Since(now, a) \subseteq Since(m, a)
      BY <1>1, <2>1 DEF Since
    <3> QED
      BY <1>1, <2>1, <2>2, <2>3, <3>1, CoveredSpan
  <2>5. \A x \in T : handled[c][x] \in Nat
    BY <2>4 DEF Typed
  <2>6. ASSUME NEW x \in T \ S
        PROVE  handled[c][x] = 0
    <3>1. PICK p \in Covers(t), i \in Since(m, a) : x = <<p, i>>
      BY <2>3
    <3>2. p \in Policies /\ i \in 0 .. MaxTime
      BY <2>4, <2>6, <3>1
    <3>3. i \notin Since(now, a)
      BY <2>2, <2>6, <3>1
    <3>4. i > now
      BY <1>1, <2>1, <3>2, <3>3 DEF Since
    <3> QED
      BY <3>1, <3>2, <3>4 DEF FlowInv
  <2>7. SumFunctionOnSet(handled[c], T) = SumFunctionOnSet(handled[c], S)
    BY <2>4, <2>5, <2>6, SumZeros
  <2>8. \A i \in 0 .. MaxTime : passed[<<t, c>>][i] \in Nat
    BY DEF Typed, Keys, Counts
  <2>9. SumFunctionOnSet(passed[<<t, c>>], Since(m, a)) \in Nat
    <3>1. IsFiniteSet(Since(m, a)) /\ Since(m, a) \subseteq 0 .. MaxTime
      BY <1>1, <2>1, SinceIs
    <3> QED
      BY <2>8, <3>1, SumNat
  <2>10. CASE a <= now
    <3>1. /\ SumFunctionOnSet(handled[c], S) + Cardinality(Flying(t, c))
               <= SumFunctionOnSet(passed[<<t, c>>], Since(now, a))
          /\ SumFunctionOnSet(handled[c], S) \in Nat
          /\ SumFunctionOnSet(passed[<<t, c>>], Since(now, a)) \in Nat
          /\ Cardinality(Flying(t, c)) \in Nat
      BY <2>2, <2>10, FlowNat DEF FlowInv
    <3>2. SumFunctionOnSet(passed[<<t, c>>], Since(now, a))
            <= SumFunctionOnSet(passed[<<t, c>>], Since(m, a))
      <4>1. /\ Since(now, a) \subseteq Since(m, a)
            /\ IsFiniteSet(Since(m, a)) /\ Since(m, a) \subseteq 0 .. MaxTime
        BY <1>1, <2>1, SinceIs DEF Since
      <4> QED
        BY <2>8, <4>1, SumMono
    <3>3. SumFunctionOnSet(handled[c], S) <= SumFunctionOnSet(passed[<<t, c>>], Since(m, a))
      BY <2>9, <3>1, <3>2
    <3> QED
      BY <2>1, <2>3, <2>7, <3>3
  <2>11. CASE a > now
    <3>1. Since(now, a) = {}
      BY <1>1, <2>11 DEF Since
    <3>2. S = {}
      BY <2>2, <3>1
    <3>3. SumFunctionOnSet(handled[c], S) = 0
      BY <3>2, SumEmpty
    <3>4. SumFunctionOnSet(handled[c], T) <= SumFunctionOnSet(passed[<<t, c>>], Since(m, a))
      BY <2>7, <2>9, <3>3
    <3> QED
      BY <2>1, <2>3, <3>4
  <2> QED
    BY <1>1, <2>10, <2>11
<1>5. ASSUME NEW t \in Names, NEW c \in Trackers, NEW a \in Int, a <= now'
      PROVE  SumFunctionOnSet(handled'[c], Covers(t) \X Since(now', a))
               + Cardinality(Flying(t, c)')
             <= SumFunctionOnSet(passed'[<<t, c>>], Since(now', a))
  <2>1. SumFunctionOnSet(handled[c], Covers(t) \X Since(now + 1, a)) \in Nat
    <3>1. /\ IsFiniteSet(Covers(t) \X Since(now + 1, a))
          /\ Covers(t) \X Since(now + 1, a) \subseteq Policies \X (0 .. MaxTime)
      BY <1>1, CoveredSpan
    <3>2. \A x \in Covers(t) \X Since(now + 1, a) : handled[c][x] \in Nat
      BY <3>1 DEF Typed
    <3> QED
      BY <3>1, <3>2, SumNat
  <2>2. PICK H : H = SumFunctionOnSet(handled[c], Covers(t) \X Since(now + 1, a))
    OBVIOUS
  <2>3. H + 0 <= SumFunctionOnSet(passed[<<t, c>>], Since(now + 1, a))
    BY <1>1, <1>4, <1>5, <2>1, <2>2
  <2> QED
    BY <1>1, <1>3, <2>2, <2>3
<1> QED
  BY <1>2, <1>5 DEF FlowInv

\* Every step keeps what is handled within what is let through.
LEMMA FlowStep == Typed /\ FlowInv /\ [Next]_vars => FlowInv'
<1> SUFFICES ASSUME Typed, FlowInv, [Next]_vars PROVE FlowInv'
  OBVIOUS
<1>1. CASE UNCHANGED vars
  BY <1>1 DEF vars, FlowInv, Flying
<1> QED
  BY <1>1, FlowArrive, FlowThrottle, FlowHandle, FlowTick DEF Next

-----------------------------------------------------------------------------
(* The day's counter of the forms *)

\* The numbers of FormsInv.
LEMMA FormsNat ==
    ASSUME Typed, NEW c \in Trackers
    PROVE  /\ \A i \in 0 .. MaxTime : /\ store[<<"form-day", c>>].hits[i] \in Nat
                                      /\ passed[<<"form-minute", c>>][i] \in Nat
           /\ \A n \in 0 .. MaxTime, a \in Int :
                /\ SumFunctionOnSet(store[<<"form-day", c>>].hits, Since(n, a)) \in Nat
                /\ SumFunctionOnSet(passed[<<"form-minute", c>>], Since(n, a)) \in Nat
           /\ IsFiniteSet(Between(c)) /\ Cardinality(Between(c)) \in Nat
<1>1. <<"form-day", c>> \in Keys /\ <<"form-minute", c>> \in Keys
  BY NamesAre DEF Keys
<1>2. \A i \in 0 .. MaxTime : /\ store[<<"form-day", c>>].hits[i] \in Nat
                              /\ passed[<<"form-minute", c>>][i] \in Nat
  BY <1>1 DEF Typed, Counts
<1>3. ASSUME NEW n \in 0 .. MaxTime, NEW a \in Int
      PROVE  /\ SumFunctionOnSet(store[<<"form-day", c>>].hits, Since(n, a)) \in Nat
             /\ SumFunctionOnSet(passed[<<"form-minute", c>>], Since(n, a)) \in Nat
  BY <1>2, SinceIs, SumNat
<1>4. IsFiniteSet(Between(c)) /\ Cardinality(Between(c)) \in Nat
  BY AdmissionAssumption, FS_Subset, FS_CardinalityType DEF Between
<1> QED
  BY <1>2, <1>3, <1>4

\* When the two counters of the forms stay, it is enough that no form is
\* between them that was not before.
LEMMA FormsShrink ==
    ASSUME Typed, FormsInv, UNCHANGED <<now, store, passed>>,
           \A c \in Trackers : Between(c)' \subseteq Between(c)
    PROVE  FormsInv'
<1>1. ASSUME NEW c \in Trackers, NEW a \in Int, a <= now
      PROVE  SumFunctionOnSet(store[<<"form-day", c>>].hits, Since(now, a))
               + Cardinality(Between(c)')
             <= SumFunctionOnSet(passed[<<"form-minute", c>>], Since(now, a))
  <2>1. now \in 0 .. MaxTime
    BY DEF Typed
  <2>2. PICK H : H = SumFunctionOnSet(store[<<"form-day", c>>].hits, Since(now, a))
    OBVIOUS
  <2>3. PICK P : P = SumFunctionOnSet(passed[<<"form-minute", c>>], Since(now, a))
    OBVIOUS
  <2>4. PICK old : old = Between(c)
    OBVIOUS
  <2>5. /\ H \in Nat /\ P \in Nat /\ IsFiniteSet(old) /\ Cardinality(old) \in Nat
        /\ H + Cardinality(old) <= P
    BY <1>1, <2>1, <2>2, <2>3, <2>4, FormsNat DEF FormsInv
  <2>6. Cardinality(Between(c)') \in Nat /\ Cardinality(Between(c)') <= Cardinality(old)
    BY <2>4, <2>5, FS_Subset, FS_CardinalityType
  <2>7. H + Cardinality(Between(c)') <= P
    BY <2>5, <2>6
  <2> QED
    BY <2>2, <2>3, <2>7
<1> QED
  BY <1>1 DEF FormsInv

\* A form that arrives has both its limits before it.
LEMMA FormsArrive ==
    ASSUME Typed, FormsInv, NEW r \in Reqs, NEW ip \in Ips,
           NEW token \in Users \cup {"none", "bad"}, NEW route \in Routes,
           Arrive(r, ip, token, route)
    PROVE  FormsInv'
<1>1. /\ req'[r].route = route /\ req'[r].ask = Asked(route)
      /\ \A q \in Reqs \ {r} : req'[q] = req[q]
      /\ UNCHANGED <<now, store, passed, handled>>
  BY ArriveEffect
<1>2. ASSUME NEW c \in Trackers
      PROVE  Between(c)' \subseteq Between(c)
  <2>1. "form-minute" \in Names /\ Policy("form-minute") = "form"
    BY NamesAre DEF Policy
  <2>2. PolicyOf(route) = "form" => "form-minute" \in Asked(route)
    BY <2>1 DEF Asked
  <2>3. r \notin Between(c)'
    BY <1>1, <2>2 DEF Between
  <2> QED
    BY <1>1, <2>3 DEF Between
<1> QED
  BY <1>1, <1>2, FormsShrink

\* A hit adds one at most to what a counter has of any span.
LEMMA HitAddsOne ==
    ASSUME NEW h \in Counts, NEW b \in Nat, NEW n \in 0 .. MaxTime, NEW entry, NEW t,
           n = now, entry = Increment([hits |-> h, blockedUntil |-> b], t),
           NEW S, IsFiniteSet(S), S \subseteq 0 .. MaxTime, n \in S
    PROVE  SumFunctionOnSet(entry.hits, S) <= SumFunctionOnSet(h, S) + 1
<1>1. /\ \A i \in S : h[i] \in Nat
      /\ SumFunctionOnSet(h, S) \in Nat
  BY SumNat DEF Counts
<1>2. PICK base : base = IF b > 0 THEN None ELSE h
  OBVIOUS
<1>3. entry.hits = h \/ entry.hits = [base EXCEPT ![n] = @ + 1]
  BY <1>2 DEF Increment, Counted
<1>4. base \in Counts /\ \A i \in S : base[i] \in Nat /\ base[i] <= h[i]
  <2>1. CASE b > 0
    BY <1>1, <1>2, <2>1 DEF None, Counts
  <2>2. CASE ~ (b > 0)
    BY <1>1, <1>2, <2>2
  <2> QED
    BY <2>1, <2>2
<1>5. SumFunctionOnSet(base, S) \in Nat /\ SumFunctionOnSet(base, S) <= SumFunctionOnSet(h, S)
  BY <1>1, <1>4, SumNat, SumMono
<1>6. SumFunctionOnSet([base EXCEPT ![n] = @ + 1], S) = SumFunctionOnSet(base, S) + 1
  BY <1>4, PlusOneInSum
<1>7. CASE entry.hits = h
  BY <1>1, <1>7
<1>8. CASE entry.hits = [base EXCEPT ![n] = @ + 1]
  BY <1>1, <1>5, <1>6, <1>8
<1> QED
  BY <1>3, <1>7, <1>8

\* The minute's limit lets a form through before the day's counts it.
LEMMA FormsThrottle ==
    ASSUME Typed, FormsInv, NEW r \in Reqs, Throttle(r)
    PROVE  FormsInv'
<1> PICK t \in Names, c0 \in Trackers : Answers(r, t, c0)
  BY ThrottleEffect
<1>1. /\ req[r] # Idle /\ t \in req[r].ask
      /\ t = "form-day" => "form-minute" \notin req[r].ask
      /\ c0 = req[r].tracker
      /\ store'[<<t, c0>>] = Increment(store[<<t, c0>>], t)
      /\ \A k \in Keys \ {<<t, c0>>} :
            store'[k] = store[k] /\ passed'[k] = passed[k]
      /\ \A q \in Reqs \ {r} : req'[q] = req[q]
      /\ UNCHANGED <<now, handled>>
  BY DEF Answers
<1>2. \/ /\ req'[r] = Idle
         /\ passed'[<<t, c0>>] = passed[<<t, c0>>]
      \/ /\ req'[r].tracker = c0 /\ req'[r].route = req[r].route
         /\ req'[r].ask = req[r].ask \ {t}
         /\ passed'[<<t, c0>>] = [passed[<<t, c0>>] EXCEPT ![now] = @ + 1]
  BY DEF Answers, Passes, Refuses
<1>3. now \in 0 .. MaxTime
  BY DEF Typed
<1>4. ASSUME NEW c \in Trackers, NEW a \in Int, a <= now
      PROVE  SumFunctionOnSet(store'[<<"form-day", c>>].hits, Since(now, a))
               + Cardinality(Between(c)')
             <= SumFunctionOnSet(passed'[<<"form-minute", c>>], Since(now, a))
  <2>1. PICK S : S = Since(now, a)
    OBVIOUS
  <2>2. IsFiniteSet(S) /\ S \subseteq 0 .. MaxTime /\ now \in S
    BY <1>3, <1>4, <2>1, SinceIs
  <2>3. PICK H : H = SumFunctionOnSet(store[<<"form-day", c>>].hits, S)
    OBVIOUS
  <2>4. PICK P : P = SumFunctionOnSet(passed[<<"form-minute", c>>], S)
    OBVIOUS
  <2>5. PICK old : old = Between(c)
    OBVIOUS
  <2>6. PICK new : new = Between(c)'
    OBVIOUS
  <2>7. /\ H \in Nat /\ P \in Nat /\ IsFiniteSet(old) /\ Cardinality(old) \in Nat
        /\ H + Cardinality(old) <= P
    BY <1>3, <1>4, <2>1, <2>3, <2>4, <2>5, FormsNat DEF FormsInv
  <2>8. <<"form-day", c>> \in Keys /\ <<"form-minute", c>> \in Keys
    BY NamesAre DEF Keys
  <2>9. \A q \in Reqs \ {r} : q \in new => q \in old
    BY <1>1, <2>5, <2>6 DEF Between
  <2>10. CASE c = c0 /\ t = "form-minute"
    <3>1. store'[<<"form-day", c>>] = store[<<"form-day", c>>]
      BY <1>1, <2>8, <2>10
    <3>2. CASE req'[r] = Idle /\ passed'[<<t, c0>>] = passed[<<t, c0>>]
      <4>1. r \notin new
        BY <2>6, <3>2 DEF Between
      <4>2. new \subseteq old
        BY <2>6, <2>9, <4>1 DEF Between
      <4>3. Cardinality(new) \in Nat /\ Cardinality(new) <= Cardinality(old)
        BY <2>7, <4>2, FS_Subset, FS_CardinalityType
      <4>4. H + Cardinality(new) <= P
        BY <2>7, <4>3
      <4> QED
        BY <2>1, <2>3, <2>4, <2>6, <2>10, <3>1, <3>2, <4>4
    <3>3. CASE passed'[<<t, c0>>] = [passed[<<t, c0>>] EXCEPT ![now] = @ + 1]
      <4>1. new \subseteq old \cup {r}
        BY <2>6, <2>9 DEF Between
      <4>2. /\ IsFiniteSet(old \cup {r})
            /\ Cardinality(old \cup {r}) = IF r \in old THEN Cardinality(old)
                                            ELSE Cardinality(old) + 1
        BY <2>7, FS_AddElement
      <4>3. Cardinality(new) \in Nat /\ Cardinality(new) <= Cardinality(old) + 1
        <5>1. Cardinality(new) \in Nat /\ Cardinality(new) <= Cardinality(old \cup {r})
          BY <4>1, <4>2, FS_Subset, FS_CardinalityType
        <5> QED
          BY <2>7, <4>2, <5>1
      <4>4. passed[<<"form-minute", c>>] \in Counts
        BY <2>8 DEF Typed
      <4>5. SumFunctionOnSet([passed[<<"form-minute", c>>] EXCEPT ![now] = @ + 1], S) = P + 1
        BY <1>3, <2>2, <2>4, <4>4, PlusOneInSum
      <4>6. H + Cardinality(new) <= P + 1
        BY <2>7, <4>3
      <4> QED
        BY <2>1, <2>3, <2>6, <2>10, <3>1, <3>3, <4>5, <4>6
    <3> QED
      BY <1>2, <3>2, <3>3
  <2>11. CASE c = c0 /\ t = "form-day"
    <3>1. passed'[<<"form-minute", c>>] = passed[<<"form-minute", c>>]
      BY <1>1, <2>8, <2>11
    <3>2. PolicyOf(req[r].route) = "form"
      <4>1. t \in Asked(req[r].route)
        BY <1>1 DEF Typed
      <4>2. Policy(t) = "form"
        BY <2>11 DEF Policy
      <4> QED
        BY <4>1, <4>2 DEF Asked
    <3>3. r \in old
      BY <1>1, <2>5, <2>11, <3>2 DEF Between
    <3>4. r \notin new
      BY <1>2, <2>6, <2>11 DEF Between
    <3>5. new \subseteq old \ {r}
      BY <2>6, <2>9, <3>4 DEF Between
    <3>6. IsFiniteSet(old \ {r}) /\ Cardinality(old \ {r}) = Cardinality(old) - 1
      BY <2>7, <3>3, FS_RemoveElement
    <3>7. Cardinality(new) \in Nat /\ Cardinality(new) <= Cardinality(old) - 1
      BY <3>5, <3>6, FS_Subset, FS_CardinalityType
    <3>8. PICK h, b : h = store[<<"form-day", c>>].hits /\ b = store[<<"form-day", c>>].blockedUntil
      OBVIOUS
    <3>9. h \in Counts /\ b \in Nat /\ store[<<"form-day", c>>] = [hits |-> h, blockedUntil |-> b]
      BY <2>8, <3>8 DEF Typed
    <3>10. PICK entry : entry = store'[<<"form-day", c>>]
      OBVIOUS
    <3>11. entry = Increment([hits |-> h, blockedUntil |-> b], t)
      BY <1>1, <2>11, <3>9, <3>10
    <3>12. SumFunctionOnSet(entry.hits, S) <= SumFunctionOnSet(h, S) + 1
      BY <1>3, <2>2, <3>9, <3>11, HitAddsOne
    <3>13. SumFunctionOnSet(entry.hits, S) \in Nat
      <4>1. store' \in [Keys -> [hits : Counts, blockedUntil : Nat]]
        BY DEF Answers
      <4>2. entry.hits \in Counts
        BY <2>8, <3>10, <4>1
      <4>3. \A i \in S : entry.hits[i] \in Nat
        BY <2>2, <4>2 DEF Counts
      <4> QED
        BY <2>2, <4>3, SumNat
    <3>14. SumFunctionOnSet(entry.hits, S) + Cardinality(new) <= P
      <4>1. H = SumFunctionOnSet(h, S)
        BY <2>3, <3>8
      <4> QED
        BY <2>7, <3>7, <3>12, <3>13, <4>1
    <3> QED
      BY <2>1, <2>4, <2>6, <3>1, <3>10, <3>14
  <2>12. CASE c # c0 \/ t \notin {"form-minute", "form-day"}
    <3>1. /\ store'[<<"form-day", c>>] = store[<<"form-day", c>>]
          /\ passed'[<<"form-minute", c>>] = passed[<<"form-minute", c>>]
      <4>1. <<"form-day", c>> # <<t, c0>> /\ <<"form-minute", c>> # <<t, c0>>
        BY <2>12
      <4> QED
        BY <1>1, <2>8, <4>1
    <3>2. r \in new => r \in old
      BY <1>1, <1>2, <2>5, <2>6, <2>12 DEF Between
    <3>3. new \subseteq old
      BY <2>6, <2>9, <3>2 DEF Between
    <3>4. Cardinality(new) \in Nat /\ Cardinality(new) <= Cardinality(old)
      BY <2>7, <3>3, FS_Subset, FS_CardinalityType
    <3>5. H + Cardinality(new) <= P
      BY <2>7, <3>4
    <3> QED
      BY <2>1, <2>3, <2>4, <2>6, <3>1, <3>5
  <2> QED
    BY <2>10, <2>11, <2>12
<1>5. now' = now
  BY <1>1
<1> QED
  BY <1>4, <1>5 DEF FormsInv

\* The next instant has neither hits nor forms.
LEMMA FormsTick ==
    ASSUME Typed, CountersInv, FormsInv, Tick
    PROVE  FormsInv'
<1>1. /\ now' = now + 1 /\ store' = store /\ passed' = passed
      /\ now \in 0 .. MaxTime /\ now + 1 \in 0 .. MaxTime
      /\ now \in Nat /\ MaxTime \in Nat
      /\ \A r \in Reqs : req'[r] = Idle
  BY AdmissionAssumption DEF Tick, Typed
<1>2. ASSUME NEW c \in Trackers
      PROVE  Cardinality(Between(c)') = 0
  <2>1. Between(c)' = {}
    BY <1>1 DEF Between
  <2> QED
    BY <2>1, FS_EmptySet
<1>3. ASSUME NEW c \in Trackers, NEW a \in Int, a <= now + 1
      PROVE  SumFunctionOnSet(store[<<"form-day", c>>].hits, Since(now + 1, a)) + 0
             <= SumFunctionOnSet(passed[<<"form-minute", c>>], Since(now + 1, a))
  <2>1. PICK m : m = now + 1
    OBVIOUS
  <2>2. PICK h : h = store[<<"form-day", c>>].hits
    OBVIOUS
  <2>3. PICK p : p = passed[<<"form-minute", c>>]
    OBVIOUS
  <2>4. PICK S : S = Since(now, a)
    OBVIOUS
  <2>5. PICK T : T = Since(m, a)
    OBVIOUS
  <2>6. /\ IsFiniteSet(T) /\ T \subseteq 0 .. MaxTime
        /\ S \subseteq T /\ \A i \in T \ S : i > now
    BY <1>1, <2>1, <2>4, <2>5, SinceIs DEF Since
  <2>7. \A i \in T : h[i] \in Nat /\ p[i] \in Nat
    BY <2>2, <2>3, <2>6, FormsNat
  <2>8. \A i \in T \ S : h[i] = 0
    <3>1. <<"form-day", c>> \in Keys
      BY NamesAre DEF Keys
    <3> QED
      BY <2>2, <2>6, <3>1 DEF CountersInv, CounterOK
  <2>9. SumFunctionOnSet(h, T) = SumFunctionOnSet(h, S)
    BY <2>6, <2>7, <2>8, SumZeros
  <2>10. SumFunctionOnSet(h, T) \in Nat /\ SumFunctionOnSet(p, T) \in Nat
    BY <2>6, <2>7, SumNat
  <2>11. CASE a <= now
    <3>1. /\ SumFunctionOnSet(h, S) + Cardinality(Between(c)) <= SumFunctionOnSet(p, S)
          /\ SumFunctionOnSet(p, S) \in Nat
          /\ Cardinality(Between(c)) \in Nat
      BY <1>1, <2>2, <2>3, <2>4, <2>11, FormsNat DEF FormsInv
    <3>2. SumFunctionOnSet(p, S) <= SumFunctionOnSet(p, T)
      <4>1. \A i \in S : p[i] \in Nat /\ p[i] <= p[i]
        BY <2>6, <2>7
      <4>2. \A i \in T : p[i] \in Nat
        BY <2>7
      <4> QED
        BY <2>6, <4>1, <4>2, SumMono
    <3>3. SumFunctionOnSet(h, T) + 0 <= SumFunctionOnSet(p, T)
      BY <2>9, <2>10, <3>1, <3>2
    <3> QED
      BY <2>1, <2>2, <2>3, <2>5, <3>3
  <2>12. CASE a > now
    <3>1. S = {}
      BY <1>1, <2>4, <2>12 DEF Since
    <3>2. SumFunctionOnSet(h, S) = 0
      BY <3>1, SumEmpty
    <3>3. SumFunctionOnSet(h, T) + 0 <= SumFunctionOnSet(p, T)
      BY <2>9, <2>10, <3>2
    <3> QED
      BY <2>1, <2>2, <2>3, <2>5, <3>3
  <2> QED
    BY <1>1, <2>11, <2>12
<1> QED
  BY <1>1, <1>2, <1>3 DEF FormsInv

\* Every step keeps the day's counter within what the minute's lets through.
LEMMA FormsStep == Typed /\ CountersInv /\ FormsInv /\ [Next]_vars => FormsInv'
<1> SUFFICES ASSUME Typed, CountersInv, FormsInv, [Next]_vars PROVE FormsInv'
  OBVIOUS
<1>1. ASSUME NEW r \in Reqs, Handle(r)
      PROVE  FormsInv'
  <2>1. /\ req'[r] = Idle
        /\ \A q \in Reqs \ {r} : req'[q] = req[q]
        /\ UNCHANGED <<now, store, passed>>
    BY <1>1, HandleEffect DEF Handles
  <2>2. \A c \in Trackers : Between(c)' \subseteq Between(c)
    BY <2>1 DEF Between
  <2> QED
    BY <2>1, <2>2, FormsShrink
<1>2. CASE UNCHANGED vars
  BY <1>2 DEF vars, FormsInv, Between
<1> QED
  BY <1>1, <1>2, FormsArrive, FormsThrottle, FormsTick DEF Next

-----------------------------------------------------------------------------
(* The theorems *)

Inv == Typed /\ CountersInv /\ FlowInv /\ FormsInv

\* The inductive invariant holds in every state.
THEOREM InvHolds == Spec => []Inv
<1>1. Init => Inv
  BY InvInit DEF Inv
<1>2. Inv /\ [Next]_vars => Inv'
  BY TypedStep, CountersStep, FlowStep, FormsStep DEF Inv
<1> QED
  BY <1>1, <1>2, PTL DEF Spec

\* The two ways to write the last `span` ticks.
LEMMA LastIs ==
    ASSUME Typed, NEW span \in Nat
    PROVE  /\ Last(span) = Recent(now, span)
           /\ Last(span) = Since(now, now - span + 1)
           /\ now - span + 1 \in Int
           /\ span > 0 => now - span + 1 <= now
<1>1. now \in Nat
  BY AdmissionAssumption DEF Typed
<1>2. Last(span) = Recent(now, span)
  BY DEF Last, Recent
<1>3. Last(span) = Since(now, now - span + 1)
  BY <1>1 DEF Last, Since
<1> QED
  BY <1>1, <1>2, <1>3

\* The variables have their types, at every limit and ttl; no counter goes more
\* than one above its limit, and no block reaches further ahead than a ttl
\* (ThrottlerStorageService).
THEOREM TypeCorrect == Spec => []TypeOK
<1>1. ASSUME Inv
      PROVE  TypeOK
  <2>1. Typed /\ CountersInv
    BY <1>1 DEF Inv
  <2>2. ASSUME NEW k \in Keys
        PROVE  /\ Within(store[k].hits, Ttl(k[1])) <= Limit(k[1]) + 1
               /\ store[k].blockedUntil <= now + Ttl(k[1])
    <3>1. Ttl(k[1]) \in Nat \ {0} /\ Limit(k[1]) \in Nat
      BY LimitsAre DEF Keys
    <3>2. now \in Nat /\ store[k].blockedUntil \in Nat
      BY <2>1, AdmissionAssumption DEF Typed
    <3>3. CounterOK(store[k].hits, store[k].blockedUntil, passed[k],
                    Ttl(k[1]), Limit(k[1]), now)
      BY <2>1 DEF CountersInv
    <3>4. Within(store[k].hits, Ttl(k[1]))
            = SumFunctionOnSet(store[k].hits, Recent(now, Ttl(k[1])))
      BY <2>1, <3>1, LastIs DEF Within
    <3> QED
      BY <3>1, <3>2, <3>3, <3>4 DEF CounterOK
  <2> QED
    BY <2>1, <2>2 DEF Typed, TypeOK
<1> QED
  BY <1>1, InvHolds, PTL

\* A throttler's limit holds for what it covers: what was handled, it has let
\* through, and its counter let no more through.
LEMMA CoveredHolds ==
    ASSUME Inv, NEW t \in Names, NEW c \in Trackers
    PROVE  Handled(c, Covers(t), Ttl(t)) <= Limit(t)
<1>1. Typed /\ CountersInv /\ FlowInv
  BY DEF Inv
<1>2. PICK a : a = now - Ttl(t) + 1
  OBVIOUS
<1>3. Ttl(t) \in Nat \ {0} /\ Limit(t) \in Nat
  BY LimitsAre
<1>4. /\ Last(Ttl(t)) = Recent(now, Ttl(t)) /\ Last(Ttl(t)) = Since(now, a)
      /\ a \in Int /\ a <= now
  BY <1>1, <1>2, <1>3, LastIs
<1>5. PICK H : H = SumFunctionOnSet(handled[c], Covers(t) \X Since(now, a))
  OBVIOUS
<1>6. PICK P : P = SumFunctionOnSet(passed[<<t, c>>], Since(now, a))
  OBVIOUS
<1>7. /\ H \in Nat /\ P \in Nat /\ Cardinality(Flying(t, c)) \in Nat
      /\ H + Cardinality(Flying(t, c)) <= P
  BY <1>1, <1>4, <1>5, <1>6, FlowNat DEF FlowInv
<1>8. P <= Limit(t)
  <2>1. <<t, c>> \in Keys /\ <<t, c>>[1] = t
    BY DEF Keys
  <2>2. SumFunctionOnSet(passed[<<t, c>>], Recent(now, Ttl(t))) <= Limit(t)
    BY <1>1, <2>1 DEF CountersInv, CounterOK
  <2> QED
    BY <1>4, <1>6, <2>2
<1>9. Handled(c, Covers(t), Ttl(t)) = H
  BY <1>4, <1>5 DEF Handled
<1> QED
  BY <1>3, <1>7, <1>8, <1>9

\* No client has more requests handled in a window than the limits of the
\* throttlers, whatever the clients, the routes, the limits, the windows and the
\* number of requests in memory (AppThrottlerGuard, rate-limit.policies.ts).
THEOREM LimitsAlwaysHold == Spec => []LimitsHold
<1>1. /\ Covers("global") = Policies
      /\ Covers("form-minute") = {"form"} /\ Covers("form-day") = {"form"}
      /\ Covers("auth") = {"auth"} /\ Covers("refresh") = {"refresh"}
      /\ Covers("profile") = {"profile"}
  BY DEF Covers, Policy, Policies
<1>2. /\ Ttl("global") = Minute /\ Limit("global") = GlobalPerMinute
      /\ Ttl("form-minute") = Minute /\ Limit("form-minute") = FormPerMinute
      /\ Ttl("form-day") = Day /\ Limit("form-day") = FormPerDay
      /\ Ttl("auth") = Minute /\ Limit("auth") = AuthPerMinute
      /\ Ttl("refresh") = Minute /\ Limit("refresh") = RefreshPerMinute
      /\ Ttl("profile") = 15 * Minute /\ Limit("profile") = ProfilePer15Minutes
  BY DEF Ttl, Limit
<1>3. ASSUME Inv
      PROVE  LimitsHold
  <2>1. ASSUME NEW c \in Trackers
        PROVE  /\ Handled(c, Policies, Minute) <= GlobalPerMinute
               /\ Handled(c, {"form"}, Minute) <= FormPerMinute
               /\ Handled(c, {"form"}, Day) <= FormPerDay
               /\ Handled(c, {"auth"}, Minute) <= AuthPerMinute
               /\ Handled(c, {"refresh"}, Minute) <= RefreshPerMinute
               /\ Handled(c, {"profile"}, 15 * Minute) <= ProfilePer15Minutes
    <3>1. \A t \in Names : Handled(c, Covers(t), Ttl(t)) <= Limit(t)
      BY <1>3, CoveredHolds
    <3>2. /\ Handled(c, Covers("global"), Ttl("global")) <= Limit("global")
          /\ Handled(c, Covers("form-minute"), Ttl("form-minute")) <= Limit("form-minute")
          /\ Handled(c, Covers("form-day"), Ttl("form-day")) <= Limit("form-day")
          /\ Handled(c, Covers("auth"), Ttl("auth")) <= Limit("auth")
          /\ Handled(c, Covers("refresh"), Ttl("refresh")) <= Limit("refresh")
          /\ Handled(c, Covers("profile"), Ttl("profile")) <= Limit("profile")
      BY <3>1, NamesAre
    <3> QED
      BY <1>1, <1>2, <3>2
  <2> QED
    BY <2>1 DEF LimitsHold
<1> QED
  BY <1>3, InvHolds, PTL

\* A throttler blocks a client only after letting its limit of that client's
\* requests through: nobody is refused for the use of another
\* (generateKey and getTracker of AppThrottlerGuard).
THEOREM OwnUseOnly == Spec => RefusedForOwnUse
<1>1. ASSUME Inv, NEW r \in Reqs, Throttle(r), req'[r] = Idle
      PROVE  LET t == FirstOf(req[r].ask) IN
             Within(passed[<<t, req[r].tracker>>], 2 * Ttl(t)) >= Limit(t)
  <2>1. Typed /\ CountersInv
    BY <1>1 DEF Inv
  <2>2. PICK t \in Names, c \in Trackers : Answers(r, t, c)
    BY <1>1, <2>1, ThrottleEffect
  <2>3. /\ t = FirstOf(req[r].ask) /\ c = req[r].tracker
        /\ store'[<<t, c>>] = Increment(store[<<t, c>>], t)
        /\ Passes(r, t, c) \/ Refuses(r, t, c)
    BY <2>2 DEF Answers
  <2>4. Refuses(r, t, c)
    <3>1. req'[r] \notin Busy
      BY <1>1 DEF Busy, Idle
    <3> QED
      BY <2>3, <3>1 DEF Passes
  <2>5. Limit(t) <= SumFunctionOnSet(passed[<<t, c>>], Recent(now, 2 * Ttl(t)))
    BY <2>1, <2>3, <2>4, AnswerInOrder
  <2>6. Within(passed[<<t, c>>], 2 * Ttl(t))
          = SumFunctionOnSet(passed[<<t, c>>], Recent(now, 2 * Ttl(t)))
    <3>1. 2 * Ttl(t) \in Nat
      BY LimitsAre
    <3> QED
      BY <2>1, <3>1, LastIs DEF Within
  <2>7. /\ Limit(t) \in Nat
        /\ SumFunctionOnSet(passed[<<t, c>>], Recent(now, 2 * Ttl(t))) \in Nat
    <3>1. now \in 0 .. MaxTime /\ 2 * Ttl(t) \in Nat /\ Limit(t) \in Nat
      BY <2>1, LimitsAre DEF Typed
    <3>2. \A i \in 0 .. MaxTime : passed[<<t, c>>][i] \in Nat
      BY <2>1 DEF Typed, Keys, Counts
    <3> QED
      BY <3>1, <3>2, RecentIs, SumNat
  <2> QED
    BY <2>3, <2>5, <2>6, <2>7
<1>2. Inv /\ [Next]_vars =>
          [\A r \in Reqs :
              Throttle(r) /\ req'[r] = Idle =>
                  LET t == FirstOf(req[r].ask) IN
                  Within(passed[<<t, req[r].tracker>>], 2 * Ttl(t)) >= Limit(t)]_vars
  BY <1>1
<1> QED
  BY <1>2, InvHolds, PTL DEF Spec, RefusedForOwnUse

\* A form that the minute's limit refuses does not use up the day's
\* (the order of the throttlers in rate-limit.policies.ts).
THEOREM RefusedFormsFree == Spec => []RefusedFormsAreFree
<1>1. ASSUME Inv, NEW c \in Trackers
      PROVE  Within(store[<<"form-day", c>>].hits, Day)
                 <= Within(passed[<<"form-minute", c>>], Day)
  <2>1. Typed /\ FormsInv
    BY <1>1 DEF Inv
  <2>2. PICK a : a = now - Day + 1
    OBVIOUS
  <2>3. Last(Day) = Since(now, a) /\ a \in Int /\ a <= now
    BY <2>1, <2>2, LastIs, AdmissionAssumption
  <2>4. now \in 0 .. MaxTime
    BY <2>1 DEF Typed
  <2>5. PICK H : H = SumFunctionOnSet(store[<<"form-day", c>>].hits, Since(now, a))
    OBVIOUS
  <2>6. PICK P : P = SumFunctionOnSet(passed[<<"form-minute", c>>], Since(now, a))
    OBVIOUS
  <2>7. /\ H \in Nat /\ P \in Nat /\ Cardinality(Between(c)) \in Nat
        /\ H + Cardinality(Between(c)) <= P
    BY <2>1, <2>3, <2>4, <2>5, <2>6, FormsNat DEF FormsInv
  <2>8. H <= P
    BY <2>7
  <2> QED
    BY <2>3, <2>5, <2>6, <2>8 DEF Within
<1>2. Inv => RefusedFormsAreFree
  BY <1>1 DEF RefusedFormsAreFree
<1> QED
  BY <1>2, InvHolds, PTL
=============================================================================
