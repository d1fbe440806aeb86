----------------------------- MODULE Admission -----------------------------
(***************************************************************************)
(* How a request gets to its handler: the global guards in the order of    *)
(* AppModule (JwtAuthGuard, RolesGuard, AppThrottlerGuard), the routes'    *)
(* decorators, and the throttlers of rate-limit.policies.ts with their     *)
(* counters in memory.  The counters are @nestjs/throttler's: a hit counts *)
(* for ttl, the one above the limit blocks its key for ttl, and while a    *)
(* key is blocked nothing is counted.                                      *)
(*                                                                         *)
(* The throttlers are asked one after the other with an await between      *)
(* them, so simultaneous requests interleave.                              *)
(***************************************************************************)
EXTENDS Integers, Sequences, FiniteSets, Functions

CONSTANTS
    Ips,          \* addresses of the clients
    Users,        \* users with a session
    Admins,       \* those of role ADMIN
    Routes,       \* the routes that are called
    Reqs,         \* requests the process can serve at the same time
    Minute, Day,  \* the ttls, in ticks of the clock
    GlobalPerMinute, FormPerMinute, FormPerDay, AuthPerMinute,
    RefreshPerMinute, ProfilePer15Minutes,  \* THROTTLE_*
    MaxTime       \* bound on the clock

ASSUME AdmissionAssumption ==
    /\ IsFiniteSet(Reqs)
    /\ {Minute, Day} \subseteq Nat \ {0}
    /\ {GlobalPerMinute, FormPerMinute, FormPerDay, AuthPerMinute,
        RefreshPerMinute, ProfilePer15Minutes, MaxTime} \subseteq Nat

VARIABLES
    now,          \* the clock
    store,        \* the counters
    req,          \* what each request is doing
    \* History: no code reads these.
    passed,       \* requests that passed a throttler, by key and instant
    handled       \* requests that reached a handler, by client and instant

vars == <<now, store, req, passed, handled>>

-----------------------------------------------------------------------------
\* The routes, up to what their decorators tell the guards.
Public == {"home", "catalog", "login", "refresh", "mail"}
IgnoreAccessToken == {"refresh"}
AdminOnly == {"catalogWrite"}
Protected == {"logout", "profileWrite"} \cup AdminOnly
AllRoutes == Public \cup Protected

PolicyOf(route) ==
    CASE route = "mail" -> "form"
      [] route = "login" -> "auth"
      [] route = "refresh" -> "refresh"
      [] route = "profileWrite" -> "profile"
      [] OTHER -> "none"

Policies == {"form", "auth", "refresh", "profile", "none"}

\* In the order they are asked.
\* Mutant of Throttlers: the day's limit of the forms before the minute's.
ThrottlersDayFirst ==
    <<"global", "form-day", "form-minute", "auth", "refresh", "profile">>
Throttlers == <<"global", "form-minute", "form-day", "auth", "refresh", "profile">>
Names == {Throttlers[i] : i \in DOMAIN Throttlers}

Policy(t) ==
    CASE t = "global" -> "any"
      [] t \in {"form-minute", "form-day"} -> "form"
      [] OTHER -> t

Limit(t) ==
    CASE t = "global" -> GlobalPerMinute
      [] t = "form-minute" -> FormPerMinute
      [] t = "form-day" -> FormPerDay
      [] t = "auth" -> AuthPerMinute
      [] t = "refresh" -> RefreshPerMinute
      [] t = "profile" -> ProfilePer15Minutes

Ttl(t) ==
    CASE t = "form-day" -> Day
      [] t = "profile" -> 15 * Minute
      [] OTHER -> Minute

\* The throttlers whose skipIf lets a request of the route through to them.
\* Mutant of Asked: skipIf has its comparison the wrong way round.
AskedInverted(route) == {t \in Names : Policy(t) # PolicyOf(route)}
Asked(route) == {t \in Names : Policy(t) \in {"any", PolicyOf(route)}}

\* The throttler of `ask` that is asked first.
FirstOf(ask) ==
    Throttlers[CHOOSE i \in DOMAIN Throttlers :
                  /\ Throttlers[i] \in ask
                  /\ \A j \in 1 .. i - 1 : Throttlers[j] \notin ask]

Guest == "guest"
Trackers == Users \cup Ips

\* generateKey: the counter is shared by the routes.
\* Mutant of Key: the tracker is left out.
KeyOfAll(t, k) == <<t, CHOOSE l \in Trackers : TRUE>>
Key(t, k) == <<t, k>>
Keys == Names \X Trackers

Idle == [pc |-> "idle"]
Busy == [pc : {"throttle"}, tracker : Trackers, route : Routes, ask : SUBSET Names]

\* How many there were at each instant.
Counts == [0 .. MaxTime -> Nat]
None == [i \in 0 .. MaxTime |-> 0]
Counted(counts) == [counts EXCEPT ![now] = @ + 1]

\* The last `span` ticks, and how many of `counts` fall in them.
Last(span) == {i \in 0 .. now : now - i < span}
Within(counts, span) == SumFunctionOnSet(counts, Last(span))

\* A counter has at most one hit more than its limit, and its block ends never
\* more than a ttl ahead.
TypeOK ==
    /\ now \in 0 .. MaxTime
    /\ req \in [Reqs -> {Idle} \cup Busy]
    /\ store \in [Keys -> [hits : Counts, blockedUntil : Nat]]
    /\ \A k \in Keys :
        /\ Within(store[k].hits, Ttl(k[1])) <= Limit(k[1]) + 1
        /\ store[k].blockedUntil <= now + Ttl(k[1])
    /\ passed \in [Keys -> Counts]
    /\ handled \in [Trackers -> [Policies \X (0 .. MaxTime) -> Nat]]

-----------------------------------------------------------------------------
\* ThrottlerStorage.increment: a hit, unless the key is blocked; the hit above
\* the limit blocks it.  A hit counts until its timer fires, after a ttl.  A
\* block that is over is forgotten with its hits.  Assumed of the library, whose
\* code is not here: the hits and the block of a key are its own, and what happens
\* to one key leaves the hits of every other to end by themselves.
Increment(entry, t) ==
    IF entry.blockedUntil > now THEN entry
    ELSE LET hits == Counted(IF entry.blockedUntil > 0 THEN None ELSE entry.hits) IN
         [hits |-> hits,
          blockedUntil |-> IF Within(hits, Ttl(t)) > Limit(t) THEN now + Ttl(t) ELSE 0]

Blocked(entry) == entry.blockedUntil > now

\* JwtAuthGuard: who the request is, with an access token (a user's, or a bad
\* one) or without.
Identity(route, token) ==
    IF route \in IgnoreAccessToken \/ token = "none" THEN Guest ELSE token

Authenticated(route, token) ==
    \/ route \in IgnoreAccessToken
    \/ token = "none" /\ route \in Public
    \/ token \in Users

\* RolesGuard
Authorized(route, user) == route \in AdminOnly => user \in Admins

\* Mutant of TrackerOf: a request without a session has no tracker.
TrackerOfUser(ip, user) == user

\* getTracker: a session counts for its user, a guest for the address.
TrackerOf(ip, user) == IF user = Guest THEN ip ELSE user

-----------------------------------------------------------------------------
Init ==
    /\ now = 0
    /\ store = [k \in Keys |-> [hits |-> None, blockedUntil |-> 0]]
    /\ req = [r \in Reqs |-> Idle]
    /\ passed = [k \in Keys |-> None]
    /\ handled = [k \in Trackers |-> [at \in Policies \X (0 .. MaxTime) |-> 0]]

\* A request that the first two guards let through.  One that they refuse
\* leaves no trace.
Arrive(r, ip, token, route) ==
    LET user == Identity(route, token) IN
    /\ req[r] = Idle
    /\ Authenticated(route, token)
    /\ Authorized(route, user)
    /\ req' = [req EXCEPT ![r] =
                  [pc |-> "throttle", tracker |-> TrackerOf(ip, user),
                   route |-> route, ask |-> Asked(route)]]
    /\ UNCHANGED <<now, store, passed, handled>>

\* AppThrottlerGuard asks the next throttler: 429, the one after, or the handler.
Throttle(r) ==
    /\ req[r] # Idle
    /\ req[r].ask # {}
    /\ LET t == FirstOf(req[r].ask)
           k == Key(t, req[r].tracker)
           entry == Increment(store[k], t) IN
       /\ store' = [store EXCEPT ![k] = entry]
       /\ IF Blocked(entry)
            THEN /\ req' = [req EXCEPT ![r] = Idle]
                 /\ UNCHANGED passed
            ELSE /\ req' = [req EXCEPT ![r].ask = @ \ {t}]
                 /\ passed' = [passed EXCEPT ![<<t, req[r].tracker>>] = Counted(@)]
    /\ UNCHANGED <<now, handled>>

\* The handler runs.
Handle(r) ==
    /\ req[r] # Idle
    /\ req[r].ask = {}
    /\ req' = [req EXCEPT ![r] = Idle]
    /\ handled' = [handled EXCEPT
          ![req[r].tracker][<<PolicyOf(req[r].route), now>>] = @ + 1]
    /\ UNCHANGED <<now, store, passed>>

\* Requests in memory do not wait for anything that takes time.
Tick ==
    /\ now < MaxTime
    /\ \A r \in Reqs : req[r] = Idle
    /\ now' = now + 1
    /\ UNCHANGED <<store, req, passed, handled>>

Next ==
    \/ \E r \in Reqs, ip \in Ips, token \in Users \cup {"none", "bad"}, route \in Routes :
          Arrive(r, ip, token, route)
    \/ \E r \in Reqs : Throttle(r) \/ Handle(r)
    \/ Tick

Spec == Init /\ [][Next]_vars

-----------------------------------------------------------------------------
(* Properties *)

\* Requests of tracker k to routes of the policies P that were handled in a span.
Handled(k, P, span) == SumFunctionOnSet(handled[k], P \X Last(span))

\* However its requests interleave, no client has more requests handled in any
\* minute than the global limit, nor more than the limits of their policies in
\* any minute, day or quarter of an hour, whichever of the routes it used.
LimitsHold ==
    \A k \in Trackers :
        /\ Handled(k, Policies, Minute) <= GlobalPerMinute
        /\ Handled(k, {"form"}, Minute) <= FormPerMinute
        /\ Handled(k, {"form"}, Day) <= FormPerDay
        /\ Handled(k, {"auth"}, Minute) <= AuthPerMinute
        /\ Handled(k, {"refresh"}, Minute) <= RefreshPerMinute
        /\ Handled(k, {"profile"}, 15 * Minute) <= ProfilePer15Minutes

\* A client is refused only for its own use: when a throttler blocks it, it
\* has let the limit's number of the client's requests through in the ttl
\* before, or before the block it is still under.
RefusedForOwnUse ==
    [][\A r \in Reqs :
          Throttle(r) /\ req'[r] = Idle =>
              LET t == FirstOf(req[r].ask) IN
              Within(passed[<<t, req[r].tracker>>], 2 * Ttl(t)) >= Limit(t)]_vars

\* A form that the minute's limit refuses does not use up the day's: the day's
\* counter never holds more than what passed the minute's.
RefusedFormsAreFree ==
    \A k \in Trackers :
        Within(store[<<"form-day", k>>].hits, Day)
            <= Within(passed[<<"form-minute", k>>], Day)
=============================================================================
