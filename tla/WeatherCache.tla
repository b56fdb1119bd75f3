---------------------------- MODULE WeatherCache -----------------------------
(****************************************************************************)
(* The weather fetcher (Core/bridge/apps/weather.py) for the automatic      *)
(* location: processes started by the application, Spotlight and the        *)
(* service share a page of weather and the caches of the location it was    *)
(* made for.                                                                *)
(*                                                                          *)
(* One unit of time is at least a quarter of an hour, far longer than the   *)
(* timeouts of the requests of one fetch.  A location is known by the time  *)
(* it was true; one of the default city is never true.                      *)
(****************************************************************************)
EXTENDS Integers

CONSTANTS
  Callers,
  PageTTL, StaleTTL, Retention, SystemTTL, IpTTL,  \* the ages weather.py allows
  MaxClock,   \* the end of the modelled time
  MaxClears   \* how often the user clears the cache

None == -1        \* no such file
Never == -2       \* the location of the default city

VARIABLES
  clock,
  page,       \* the saved page: when written, the location it is for
  sysAt,      \* when the cached system location was taken, None without one
  ipAt,       \* the same for the location by address
  automatic,  \* the user lets the location be found
  cleared,    \* how often the lock file was removed with the rest
  call,       \* what each process is doing
  answer      \* the answer just given

wvars == <<clock, page, sysAt, ipAt, automatic, cleared, call, answer>>

NoPage == [at |-> None, loc |-> Never]
NotRunning == [pc |-> "out", force |-> FALSE, lock |-> 0, loc |-> Never]
NoAnswer == [age |-> 0, stale |-> FALSE, guess |-> TRUE]

Present(at, ttl) == at # None /\ clock - at < ttl

\* load_weather_cache
Loadable(p, ttl) == Present(p.at, ttl)

Says(p, stale) ==
  [age |-> IF p.loc = Never THEN 0 ELSE clock - p.loc, stale |-> stale, guess |-> p.loc = Never]

Leave(c) == call' = [call EXCEPT ![c] = NotRunning]

----------------------------------------------------------------------------
\* prune_weather_cache, when the last time is long enough ago.
Prune ==
  \/ page' = IF page.at # None /\ clock - page.at > Retention THEN NoPage ELSE page
  \/ UNCHANGED page

\* The cache is tidied and the page read, before the lock is asked for.
StartGet(c, force) ==
  /\ call[c].pc = "out"
  /\ Prune
  /\ IF ~force /\ Loadable(page', PageTTL)
     THEN answer' = Says(page', FALSE) /\ UNCHANGED call
     ELSE /\ call' = [call EXCEPT ![c] = [NotRunning EXCEPT !.pc = "wait", !.force = force,
                                                           !.lock = cleared]]
          /\ UNCHANGED answer
  /\ UNCHANGED <<clock, sysAt, ipAt, automatic, cleared>>

Holding == {"resolve", "forecast"}

\* With the lock held the page is read again: another process may have made it.
LookAgain(c) ==
  IF ~call[c].force /\ Loadable(page, PageTTL)
  THEN answer' = Says(page, FALSE) /\ Leave(c)
  ELSE /\ call' = [call EXCEPT ![c].pc = "resolve"]
       /\ UNCHANGED answer

\* flock on the file that was opened; a file removed meanwhile locks nobody else.
TakeLock(c) ==
  /\ call[c].pc = "wait"
  /\ ~\E d \in Callers : call[d].pc \in Holding /\ call[d].lock = call[c].lock
  /\ LookAgain(c)
  /\ UNCHANGED <<clock, page, sysAt, ipAt, automatic, cleared>>

\* mutant: a page of any age is an answer
AnyPage == page.at # None

StaleAnswer == Loadable(page, StaleTTL)

\* Failing is answered with an old page, marked as such, when there is one.
Fail(c) ==
  /\ IF StaleAnswer THEN answer' = Says(page, TRUE) ELSE UNCHANGED answer
  /\ Leave(c)

Located(c, loc) == call' = [call EXCEPT ![c].pc = "forecast", ![c].loc = loc]

\* resolve_location: the machine's own location, the one by address, the
\* default city; each from its cache while that is young.
Resolve(c) ==
  /\ call[c].pc = "resolve"
  /\ IF ~automatic THEN Fail(c) /\ UNCHANGED <<sysAt, ipAt>>
     ELSE \/ /\ Present(sysAt, SystemTTL)
             /\ Located(c, sysAt)
             /\ UNCHANGED <<sysAt, ipAt, answer>>
          \/ /\ ~Present(sysAt, SystemTTL)
             /\ sysAt' = clock
             /\ Located(c, clock)
             /\ UNCHANGED <<ipAt, answer>>
          \/ /\ ~Present(sysAt, SystemTTL) /\ Present(ipAt, IpTTL)
             /\ Located(c, ipAt)
             /\ UNCHANGED <<sysAt, ipAt, answer>>
          \/ /\ ~Present(sysAt, SystemTTL) /\ ~Present(ipAt, IpTTL)
             /\ ipAt' = clock
             /\ Located(c, clock)
             /\ UNCHANGED <<sysAt, answer>>
          \/ /\ ~Present(sysAt, SystemTTL) /\ ~Present(ipAt, IpTTL)
             /\ Located(c, Never)
             /\ UNCHANGED <<sysAt, ipAt, answer>>
          \/ /\ ~Present(sysAt, SystemTTL) /\ ~Present(ipAt, IpTTL)
             /\ Fail(c)
             /\ UNCHANGED <<sysAt, ipAt>>
  /\ UNCHANGED <<clock, page, automatic, cleared>>

\* The forecast is fetched and saved, or the request fails.
Forecast(c) ==
  /\ call[c].pc = "forecast"
  /\ \/ /\ page' = [at |-> clock, loc |-> call[c].loc]
        /\ answer' = Says(page', FALSE)
        /\ Leave(c)
     \/ Fail(c) /\ UNCHANGED page
  /\ UNCHANGED <<clock, sysAt, ipAt, automatic, cleared>>

\* cmd_clear_cache removes every file, the caches of the location and the
\* lock files too.
ClearCache ==
  /\ cleared < MaxClears
  /\ cleared' = cleared + 1
  /\ page' = NoPage /\ sysAt' = None /\ ipAt' = None
  /\ UNCHANGED <<clock, automatic, call, answer>>

SetAutomatic ==
  /\ automatic' = ~automatic
  /\ UNCHANGED <<clock, page, sysAt, ipAt, cleared, call, answer>>

Tick ==
  /\ clock < MaxClock
  /\ \A c \in Callers : call[c].pc \in {"out", "wait"}
  /\ clock' = clock + 1
  /\ answer' = NoAnswer
  /\ UNCHANGED <<page, sysAt, ipAt, automatic, cleared, call>>

WeatherInit ==
  /\ clock = 0
  /\ page = NoPage /\ sysAt = None /\ ipAt = None
  /\ automatic = TRUE
  /\ cleared = 0
  /\ call = [c \in Callers |-> NotRunning]
  /\ answer = NoAnswer

WeatherNext ==
  \/ \E c \in Callers :
       \/ \E force \in BOOLEAN : StartGet(c, force)
       \/ TakeLock(c) \/ Resolve(c) \/ Forecast(c)
  \/ ClearCache \/ SetAutomatic \/ Tick

WeatherSpec == WeatherInit /\ [][WeatherNext]_wvars

----------------------------------------------------------------------------
Times == 0..MaxClock
Pages == [at : Times \cup {None}, loc : Times \cup {Never}]
Calls == [pc : {"out", "wait", "resolve", "forecast"}, force : BOOLEAN,
          lock : 0..MaxClears, loc : Times \cup {Never}]
Answers == [age : Times, stale : BOOLEAN, guess : BOOLEAN]
WeatherTypeOK ==
  /\ clock \in Times /\ page \in Pages /\ call \in [Callers -> Calls] /\ answer \in Answers
  /\ sysAt \in Times \cup {None} /\ ipAt \in Times \cup {None}
  /\ automatic \in BOOLEAN /\ cleared \in 0..MaxClears

\* A location taken at loc and used at time t was allowed by one of the two caches.
Allowed(loc, t) == loc # Never => loc <= t /\ t - loc < IpTTL
Good(p) == p.at <= clock /\ (p.at # None => Allowed(p.loc, p.at))
LocationsAreRecent ==
  /\ sysAt <= clock /\ ipAt <= clock /\ Good(page)
  /\ \A c \in Callers : call[c].pc = "forecast" => Allowed(call[c].loc, clock)

\* Until the cache is cleared one process holds the lock, and it has looked.
OneFetches ==
  /\ \A c \in Callers : call[c].lock <= cleared
  /\ cleared = 0 =>
       \A c \in Callers : call[c].pc \in Holding =>
         /\ \A e \in Callers \ {c} : call[e].pc \notin Holding
         /\ ~call[c].force => ~Loadable(page, PageTTL)

\* The age of an answer is within the TTLs of its two caches.
Recent(a) == a.age <= (IF a.stale THEN StaleTTL ELSE PageTTL) + IpTTL - 2

\* Whatever caches an answer went through, an unmarked one is of the place the
\* machine was at PageTTL and IpTTL ago at most, a marked one StaleTTL and
\* IpTTL, unless it is of the default city (the TTLs of load_weather_cache,
\* get_system_location and get_ip_location).
AnswersAreRecent == Recent(answer)

WeatherInv == WeatherTypeOK /\ LocationsAreRecent /\ OneFetches /\ AnswersAreRecent

\* As long as nobody clears the cache, a page that is still good is replaced
\* only when a refresh is forced: processes that ask together fetch once
\* (fetch_weather, the lock).
FetchingStep ==
  \A c \in Callers :
    page'.at # None /\ page' # page /\ ~call[c].force /\ cleared = 0 /\ call[c].pc = "forecast"
      /\ call'[c].pc = "out" => ~Loadable(page, PageTTL)
FetchedOnce == [][FetchingStep]_wvars

\* Tidying up never removes a page that could still be answered with when the
\* network fails (the retention of prune_weather_cache against STALE_CACHE_TTL).
PruningStep == page # NoPage /\ page' = NoPage /\ cleared' = cleared => ~StaleAnswer
PruningKeepsAnswers == [][PruningStep]_wvars
=============================================================================
