-------------------------- MODULE MCPrograms_proofs --------------------------
(***************************************************************************)
(* What is proved of the programs of MCPrograms that serve requests and    *)
(* show their state, part by part: the Polkit agent (RequestsAreAnswered), *)
(* the notifier of weather alerts (ToldOnce), the weather fetcher          *)
(* (AnswersAreRecent), the mail application (MailIsTrue), the wallpapers   *)
(* (RightPictureIsThere), the Bluetooth manager (AutoconnectObeys), the    *)
(* sound page (OutputsAreTrue), the window switcher (CommitsAreMeant) and  *)
(* the pastes of the Explorer (PastesAreMeant).  MCRecords_proofs has the  *)
(* other programs.  The inductive invariant of each is stated at the end   *)
(* of its module; here it is shown to hold at the start and after each     *)
(* action, in the slots that the part has.  ProgramsInv, at the end, is    *)
(* the parts together.                                                     *)
(***************************************************************************)
EXTENDS MCPrograms, Integers, SequenceTheorems, FiniteSetTheorems, WellFoundedInduction, TLAPS

(***************************************************************************)
(* The Polkit agent.                                                       *)
(***************************************************************************)
\* No request is under way when the agent starts.
LEMMA PolkitAtStart == ASSUME Polkit!PkInit PROVE Polkit!PkInv
  <1> USE NilIsNothing, BoundsAreNumbers
  <1> QED  BY DEF Polkit!PkInit, Polkit!PkInv, Polkit!PkTypeOK, Polkit!NoneIsStranded,
                  Polkit!AnswersAreEarned, Polkit!Flow

\* Each step of a request keeps its prompt, its session and its answer together
\* (do_initiate_authentication, on_completed, try_next_identity).
LEMMA PolkitStep == ASSUME Polkit!PkInv, Polkit!PkNext PROVE Polkit!PkInv' /\ Polkit!CancellingStep
  <1> USE NilIsNothing, BoundsAreNumbers
  <1> USE DEF Polkit!PkInv, Polkit!PkTypeOK, Polkit!NoneIsStranded, Polkit!AnswersAreEarned,
              Polkit!Flow, Polkit!CancellingStep
  <1>1. ASSUME NEW f \in Flows, Polkit!InitiateAuthentication(f)
        PROVE  Polkit!PkInv' /\ Polkit!CancellingStep
    BY <1>1 DEF Polkit!InitiateAuthentication
  <1>2. ASSUME NEW f \in Flows, Polkit!Cancel(f)
        PROVE  Polkit!PkInv' /\ Polkit!CancellingStep
    BY <1>2 DEF Polkit!Cancel
  <1>3. ASSUME NEW f \in Flows, Polkit!Start(f)
        PROVE  Polkit!PkInv' /\ Polkit!CancellingStep
    BY <1>3 DEF Polkit!Start, Polkit!Finish, Polkit!TryNextIdentity
  <1>4. ASSUME NEW f \in Flows, Polkit!Request(f)
        PROVE  Polkit!PkInv' /\ Polkit!CancellingStep
    BY <1>4 DEF Polkit!Request
  <1>5. ASSUME NEW f \in Flows, Polkit!Respond(f)
        PROVE  Polkit!PkInv' /\ Polkit!CancellingStep
    BY <1>5 DEF Polkit!Respond
  <1>6. ASSUME NEW f \in Flows, Polkit!Refuse(f)
        PROVE  Polkit!PkInv' /\ Polkit!CancellingStep
    BY <1>6 DEF Polkit!Refuse, Polkit!CancelSession, Polkit!Completed, Polkit!Finish, Polkit!TryNextIdentity
  <1>7. ASSUME NEW f \in Flows, Polkit!SessionEnds(f)
        PROVE  Polkit!PkInv' /\ Polkit!CancellingStep
    BY <1>7 DEF Polkit!SessionEnds, Polkit!Completed, Polkit!Finish, Polkit!TryNextIdentity
  <1> HIDE DEF Polkit!PkInv, Polkit!PkTypeOK, Polkit!NoneIsStranded, Polkit!AnswersAreEarned,
              Polkit!Flow, Polkit!CancellingStep
  <1> QED  BY <1>1, <1>2, <1>3, <1>4, <1>5, <1>6, <1>7 DEF Polkit!PkNext

(***************************************************************************)
(* The notifier of weather alerts.                                         *)
(***************************************************************************)
\* The notifier starts with nothing told.
LEMMA AlertsAtStart == ASSUME WeatherWarnings!AlertInit PROVE WeatherWarnings!AlertInv
  <1>1. WeatherWarnings!IsList(<< >>)
    BY DEF WeatherWarnings!IsList
  <1> QED
    BY <1>1, BoundsAreNumbers
    DEF WeatherWarnings!AlertInit, WeatherWarnings!AlertInv, WeatherWarnings!AlertTypeOK,
        WeatherWarnings!Recalls, WeatherWarnings!Out

\* What was told is remembered until it may be told again: a notifier that is not killed
\* saves what it told, and drops only old entries (notify_inmet_alerts).
LEMMA AlertsStep ==
    ASSUME WeatherWarnings!AlertInv, WeatherWarnings!AlertNext
    PROVE  WeatherWarnings!AlertInv' /\ WeatherWarnings!TellingStep
  <1> DEFINE With(list, a, t) == [b \in DOMAIN list \cup {a} |-> IF b = a THEN t ELSE list[b]]
             NotifiedOf(a) ==
               \/ v5' = With(v5, a, v1) /\ v4' = [v4 EXCEPT !.todo = @ \ {a}, !.seen = With(@, a, v1)]
               \/ v4' = [v4 EXCEPT !.todo = @ \ {a}] /\ UNCHANGED v5
  <1> USE BoundsAreNumbers, AgesAreAllowed
  <1> USE DEF WeatherWarnings!AlertInv, WeatherWarnings!AlertTypeOK, WeatherWarnings!IsList,
              WeatherWarnings!Recalls, WeatherWarnings!TellingStep
  <1>1. CASE WeatherWarnings!StartNotify
    BY <1>1 DEF WeatherWarnings!StartNotify
  <1>2. CASE WeatherWarnings!NotifyOne
    <2>1. PICK a \in v4.todo : NotifiedOf(a)
      BY <1>2 DEF WeatherWarnings!NotifyOne
    <2>2. /\ v4.pc = "notify" /\ a \in Alerts /\ a \notin DOMAIN v4.seen
          /\ UNCHANGED <<v1, v2, v3, v6, v7>>
      BY <1>2 DEF WeatherWarnings!NotifyOne
    <2>3. CASE v5' = v5 /\ v4' = [v4 EXCEPT !.todo = @ \ {a}]
      BY <2>2, <2>3
    <2>4. CASE v5' # v5 \/ v4' # [v4 EXCEPT !.todo = @ \ {a}]
      <3>1. v5' = With(v5, a, v1)
        BY <2>1, <2>4
      <3>2. v4' = [v4 EXCEPT !.todo = @ \ {a}, !.seen = With(@, a, v1)]
        BY <2>1, <2>4
      <3>3. WeatherWarnings!IsList(With(v5, a, v1)) /\ WeatherWarnings!IsList(With(v4.seen, a, v1))
        BY <2>2
      <3>4. WeatherWarnings!AlertTypeOK'
        BY <2>2, <3>1, <3>2, <3>3
      <3>5. v4'.todo \cap DOMAIN v4'.seen = {}
        BY <2>2, <3>2
      <3>6. v6 = 0 => (WeatherWarnings!Recalls(v4.seen))'
        BY <2>2, <3>1, <3>2
      <3>7. WeatherWarnings!TellingStep
        BY <2>2, <3>1
      <3> QED  BY <2>2, <3>2, <3>4, <3>5, <3>6, <3>7
    <2> QED  BY <2>3, <2>4
  <1>3. CASE WeatherWarnings!SaveSeen
    BY <1>3 DEF WeatherWarnings!SaveSeen, WeatherWarnings!KeepSeen, WeatherWarnings!Out
  <1>4. CASE WeatherWarnings!Killed
    <2>1. v6 \in 0..MaxKills /\ v6 < MaxKills /\ v6' = v6 + 1 /\ UNCHANGED <<v1, v2, v3, v5, v7>>
      BY <1>4 DEF WeatherWarnings!Killed
    <2>2. v6' \in 0..MaxKills /\ v6' # 0
      BY <2>1
    <2>3. /\ v4' = [pc |-> "out", todo |-> {}, given |-> {}, seen |-> << >>]
          /\ WeatherWarnings!IsList(<< >>)
      BY <1>4 DEF WeatherWarnings!Killed, WeatherWarnings!Out
    <2>4. WeatherWarnings!AlertTypeOK'
      BY <2>1, <2>2, <2>3
    <2>5. v4'.todo \cap DOMAIN v4'.seen = {}
      BY <2>3
    <2> HIDE DEF WeatherWarnings!AlertTypeOK
    <2> QED  BY <2>1, <2>2, <2>4, <2>5
  <1>5. CASE WeatherWarnings!AlertsChange
    BY <1>5 DEF WeatherWarnings!AlertsChange
  <1>7. CASE WeatherWarnings!SetEnabled
    <2>1. v7' \in BOOLEAN
      BY <1>7 DEF WeatherWarnings!SetEnabled
    <2> QED  BY <1>7, <2>1 DEF WeatherWarnings!SetEnabled
  <1>6. CASE WeatherWarnings!AlertTick
    BY <1>6 DEF WeatherWarnings!AlertTick
  <1> QED  BY <1>1, <1>2, <1>3, <1>4, <1>5, <1>6, <1>7 DEF WeatherWarnings!AlertNext

(***************************************************************************)
(* The weather fetcher.                                                    *)
(***************************************************************************)
\* At first every cache is empty.
LEMMA WeatherAtStart == ASSUME Weather!WeatherInit PROVE Weather!WeatherInv
  BY BoundsAreNumbers, AgesAreAllowed
  DEF Weather!WeatherInit, Weather!WeatherInv, Weather!WeatherTypeOK, Weather!Times,
      Weather!LocationsAreRecent, Weather!OneFetches, Weather!AnswersAreRecent, Weather!Holding,
      Weather!NoPage, Weather!NotRunning, Weather!NoAnswer, Weather!None, Weather!Never,
      Weather!Pages, Weather!Calls, Weather!Answers, Weather!Good, Weather!Recent

\* A page that may be used gives an answer within the ages allowed (load_weather_cache).
LEMMA WeatherAnswer ==
    ASSUME v1 \in Weather!Times, NEW p \in Weather!Pages, Weather!Good(p), p.at # Weather!None,
           NEW stale \in BOOLEAN, v1 - p.at < (IF stale THEN StaleTTL ELSE PageTTL)
    PROVE  Weather!Says(p, stale) \in Weather!Answers /\ Weather!Recent(Weather!Says(p, stale))
  BY BoundsAreNumbers, AgesAreAllowed
  DEF Weather!Times, Weather!Pages, Weather!Good, Weather!Allowed, Weather!None, Weather!Never,
      Weather!Says, Weather!Answers, Weather!Recent

\* Each step of a call keeps what it has in hand as fresh as what it will answer
\* with, fetches once, and prunes only what is too old (fetch_weather, prune_weather_cache).
LEMMA WeatherStep ==
    ASSUME Weather!WeatherInv, Weather!WeatherNext
    PROVE  Weather!WeatherInv' /\ Weather!FetchingStep /\ Weather!PruningStep
  <1> DEFINE Goal == Weather!WeatherInv' /\ Weather!FetchingStep /\ Weather!PruningStep
             Fits(a) == a \in Weather!Answers /\ Weather!Recent(a)
             Now(c, p) == v7'[c] = p /\ \A e \in Callers \ {c} : v7'[e] = v7[e]
  <1> USE BoundsAreNumbers, AgesAreAllowed
  <1> USE DEF Weather!WeatherInv, Weather!WeatherTypeOK, Weather!LocationsAreRecent, Weather!OneFetches,
      Weather!Holding, Weather!AnswersAreRecent, Weather!FetchingStep, Weather!PruningStep
  \* a call goes on, or ends with an answer, and the page stays
  <1>a. ASSUME Fits(v8'), v1' = v1, UNCHANGED <<v2, v5, v6>>,
               {v3', v4'} \subseteq Weather!Times \cup {Weather!None}, v3' <= v1, v4' <= v1,
               v7' \in [Callers -> Weather!Calls],
               NEW c \in Callers, Now(c, v7'[c]), v7'[c].lock <= v6,
               v7'[c].pc \in Weather!Holding => v7[c].pc \in Weather!Holding /\ v7'[c].force = v7[c].force,
               v7'[c].pc = "forecast" => Weather!Allowed(v7'[c].loc, v1)
        PROVE  Goal
    <2>1. Weather!WeatherTypeOK' /\ Weather!LocationsAreRecent' /\ Weather!AnswersAreRecent'
      BY <1>a DEF Weather!Good, Weather!Recent
    <2>2. Weather!OneFetches'
      BY <1>a DEF Weather!Loadable, Weather!Present
    <2> QED  BY <1>a, <2>1, <2>2
  <1>1. ASSUME NEW c \in Callers, NEW force \in BOOLEAN, Weather!StartGet(c, force) PROVE Goal
    <2>1. /\ v2' \in Weather!Pages /\ Weather!Good(v2')
          /\ v2' # v2 => v2'.at = Weather!None /\ ~Weather!StaleAnswer
          /\ v2' # v2 => v6' = v6
      BY <1>1 DEF Weather!StartGet, Weather!Prune, Weather!NoPage, Weather!Pages, Weather!Good,
         Weather!Allowed, Weather!None, Weather!Never, Weather!Times, Weather!StaleAnswer,
         Weather!Loadable, Weather!Present
    <2>2. Weather!Loadable(v2', PageTTL) => v2' = v2 /\ v2.at # Weather!None /\ v1 - v2.at < PageTTL
      BY <1>1, <2>1 DEF Weather!StartGet, Weather!Loadable, Weather!Present
    <2>3. CASE ~force /\ Weather!Loadable(v2', PageTTL)
      <3>1. v7' = v7 /\ v8' = Weather!Says(v2, FALSE) /\ v2' = v2
        BY <1>1, <2>2, <2>3 DEF Weather!StartGet
      <3>2. Fits(v8')
        BY <2>2, <2>3, <3>1, WeatherAnswer
      <3>3. UNCHANGED <<v1, v2, v3, v4, v5, v6, v7>>
        BY <1>1, <3>1 DEF Weather!StartGet
      <3> HIDE DEF Fits
      <3> QED  BY <1>a, <3>2, <3>3
    <2>4. CASE ~(~force /\ Weather!Loadable(v2', PageTTL))
      <3>1. /\ v8' = v8 /\ UNCHANGED <<v1, v3, v4, v5, v6>>
            /\ v7' = [v7 EXCEPT ![c] = [pc |-> "wait", force |-> force, lock |-> v6, loc |-> Weather!Never]]
        BY <1>1, <2>4 DEF Weather!StartGet, Weather!NotRunning
      <3>2. v7' \in [Callers -> Weather!Calls]
        BY <3>1 DEF Weather!Calls
      <3>3. \A e \in Callers :
              /\ v7'[e].pc \in Weather!Holding => v7'[e] = v7[e]
              /\ v7'[e].lock <= v6
              /\ v7[e].pc = "forecast" /\ v7'[e].pc = "out" => FALSE
        BY <3>1
      <3>4. Weather!OneFetches'
        BY <2>1, <3>1, <3>2, <3>3 DEF Weather!Loadable, Weather!Present
      <3>5. Weather!LocationsAreRecent' /\ Weather!WeatherTypeOK' /\ Weather!AnswersAreRecent'
        BY <2>1, <3>1, <3>2, <3>3 DEF Weather!Good, Weather!Recent
      <3>6. Weather!FetchingStep /\ Weather!PruningStep
        BY <2>1, <3>3
      <3> QED  BY <3>4, <3>5, <3>6
    <2> QED  BY <2>3, <2>4
  <1>b. ASSUME NEW c \in Callers, Weather!Fail(c), UNCHANGED <<v1, v2, v3, v4, v5, v6>> PROVE Goal
    <2>1. v7' = [v7 EXCEPT ![c] = Weather!NotRunning]
      BY <1>b DEF Weather!Fail, Weather!Leave
    <2>2. v7' \in [Callers -> Weather!Calls] /\ v7'[c].pc = "out" /\ v7'[c].lock = 0
      BY <2>1 DEF Weather!Calls, Weather!NotRunning
    <2>3. Fits(v8')
      <3>1. CASE ~Weather!StaleAnswer
        BY <1>b, <3>1 DEF Weather!Fail
      <3>2. CASE Weather!StaleAnswer
        <4>1. v2.at # Weather!None /\ v1 - v2.at < StaleTTL /\ v8' = Weather!Says(v2, TRUE)
          BY <1>b, <3>2 DEF Weather!Fail, Weather!StaleAnswer, Weather!Loadable, Weather!Present
        <4> QED  BY <4>1, WeatherAnswer
      <3> QED  BY <3>1, <3>2
    <2> HIDE DEF Fits
    <2> QED  BY <1>a, <1>b, <2>1, <2>2, <2>3
  <1>2. ASSUME NEW c \in Callers, Weather!TakeLock(c) PROVE Goal
    <2>1. UNCHANGED <<v1, v2, v3, v4, v5, v6>> /\ v7[c].pc = "wait"
      BY <1>2 DEF Weather!TakeLock
    <2>2. CASE ~v7[c].force /\ Weather!Loadable(v2, PageTTL)
      <3>1. v8' = Weather!Says(v2, FALSE) /\ v7' = [v7 EXCEPT ![c] = Weather!NotRunning]
        BY <1>2, <2>2 DEF Weather!TakeLock, Weather!LookAgain, Weather!Leave
      <3>2. v7' \in [Callers -> Weather!Calls] /\ v7'[c].pc = "out" /\ v7'[c].lock = 0
        BY <3>1 DEF Weather!Calls, Weather!NotRunning
      <3>3. v2.at # Weather!None /\ v1 - v2.at < PageTTL
        BY <2>2 DEF Weather!Loadable, Weather!Present
      <3>4. Fits(v8')
        BY <3>1, <3>3, WeatherAnswer
      <3>5. \A e \in Callers \ {c} : v7'[e] = v7[e]
        BY <3>1
      <3>6. v7'[c].lock <= v6 /\ v3' <= v1 /\ v4' <= v1
        BY <2>1, <3>2
      <3> HIDE DEF Fits
      <3> QED  BY <1>a, <2>1, <3>2, <3>4, <3>5, <3>6
    <2>3. CASE ~(~v7[c].force /\ Weather!Loadable(v2, PageTTL))
      <3>1. v8' = v8 /\ v7' = [v7 EXCEPT ![c].pc = "resolve"]
        BY <1>2, <2>3 DEF Weather!TakeLock, Weather!LookAgain
      <3>2. v7' \in [Callers -> Weather!Calls] /\ v7'[c] = [v7[c] EXCEPT !.pc = "resolve"]
        BY <3>1 DEF Weather!Calls
      <3>3. \A e \in Callers \ {c} : v7'[e] = v7[e]
        BY <3>1
      <3>4. v6 = 0 => \A e \in Callers : v7[e].pc \notin Weather!Holding
        <4>1. \A e \in Callers : v7[e].lock \in Nat /\ v7[e].lock <= v6
          BY DEF Weather!Calls
        <4>2. v6 = 0 => \A e \in Callers : v7[e].lock = 0
          BY <4>1
        <4> QED  BY <1>2, <4>2 DEF Weather!TakeLock
      <3>5. v7'[c].lock = v7[c].lock /\ v7'[c].force = v7[c].force /\ v7'[c].pc = "resolve"
        BY <3>2 DEF Weather!Calls
      <3>6. Weather!OneFetches'
        BY <2>1, <2>3, <3>2, <3>3, <3>4, <3>5 DEF Weather!Loadable, Weather!Present
      <3>7. Weather!LocationsAreRecent' /\ Weather!WeatherTypeOK' /\ Weather!AnswersAreRecent'
        BY <2>1, <3>1, <3>2, <3>3, <3>5 DEF Weather!Good, Weather!Recent
      <3> QED  BY <2>1, <3>6, <3>7
    <2> QED  BY <2>2, <2>3
  <1>3. ASSUME NEW c \in Callers, Weather!Resolve(c) PROVE Goal
    <2>1. UNCHANGED <<v1, v2, v5, v6>> /\ v7[c].pc = "resolve"
      BY <1>3 DEF Weather!Resolve
    <2>2. ASSUME NEW loc \in Weather!Times \cup {Weather!Never}, Weather!Located(c, loc), v8' = v8,
                 Weather!Allowed(loc, v1),
                 {v3', v4'} \subseteq Weather!Times \cup {Weather!None}, v3' <= v1, v4' <= v1
          PROVE  Goal
      <3>1. v7' = [v7 EXCEPT ![c] = [@ EXCEPT !.pc = "forecast", !.loc = loc]]
        BY <2>2 DEF Weather!Located, Weather!Calls
      <3>2. /\ v7' \in [Callers -> Weather!Calls] /\ v7'[c].lock = v7[c].lock
            /\ v7'[c].force = v7[c].force /\ v7'[c].loc = loc
        <4> DEFINE call == [v7[c] EXCEPT !.pc = "forecast", !.loc = loc]
        <4>1. v7[c] \in Weather!Calls /\ v7 \in [Callers -> Weather!Calls]
          OBVIOUS
        <4>2. /\ call \in Weather!Calls /\ call.lock = v7[c].lock /\ call.force = v7[c].force
              /\ call.loc = loc
          BY <4>1 DEF Weather!Calls
        <4>3. v7' = [v7 EXCEPT ![c] = call]
          BY <3>1
        <4> HIDE DEF call
        <4> QED  BY <4>1, <4>2, <4>3
      <3> QED  BY <1>a, <2>1, <2>2, <3>1, <3>2
    <2>3. CASE Weather!Fail(c) /\ UNCHANGED <<v3, v4>>
      BY <1>b, <2>1, <2>3
    <2>4. CASE Weather!Present(v3, SystemTTL) /\ Weather!Located(c, v3) /\ UNCHANGED <<v3, v4, v8>>
      <3>1. v3 \in Weather!Times /\ Weather!Allowed(v3, v1)
        BY <2>4 DEF Weather!Present, Weather!Allowed, Weather!Times
      <3> QED  BY <2>2, <2>4, <3>1
    <2>5. CASE Weather!Present(v4, IpTTL) /\ Weather!Located(c, v4) /\ UNCHANGED <<v3, v4, v8>>
      <3>1. v4 \in Weather!Times /\ Weather!Allowed(v4, v1)
        BY <2>5 DEF Weather!Present, Weather!Allowed, Weather!Times
      <3> QED  BY <2>2, <2>5, <3>1
    <2>6. CASE Weather!Located(c, v1) /\ {v3', v4'} \subseteq {v1, v3, v4} /\ UNCHANGED v8
      <3>1. Weather!Allowed(v1, v1) /\ v3' <= v1 /\ v4' <= v1
        BY <2>6 DEF Weather!Allowed, Weather!Times, Weather!None
      <3> QED  BY <2>2, <2>6, <3>1
    <2>7. CASE Weather!Located(c, Weather!Never) /\ UNCHANGED <<v3, v4, v8>>
      BY <2>2, <2>7 DEF Weather!Allowed
    <2> HIDE DEF Goal
    <2> QED  BY <1>3, <2>3, <2>4, <2>5, <2>6, <2>7 DEF Weather!Resolve
  <1>4. ASSUME NEW c \in Callers, Weather!Forecast(c) PROVE Goal
    <2>1. UNCHANGED <<v1, v3, v4, v5, v6>> /\ v7[c].pc = "forecast"
      BY <1>4 DEF Weather!Forecast
    <2>2. CASE Weather!Fail(c) /\ UNCHANGED v2
      BY <1>b, <2>1, <2>2
    <2>3. CASE /\ v2' = [at |-> v1, loc |-> v7[c].loc]
               /\ v8' = Weather!Says(v2', FALSE) /\ Weather!Leave(c)
      <3>1. v2' \in Weather!Pages /\ v2'.at = v1 /\ Weather!Good(v2') /\ v1 # Weather!None
        BY <2>1, <2>3 DEF Weather!Pages, Weather!Calls, Weather!Good, Weather!Times, Weather!None
      <3>2. Fits(v8')
        <4>1. v1 \in Weather!Times /\ v1 - v2'.at < (IF FALSE THEN StaleTTL ELSE PageTTL)
          BY <3>1 DEF Weather!Times
        <4>2. Fits(Weather!Says(v2', FALSE))
          BY <3>1, <4>1, WeatherAnswer
        <4> QED  BY <2>3, <4>2
      <3>3. v7' = [v7 EXCEPT ![c] = Weather!NotRunning]
        BY <2>3 DEF Weather!Leave
      <3>4. v7' \in [Callers -> Weather!Calls] /\ v7'[c].pc = "out" /\ v7'[c].lock = 0
        BY <3>3 DEF Weather!Calls, Weather!NotRunning
      <3>5. \A e \in Callers \ {c} : v7'[e] = v7[e] /\ (v6 = 0 => v7[e].pc \notin Weather!Holding)
        BY <2>1, <3>3
      <3>6. Weather!OneFetches'
        BY <2>1, <3>4, <3>5
      <3>7. Weather!LocationsAreRecent' /\ Weather!WeatherTypeOK' /\ Weather!AnswersAreRecent'
        BY <2>1, <3>1, <3>2, <3>4, <3>5 DEF Weather!Good, Weather!Recent
      <3>8. Weather!FetchingStep
        BY <3>5, <2>1
      <3>9. Weather!PruningStep
        BY <3>1 DEF Weather!NoPage
      <3> QED  BY <3>6, <3>7, <3>8, <3>9
    <2> QED  BY <1>4, <2>2, <2>3 DEF Weather!Forecast
  <1>5. CASE Weather!ClearCache
    <2>1. v6' # 0 /\ v6' = v6 + 1 /\ UNCHANGED <<v1, v7, v8>>
      BY <1>5 DEF Weather!ClearCache
    <2>2. Weather!LocationsAreRecent' /\ Weather!WeatherTypeOK' /\ Weather!AnswersAreRecent'
      BY <1>5, <2>1 DEF Weather!ClearCache, Weather!Good, Weather!Recent, Weather!NoPage, Weather!Pages,
         Weather!None, Weather!Never, Weather!Times
    <2>3. Weather!OneFetches'
      BY <2>1 DEF Weather!Calls
    <2> QED  BY <2>1, <2>2, <2>3
  <1>6. CASE Weather!SetAutomatic
    <2>1. v5' \in BOOLEAN /\ UNCHANGED <<v1, v2, v3, v4, v6, v7, v8>>
      BY <1>6 DEF Weather!SetAutomatic
    <2> QED  BY <2>1 DEF Weather!Good, Weather!Recent, Weather!Loadable, Weather!Present
  <1>7. CASE Weather!Tick
    <2>1. v1' = v1 + 1 /\ v1' \in Weather!Times /\ UNCHANGED <<v2, v3, v4, v5, v6, v7>>
      BY <1>7 DEF Weather!Tick, Weather!Times
    <2>2. \A c \in Callers : v7[c].pc \notin Weather!Holding
      BY <1>7 DEF Weather!Tick
    <2>3. Weather!LocationsAreRecent'
      BY <2>1, <2>2 DEF Weather!Good, Weather!Times, Weather!None, Weather!Pages
    <2>4. v8' \in Weather!Answers /\ Weather!AnswersAreRecent'
      BY <1>7 DEF Weather!Tick, Weather!NoAnswer, Weather!Answers, Weather!Recent, Weather!Times
    <2> QED  BY <2>1, <2>2, <2>3, <2>4
  <1> QED  BY <1>1, <1>2, <1>3, <1>4, <1>5, <1>6, <1>7 DEF Weather!WeatherNext

(***************************************************************************)
(* The mail application.                                                   *)
(***************************************************************************)
\* A message of the server is listed by one folder.
LEMMA NormalizedIsCopy == \A ls : Mail!Normalize(ls) \in Mail!Copies
  BY DEF Mail!Normalize, Mail!FolderFromLabels, Mail!Copies

\* A copy that is put into a page leaves a page, whose other copies stay.
LEMMA PutKeepsPage ==
    ASSUME NEW copies, Mail!IsPage(copies), NEW i, NEW copy,
           i \in DOMAIN copies => copy \in Mail!Copies
    PROVE  /\ Mail!IsPage(Mail!Put(copies, i, copy))
           /\ DOMAIN Mail!Put(copies, i, copy) = DOMAIN copies
           /\ \A j \in DOMAIN copies : Mail!Put(copies, i, copy)[j] = IF j = i THEN copy ELSE copies[j]
  BY DEF Mail!IsPage, Mail!Put

\* The window opens empty.
LEMMA MailAtStart == ASSUME Mail!MailInit PROVE Mail!MailInv
  <1>1. Mail!IsPage(<< >>) /\ DOMAIN << >> = {}
    BY DEF Mail!IsPage
  <1> QED
    BY <1>1 DEF Mail!MailInit, Mail!MailInv, Mail!MailTypeOK, Mail!CopiesAreTrue, Mail!TrueBut,
       Mail!Idle, Mail!MailCommands

\* Each step of a command, and of the server, keeps the copies true but for the message
\* in hand (list_messages, modify_message, update_cached_message; replaceMessages).
LEMMA MailStep == ASSUME Mail!MailInv, Mail!MailNext PROVE Mail!MailInv'
  <1> USE DEF Mail!MailInv, Mail!MailTypeOK, Mail!CopiesAreTrue
  \* the window is rebuilt from copies that are a page
  <1>a. ASSUME NEW copies, Mail!IsPage(copies), NEW v \in {<<"Inbox", "all">>, <<"Archive", "all">>},
               Mail!Rebuild(copies, v)
        PROVE  /\ v3' = copies /\ Mail!IsPage(v3') /\ v4' = v
               /\ v5' \in Messages \cup {Nil}
    BY <1>a DEF Mail!Rebuild, Mail!Visible, Mail!IsPage
  \* an order changes the copy of its message in the window only
  <1>b. ASSUME NEW i \in Messages, NEW order \in {"read", "unread", "archive", "trash", "inbox"},
               NEW copy, v3' = Mail!Put(v3, i, copy), i \in DOMAIN v3 => copy \in Mail!Copies,
               Mail!Start([op |-> "modify", id |-> i, order |-> order, posted |-> 0]),
               v8' = (IF Mail!Busy THEN v8 \cup {i} ELSE v8), UNCHANGED <<v1, v2, v7>>,
               v4' \in {<<"Inbox", "all">>, <<"Archive", "all">>}, v5' \in Messages \cup {Nil}
        PROVE  Mail!MailInv'
    <2>1. /\ Mail!IsPage(v3') /\ DOMAIN v3' = DOMAIN v3
          /\ \A j \in DOMAIN v3 : j # i => v3'[j] = v3[j]
      BY <1>b, PutKeepsPage
    <2>2. CASE Mail!Busy
      <3>1. v6' = v6 /\ v8' = v8 \cup {i}
        BY <1>b, <2>2 DEF Mail!Start
      <3> QED  BY <1>b, <2>1, <3>1 DEF Mail!TrueBut, Mail!InHand, Mail!HalfDone
    <2>3. CASE ~Mail!Busy
      <3>1. v6' = [op |-> "modify", id |-> i, order |-> order, posted |-> 0] /\ v8' = v8 /\ v6.op = "none"
        BY <1>b, <2>3 DEF Mail!Start, Mail!Busy
      <3>2. v6' \in Mail!MailCommands
        BY <3>1 DEF Mail!MailCommands
      <3>3. Mail!MailTypeOK'
        BY <1>b, <2>1, <3>1, <3>2
      <3>4. Mail!InHand = {} /\ Mail!HalfDone = {} /\ (Mail!InHand)' = {i} /\ (Mail!HalfDone)' = {}
        BY <3>1 DEF Mail!InHand, Mail!HalfDone
      <3> QED  BY <1>b, <2>1, <3>1, <3>3, <3>4 DEF Mail!TrueBut
    <2> QED  BY <2>2, <2>3
  <1>1. ASSUME NEW i \in Messages, Mail!SelectMessage(i) PROVE Mail!MailInv'
    <2>1. i \in DOMAIN v3 /\ v3[i] \in Mail!Copies
      BY <1>1 DEF Mail!SelectMessage, Mail!Visible, Mail!IsPage
    <2>2. /\ v5' = i /\ UNCHANGED <<v1, v2, v4, v7>>
          /\ v3' = Mail!Put(v3, i, [v3[i] EXCEPT !.read = TRUE])
      BY <1>1 DEF Mail!SelectMessage
    <2>3. [v3[i] EXCEPT !.read = TRUE] \in Mail!Copies
      BY <2>1 DEF Mail!Copies
    <2>4. CASE v3[i].read
      <3>1. [v3[i] EXCEPT !.read = TRUE] = v3[i]
        BY <2>1, <2>4 DEF Mail!Copies
      <3>2. v3' = v3
        BY <2>1, <2>2, <3>1 DEF Mail!Put, Mail!IsPage
      <3>3. UNCHANGED <<v6, v8>>
        BY <1>1, <2>4 DEF Mail!SelectMessage
      <3>4. Mail!MailTypeOK'
        BY <2>2, <3>2, <3>3
      <3>5. (Mail!InHand)' = Mail!InHand /\ (Mail!HalfDone)' = Mail!HalfDone
        BY <3>3 DEF Mail!InHand, Mail!HalfDone
      <3>6. UNCHANGED <<v1, v2, v3, v6, v7, v8>>
        BY <2>2, <3>2, <3>3
      <3>7. Mail!CopiesAreTrue'
        BY <3>5, <3>6 DEF Mail!TrueBut
      <3> QED  BY <3>4, <3>7
    <2>5. CASE ~v3[i].read
      <3>1. /\ Mail!Start([op |-> "modify", id |-> i, order |-> "read", posted |-> 0])
            /\ v8' = (IF Mail!Busy THEN v8 \cup {i} ELSE v8)
        BY <1>1, <2>5 DEF Mail!SelectMessage
      <3> HIDE DEF Mail!MailInv
      <3> QED  BY <1>b, <2>2, <2>3, <3>1 DEF Mail!MailInv
    <2> QED  BY <2>4, <2>5
  <1>c. ASSUME NEW i \in Messages, NEW order \in {"read", "unread", "archive", "trash", "inbox"},
               NEW copy, i \in DOMAIN v3 => copy \in Mail!Copies, Mail!Order(i, order, copy),
               order = "inbox" => <<"Inbox", v4[2]>> \in {<<"Inbox", "all">>, <<"Archive", "all">>}
        PROVE  Mail!MailInv'
    <2>1. /\ Mail!Start([op |-> "modify", id |-> i, order |-> order, posted |-> 0])
          /\ v8' = (IF Mail!Busy THEN v8 \cup {i} ELSE v8)
          /\ UNCHANGED <<v1, v2, v7>>
      BY <1>c DEF Mail!Order
    <2>2. PICK v \in {<<"Inbox", "all">>, <<"Archive", "all">>} : Mail!Rebuild(Mail!Put(v3, i, copy), v)
      BY <1>c DEF Mail!Order
    <2>3. Mail!IsPage(Mail!Put(v3, i, copy))
      BY <1>c, PutKeepsPage
    <2>4. v3' = Mail!Put(v3, i, copy) /\ v4' = v /\ v5' \in Messages \cup {Nil}
      BY <1>a, <2>2, <2>3
    <2> HIDE DEF Mail!MailInv
    <2> QED  BY <1>b, <1>c, <2>1, <2>4
  <1>2. ASSUME NEW read \in BOOLEAN, Mail!SetActiveRead(read) PROVE Mail!MailInv'
    <2> DEFINE order == IF read THEN "read" ELSE "unread"
               copy == [v3[v5] EXCEPT !.read = read]
    <2>1. v5 \in Messages /\ Mail!Order(v5, order, copy)
      BY <1>2 DEF Mail!SetActiveRead
    <2>2. v5 \in DOMAIN v3 => copy \in Mail!Copies
      BY DEF Mail!Copies, Mail!IsPage
    <2>3. order \in {"read", "unread", "archive", "trash", "inbox"} /\ order # "inbox"
      OBVIOUS
    <2> HIDE DEF Mail!MailInv, order, copy
    <2> QED  BY <1>c, <2>1, <2>2, <2>3
  <1>3. ASSUME NEW order \in {"read", "unread", "archive", "trash", "inbox"},
               NEW folder \in {"Inbox", "Archive", "Trash"}, Mail!MoveActive(order, folder)
        PROVE  Mail!MailInv'
    <2> DEFINE copy == [v3[v5] EXCEPT !.folder = folder]
    <2>1. /\ v5 \in Messages /\ Mail!Order(v5, order, copy)
          /\ order = "inbox" => <<"Inbox", v4[2]>> \in {<<"Inbox", "all">>, <<"Archive", "all">>}
      BY <1>3 DEF Mail!MoveActive
    <2>2. v5 \in DOMAIN v3 => copy \in Mail!Copies
      BY DEF Mail!Copies, Mail!IsPage
    <2> HIDE DEF Mail!MailInv, copy
    <2> QED  BY <1>c, <2>1, <2>2
  <1>4. ASSUME NEW v \in {<<"Inbox", "all">>, <<"Archive", "all">>}, Mail!SelectListing(v)
        PROVE  Mail!MailInv'
    <2>1. /\ Mail!Start([op |-> "page", listing |-> v]) /\ Mail!Rebuild(v3, v)
          /\ UNCHANGED <<v1, v2, v7, v8>>
      BY <1>4 DEF Mail!SelectListing
    <2>2. v3' = v3 /\ v4' = v /\ v5' \in Messages \cup {Nil}
      BY <1>a, <2>1
    <2>3. \/ v6' = v6
          \/ v6.op = "none" /\ v6' = [op |-> "page", listing |-> v]
      BY <2>1 DEF Mail!Start, Mail!Busy
    <2> QED  BY <2>1, <2>2, <2>3 DEF Mail!TrueBut, Mail!InHand, Mail!HalfDone, Mail!MailCommands
  <1>5. CASE Mail!ForceRefresh
    <2>1. /\ v6.op = "none" /\ UNCHANGED <<v1, v2, v3, v4, v5, v7, v8>>
          /\ v6' = [op |-> "refresh", listing |-> v4, asked |-> FALSE, todo |-> {}, got |-> << >>]
      BY <1>5 DEF Mail!ForceRefresh, Mail!Busy
    <2>2. Mail!IsPage(<< >>) /\ DOMAIN << >> = {}
      BY DEF Mail!IsPage
    <2>3. v6'.listing = v4 /\ v6'.asked = FALSE /\ v6'.todo = {} /\ v6'.got = << >> /\ v6'.op = "refresh"
      BY <2>1
    <2> QED  BY <2>1, <2>2, <2>3 DEF Mail!TrueBut, Mail!InHand, Mail!HalfDone
  <1>6. CASE Mail!LoadImages
    <2>1. v5 \in Messages /\ UNCHANGED <<v1, v2, v3, v4, v5, v7, v8>>
      BY <1>6 DEF Mail!LoadImages
    <2>2. \/ v6' = v6
          \/ v6.op = "none" /\ v6' = [op |-> "get", id |-> v5]
      BY <1>6 DEF Mail!LoadImages, Mail!Start, Mail!Busy
    <2> QED  BY <2>1, <2>2 DEF Mail!TrueBut, Mail!InHand, Mail!HalfDone, Mail!MailCommands
  \* the window shows what a process has brought
  <1>d. ASSUME NEW copies, Mail!IsPage(copies), Mail!TrueBut(copies, v7), Mail!Replace(copies),
               UNCHANGED <<v1, v7>>, DOMAIN v2' \subseteq {<<"Inbox", "all">>, <<"Archive", "all">>},
               \A l \in DOMAIN v2' : Mail!IsPage(v2'[l]) /\ Mail!TrueBut(v2'[l], v7)
        PROVE  Mail!MailInv'
    <2>1. Mail!Rebuild(copies, v4) /\ v8' = {} /\ v6' = [op |-> "none"]
      BY <1>d DEF Mail!Replace, Mail!Idle
    <2>2. v3' = copies /\ Mail!IsPage(v3') /\ v4' = v4 /\ v5' \in Messages \cup {Nil}
      BY <1>a, <1>d, <2>1
    <2> QED  BY <1>d, <2>1, <2>2 DEF Mail!TrueBut, Mail!InHand, Mail!HalfDone, Mail!MailCommands
  <1>7. CASE Mail!ListCached
    <2> DEFINE copies == IF v6.listing \in DOMAIN v2 THEN v2[v6.listing] ELSE << >>
    <2>1. v6.op = "page" /\ Mail!Replace(copies) /\ UNCHANGED <<v1, v2, v7>>
      BY <1>7 DEF Mail!ListCached
    <2>2. Mail!IsPage(<< >>) /\ DOMAIN << >> = {}
      BY DEF Mail!IsPage
    <2>3. \A l \in DOMAIN v2 : Mail!TrueBut(v2[l], v7)
      BY <2>1 DEF Mail!HalfDone
    <2>4. Mail!IsPage(copies) /\ Mail!TrueBut(copies, v7)
      BY <2>2, <2>3 DEF Mail!TrueBut
    <2> HIDE DEF copies, Mail!MailInv
    <2>5. Mail!MailTypeOK
      BY DEF Mail!MailInv
    <2> QED  BY <1>d, <2>1, <2>3, <2>4, <2>5
  <1>8. CASE Mail!ListIds
    <2> DEFINE saved == IF v6.listing \in DOMAIN v2 THEN v2[v6.listing] ELSE << >>
               known == Mail!Found(v6.listing) \cap DOMAIN saved
               got == [i \in known |-> saved[i]]
    <2>1. /\ v6.op = "refresh" /\ UNCHANGED <<v1, v2, v3, v4, v5, v7, v8>>
          /\ v6' = [v6 EXCEPT !.asked = TRUE, !.todo = Mail!Found(v6.listing) \ known, !.got = got]
      BY <1>8 DEF Mail!ListIds
    <2>2. Mail!IsPage(<< >>) /\ DOMAIN << >> = {}
      BY DEF Mail!IsPage
    <2>3. \A l \in DOMAIN v2 : Mail!TrueBut(v2[l], v7)
      BY <2>1 DEF Mail!HalfDone
    <2>4. Mail!IsPage(saved) /\ Mail!TrueBut(saved, v7)
      BY <2>2, <2>3 DEF Mail!TrueBut
    <2>5. Mail!IsPage(got) /\ Mail!TrueBut(got, v7)
      BY <2>4 DEF Mail!IsPage, Mail!TrueBut
    <2>6. Mail!Found(v6.listing) \ known \subseteq Messages
      BY DEF Mail!Found
    <2> HIDE DEF got, known
    <2>7. /\ v6 = [op |-> "refresh", listing |-> v6.listing, asked |-> v6.asked, todo |-> v6.todo, got |-> v6.got]
          /\ v6.listing \in {<<"Inbox", "all">>, <<"Archive", "all">>}
      BY <2>1 DEF Mail!MailCommands
    <2>8. v6' = [op |-> "refresh", listing |-> v6.listing, asked |-> TRUE,
                 todo |-> Mail!Found(v6.listing) \ known, got |-> got]
      BY <2>1, <2>7
    <2>9. Mail!MailTypeOK'
      BY <2>1, <2>5, <2>6, <2>7, <2>8
    <2> QED  BY <2>1, <2>5, <2>8, <2>9 DEF Mail!TrueBut, Mail!InHand, Mail!HalfDone
  <1>9. CASE Mail!FetchNext
    <2>1. v6.op = "refresh" /\ UNCHANGED <<v1, v2, v3, v4, v5, v7, v8>>
      BY <1>9 DEF Mail!FetchNext
    <2>2. /\ v6 = [op |-> "refresh", listing |-> v6.listing, asked |-> v6.asked, todo |-> v6.todo, got |-> v6.got]
          /\ v6.listing \in {<<"Inbox", "all">>, <<"Archive", "all">>} /\ v6.asked \in BOOLEAN
          /\ v6.todo \subseteq Messages /\ Mail!IsPage(v6.got)
      BY <2>1 DEF Mail!MailCommands
    <2> DEFINE got(i) == [j \in DOMAIN v6.got \cup {i} |-> IF j = i THEN Mail!Normalize(v1[i]) ELSE v6.got[j]]
    <2>3. PICK i \in v6.todo : v6' = [v6 EXCEPT !.todo = @ \ {i}, !.got = got(i)]
      BY <1>9 DEF Mail!FetchNext
    <2>4. Mail!IsPage(got(i)) /\ Mail!TrueBut(got(i), v7)
      BY <2>1, <2>2, NormalizedIsCopy DEF Mail!IsPage, Mail!TrueBut
    <2> HIDE DEF got
    <2>5. v6' = [op |-> "refresh", listing |-> v6.listing, asked |-> v6.asked, todo |-> v6.todo \ {i}, got |-> got(i)]
      <3> DEFINE rest == v6.todo \ {i}
                 fetched == got(i)
      <3>1. v6' = [v6 EXCEPT !.todo = rest, !.got = fetched]
        BY <2>3
      <3>2. v6 = [op |-> "refresh", listing |-> v6.listing, asked |-> v6.asked, todo |-> v6.todo, got |-> v6.got]
        BY <2>2
      <3> HIDE DEF rest, fetched, Mail!MailInv, Mail!MailTypeOK, Mail!CopiesAreTrue
      <3>3. v6' = [op |-> "refresh", listing |-> v6.listing, asked |-> v6.asked, todo |-> rest, got |-> fetched]
        <4>1. [v6 EXCEPT !.todo = rest]
              = [op |-> "refresh", listing |-> v6.listing, asked |-> v6.asked, todo |-> rest, got |-> v6.got]
          BY <3>2
        <4>2. v6' = [[v6 EXCEPT !.todo = rest] EXCEPT !.got = fetched]
          BY <3>1
        <4> QED  BY <4>1, <4>2
      <3> QED  BY <3>3 DEF rest, fetched
    <2> QED  BY <2>1, <2>2, <2>4, <2>5 DEF Mail!TrueBut, Mail!InHand, Mail!HalfDone
  <1>10. CASE Mail!WritePage
    <2>1. /\ v6.op = "refresh" /\ Mail!Replace(v6.got) /\ UNCHANGED <<v1, v7>>
          /\ v2' = [l \in DOMAIN v2 \cup {v6.listing} |-> IF l = v6.listing THEN v6.got ELSE v2[l]]
      BY <1>10 DEF Mail!WritePage
    <2>2. v6.listing \in {<<"Inbox", "all">>, <<"Archive", "all">>} /\ Mail!IsPage(v6.got) /\ Mail!TrueBut(v6.got, v7)
      BY <2>1 DEF Mail!MailCommands
    <2>3. \A l \in DOMAIN v2 : Mail!TrueBut(v2[l], v7)
      BY <2>1 DEF Mail!HalfDone
    <2>4. /\ DOMAIN v2' \subseteq {<<"Inbox", "all">>, <<"Archive", "all">>}
          /\ \A l \in DOMAIN v2' : Mail!IsPage(v2'[l]) /\ Mail!TrueBut(v2'[l], v7)
      BY <2>1, <2>2, <2>3
    <2> HIDE DEF Mail!MailInv
    <2> QED  BY <1>d, <2>1, <2>2, <2>4
  <1>11. CASE Mail!Post
    <2>1. /\ v6.op = "modify" /\ v6.posted < Mail!Posts(v6.order)
          /\ v1' = [v1 EXCEPT ![v6.id] = Mail!Plan(v6.order, v6.posted + 1, @)]
          /\ v6' = [v6 EXCEPT !.posted = @ + 1] /\ UNCHANGED <<v2, v3, v4, v5, v7, v8>>
      BY <1>11 DEF Mail!Post
    <2>2. /\ v6 = [op |-> "modify", id |-> v6.id, order |-> v6.order, posted |-> v6.posted]
          /\ v6.id \in Messages /\ v6.posted \in 0..2
          /\ v6.order \in {"read", "unread", "archive", "trash", "inbox"}
      BY <2>1 DEF Mail!MailCommands
    <2>3. v6.posted + 1 \in 1..Mail!Posts(v6.order)
      BY <2>1, <2>2 DEF Mail!Posts
    <2>4. Mail!Plan(v6.order, v6.posted + 1, v1[v6.id]) \subseteq {"INBOX", "TRASH", "UNREAD"}
      BY <2>2, <2>3 DEF Mail!Plan, Mail!Posts
    <2>5. v1' \in [Messages -> SUBSET {"INBOX", "TRASH", "UNREAD"}] /\ \A i \in Messages \ {v6.id} : v1'[i] = v1[i]
      BY <2>1, <2>2, <2>4
    <2>6. v6' = [op |-> "modify", id |-> v6.id, order |-> v6.order, posted |-> v6.posted + 1]
      BY <2>1, <2>2
    <2>7. v6.posted + 1 \in 0..2 /\ v6.posted + 1 > 0
      BY <2>2, <2>3 DEF Mail!Posts
    <2>8. v6' \in Mail!MailCommands
      BY <2>2, <2>6, <2>7 DEF Mail!MailCommands
    <2>9. Mail!InHand = {v6.id} /\ (Mail!InHand)' = {v6.id} /\ (Mail!HalfDone)' = {v6.id} /\ v6'.op = "modify"
      BY <2>1, <2>6, <2>7 DEF Mail!InHand, Mail!HalfDone
    <2>10. \A l \in DOMAIN v2 : Mail!TrueBut(v2[l], v7 \cup Mail!HalfDone)'
      <3>1. v2' = v2 /\ v7' = v7 /\ Mail!HalfDone \subseteq {v6.id}
        BY <2>1, <2>9 DEF Mail!HalfDone
      <3>2. ASSUME NEW l \in DOMAIN v2, NEW i \in DOMAIN v2[l] \ (v7 \cup {v6.id})
            PROVE  v2[l][i] = Mail!Normalize(v1[i]) /\ i \in Messages \ {v6.id}
        BY <3>1 DEF Mail!TrueBut, Mail!IsPage
      <3> QED  BY <2>5, <2>9, <3>1, <3>2 DEF Mail!TrueBut, Mail!Normalize
    <2>11. Mail!TrueBut(v3, v7 \cup v8 \cup Mail!InHand)'
      BY <2>1, <2>5, <2>9 DEF Mail!TrueBut, Mail!IsPage
    <2>12. Mail!MailTypeOK'
      BY <2>1, <2>5, <2>8
    <2> QED  BY <2>1, <2>9, <2>10, <2>11, <2>12
  <1>12. CASE Mail!ReadBack
    <2> DEFINE copy == Mail!Normalize(v1[v6.id])
    <2>1. /\ v6.op \in {"get", "modify"} /\ Mail!UpdateCachedMessage(v6.id, copy)
          /\ Mail!ApplyRemoteMessage(v6.id, copy) /\ v7' = v7 \ {v6.id} /\ v8' = v8 \ {v6.id}
          /\ v6' = [op |-> "none"] /\ v1' = v1
      BY <1>12 DEF Mail!ReadBack, Mail!Idle
    <2>2. v2' = [l \in DOMAIN v2 |-> Mail!Put(v2[l], v6.id, copy)] /\ Mail!Rebuild(Mail!Put(v3, v6.id, copy), v4)
      BY <2>1 DEF Mail!UpdateCachedMessage, Mail!ApplyRemoteMessage
    <2>3. copy \in Mail!Copies
      BY NormalizedIsCopy
    <2>4. Mail!HalfDone \subseteq {v6.id} /\ Mail!InHand \subseteq {v6.id}
      BY DEF Mail!HalfDone, Mail!InHand
    <2>5. ASSUME NEW copies, Mail!IsPage(copies), NEW except, Mail!TrueBut(copies, except)
          PROVE  /\ Mail!IsPage(Mail!Put(copies, v6.id, copy))
                 /\ Mail!TrueBut(Mail!Put(copies, v6.id, copy), except \ {v6.id})
      <3> HIDE DEF copy
      <3>1. /\ Mail!IsPage(Mail!Put(copies, v6.id, copy))
            /\ DOMAIN Mail!Put(copies, v6.id, copy) = DOMAIN copies
            /\ \A k \in DOMAIN copies : Mail!Put(copies, v6.id, copy)[k] = IF k = v6.id THEN copy ELSE copies[k]
        BY <2>3, <2>5, PutKeepsPage
      <3> QED  BY <2>5, <3>1 DEF copy, Mail!TrueBut
    <2> HIDE DEF copy
    <2>6. \A l \in DOMAIN v2 : Mail!IsPage(v2'[l]) /\ Mail!TrueBut(v2[l], v7)'
      <3> SUFFICES ASSUME NEW l \in DOMAIN v2 PROVE Mail!IsPage(v2'[l]) /\ Mail!TrueBut(v2[l], v7)'
        OBVIOUS
      <3>1. Mail!IsPage(v2[l]) /\ Mail!TrueBut(v2[l], v7 \cup Mail!HalfDone)
        OBVIOUS
      <3>2. v2'[l] = Mail!Put(v2[l], v6.id, copy)
        BY <2>2
      <3>3. Mail!IsPage(v2'[l]) /\ Mail!TrueBut(v2'[l], (v7 \cup Mail!HalfDone) \ {v6.id})
        BY <2>5, <3>1, <3>2
      <3> QED  BY <2>1, <2>4, <3>3 DEF Mail!TrueBut
    <2>7. /\ Mail!IsPage(Mail!Put(v3, v6.id, copy))
          /\ Mail!TrueBut(Mail!Put(v3, v6.id, copy), (v7 \cup v8 \cup Mail!InHand) \ {v6.id})
      BY <2>5
    <2>8. v3' = Mail!Put(v3, v6.id, copy) /\ Mail!IsPage(v3') /\ v4' = v4 /\ v5' \in Messages \cup {Nil}
      BY <1>a, <2>2, <2>7
    <2>9. Mail!TrueBut(v3, v7 \cup v8)'
      BY <2>1, <2>4, <2>7, <2>8 DEF Mail!TrueBut
    <2>10. v6' \in Mail!MailCommands /\ (Mail!InHand)' = {} /\ (Mail!HalfDone)' = {} /\ DOMAIN v2' = DOMAIN v2
      BY <2>1, <2>2 DEF Mail!MailCommands, Mail!InHand, Mail!HalfDone
    <2>11. Mail!MailTypeOK'
      BY <2>1, <2>6, <2>8, <2>10
    <2> QED  BY <2>1, <2>6, <2>9, <2>10, <2>11 DEF Mail!TrueBut
  <1>13. CASE Mail!RequestFails
    <2>1. /\ UNCHANGED <<v1, v2, v3, v4, v5>> /\ v6' = [op |-> "none"]
          /\ v7' = IF v6.op = "modify" /\ v6.posted > 0 THEN v7 \cup {v6.id} ELSE v7
          /\ v8' = IF v6.op = "modify" THEN v8 \cup {v6.id} ELSE v8
      BY <1>13 DEF Mail!RequestFails, Mail!Idle
    <2>2. v7' = v7 \cup Mail!HalfDone /\ v8' = v8 \cup Mail!InHand
      BY <2>1 DEF Mail!HalfDone, Mail!InHand
    <2>3. Mail!HalfDone \subseteq Messages /\ Mail!InHand \subseteq Messages
      BY DEF Mail!HalfDone, Mail!InHand, Mail!MailCommands
    <2>4. v6' \in Mail!MailCommands /\ (Mail!InHand)' = {} /\ (Mail!HalfDone)' = {}
      BY <2>1 DEF Mail!MailCommands, Mail!InHand, Mail!HalfDone
    <2> QED  BY <2>1, <2>2, <2>3, <2>4 DEF Mail!TrueBut
  <1> HIDE DEF Mail!MailInv
  <1> QED
    BY <1>1, <1>2, <1>3, <1>4, <1>5, <1>6, <1>7, <1>8, <1>9, <1>10, <1>11, <1>12, <1>13
    DEF Mail!MailNext

(***************************************************************************)
(* The wallpapers, when no commands of several processes run at once.      *)
(***************************************************************************)
\* Changing one folder leaves the others.
LEMMA FolderChanged ==
    ASSUME v1 \in Seq(Picture!Folders), NEW id \in DOMAIN v1, NEW new \in Picture!Folders
    PROVE  LET changed == [v1 EXCEPT ![id] = new]
           IN  /\ changed \in Seq(Picture!Folders) /\ Len(changed) = Len(v1)
               /\ DOMAIN changed = DOMAIN v1
               /\ \A i \in DOMAIN v1 : changed[i] = IF i = id THEN new ELSE v1[i]
  <1>1. id \in 1..Len(v1) /\ DOMAIN v1 = 1..Len(v1)
    OBVIOUS
  <1>2. [v1 EXCEPT ![id] = new] \in Seq(Picture!Folders) /\ Len([v1 EXCEPT ![id] = new]) = Len(v1)
    BY <1>1, ExceptSeq
  <1> QED  BY <1>1, <1>2

\* The jobs that commands make of Idle, field by field.
LEMMA IdleJob == Picture!Idle \in Picture!Jobs /\ Picture!Idle.pc = "idle"
  BY DEF Picture!Idle, Picture!Jobs, Picture!Scopes, Picture!Files

\* A command that links a folder next.
LEMMA LinkingJob ==
    ASSUME NEW scope \in Picture!Scopes, NEW pic \in Pictures \cup {Nil}, NEW dir \in 1..MaxFolders,
           NEW file \in Picture!Files
    PROVE  LET job == Picture!Linking(scope, pic, dir, file)
           IN  /\ job \in Picture!Jobs /\ job.pc = "relink" /\ job.scope = scope /\ job.pic = pic
               /\ job.dir = dir /\ job.file = file
  BY DEF Picture!Idle, Picture!Jobs, Picture!Scopes, Picture!Files, Picture!Linking, Picture!Ids

\* One that imports the picture it will apply.
LEMMA StageJob ==
    ASSUME NEW scope \in Picture!Scopes, NEW pic \in Pictures
    PROVE  LET job == [Picture!Idle EXCEPT !.pc = "stage", !.scope = scope, !.pic = pic]
           IN  job \in Picture!Jobs /\ job.pc = "stage"
  BY DEF Picture!Idle, Picture!Jobs, Picture!Scopes, Picture!Files, Picture!Ids

\* One that imports a picture for the library.
LEMMA AddJob ==
    ASSUME NEW pic \in Pictures
    PROVE  LET job == [Picture!Idle EXCEPT !.pc = "stage", !.pic = pic]
           IN  job \in Picture!Jobs /\ job.pc = "stage"
  BY DEF Picture!Idle, Picture!Jobs, Picture!Scopes, Picture!Files, Picture!Ids

\* One that removes a folder.
LEMMA RemoveJob ==
    ASSUME NEW dir \in 1..MaxFolders
    PROVE  LET job == [Picture!Idle EXCEPT !.pc = "remove", !.dir = dir]
           IN  job \in Picture!Jobs /\ job.pc = "remove" /\ job.dir = dir
  BY DEF Picture!Idle, Picture!Jobs, Picture!Scopes, Picture!Files, Picture!Ids

\* The library is empty at first, and nothing is linked.
LEMMA WallpaperAtStart == ASSUME Picture!Init PROVE Picture!WallpaperInv
  <1>1. << >> \in Seq(Picture!Folders) /\ Len(<< >>) = 0
    OBVIOUS
  <1> USE BoundsAreNumbers
  <1> USE DEF Picture!Init
  <1>2. \A p \in Picture!Procs : v5[p] = Picture!Idle
    OBVIOUS
  <1>3. Picture!WallpaperTypeOK
    <2>1. v5 \in [Picture!Procs -> Picture!Jobs] /\ \A p \in Picture!Procs : v5[p].pc = "idle"
      BY <1>2, IdleJob
    <2>2. v2 \in [Picture!Scopes -> Picture!Links \cup {Nil}] /\ v7 \in [Picture!Scopes -> SUBSET (Pictures \cup {Nil})]
      OBVIOUS
    <2>3. 0 \in 0..MaxKills /\ 0 <= MaxFolders
      OBVIOUS
    <2> QED  BY <1>1, <2>1, <2>2, <2>3 DEF Picture!WallpaperTypeOK
  <1>4. Picture!OneCommand /\ Picture!Blurred
    BY <1>2, IdleJob DEF Picture!OneCommand, Picture!Blurred
  <1>5. \A p \in Picture!Procs : Picture!Prepared(p, v5[p])
    BY <1>2, IdleJob DEF Picture!Prepared
  <1>6. \A s \in Picture!Scopes : Picture!Linked(s)
    BY DEF Picture!Linked
  <1> QED  BY <1>3, <1>4, <1>5, <1>6 DEF Picture!WallpaperInv

\* A command that is started changes its own job only, and that is prepared.
LEMMA Commanded ==
    ASSUME Picture!WallpaperInv, NEW p \in Picture!Procs, Picture!Command(p),
           \A q \in Picture!Procs \ {p} : v5[q].pc = "idle"
    PROVE  /\ v4' \in BOOLEAN /\ UNCHANGED <<v1, v2, v3, v6>>
           /\ \E job \in Picture!Jobs :
                /\ v5' = [v5 EXCEPT ![p] = job] /\ job.pc \in {"idle"} \cup Picture!Steps[p]
                /\ Picture!Prepared(p, job)
  <1> DEFINE Good(job) == /\ job \in Picture!Jobs /\ v5' = [v5 EXCEPT ![p] = job]
                          /\ job.pc \in {"idle"} \cup Picture!Steps[p] /\ Picture!Prepared(p, job)
  <1> USE BoundsAreNumbers
  <1> USE DEF Picture!WallpaperInv, Picture!WallpaperTypeOK
  <1>1. UNCHANGED <<v1, v2, v3, v6>>
    BY DEF Picture!Command
  <1>2. \A id \in DOMAIN v1 : v1[id] \in Picture!Folders /\ id \in 1..MaxFolders
    OBVIOUS
  <1>3. CASE p = "add"
    <2>1. PICK pic \in Pictures : Picture!StartAdd(pic)
      BY <1>3 DEF Picture!Command
    <2> DEFINE job == [Picture!Idle EXCEPT !.pc = "stage", !.pic = pic]
    <2>2. v5' = [v5 EXCEPT !["add"] = job] /\ v4' = v4
      BY <2>1 DEF Picture!StartAdd, Picture!Run
    <2>3. Good(job)
      <3>1. job \in Picture!Jobs /\ job.pc = "stage"
        BY AddJob
      <3> HIDE DEF job
      <3> QED  BY <1>3, <2>2, <3>1 DEF Picture!Steps, Picture!Prepared
    <2> QED  BY <1>1, <2>2, <2>3
  \* a wallpaper of the library that is linked next
  <1>4. ASSUME NEW scope \in Picture!Scopes, NEW id \in Picture!Listed,
               NEW file \in Picture!Files, Picture!Exists(id, file),
               v5' = [v5 EXCEPT ![p] = Picture!Linking(scope, v1[id].of, id, file)],
               p \in {"apply", "blur"},
               p = "blur" => scope = "wallpaper" /\ v1[id].of \in v7["wallpaper"]
        PROVE  \E job : Good(job)
    <2> DEFINE job == Picture!Linking(scope, v1[id].of, id, file)
    <2>1. v5' = [v5 EXCEPT ![p] = job]
      BY <1>4
    <2>2. id \in DOMAIN v1 /\ Picture!Exists(id, "wallpaper") /\ v1[id].of \in Pictures \cup {Nil}
      BY <1>2 DEF Picture!Listed, Picture!Exists, Picture!Folders
    <2>3. /\ job \in Picture!Jobs /\ job.pc = "relink" /\ job.scope = scope /\ job.pic = v1[id].of
          /\ job.dir = id /\ job.file = file
      <3>1. v1[id].of \in Pictures \cup {Nil} /\ id \in 1..MaxFolders
        BY <1>2, <2>2
      <3> DEFINE pic == v1[id].of
      <3>2. pic \in Pictures \cup {Nil}
        BY <3>1
      <3> HIDE DEF pic, Picture!WallpaperInv, Picture!WallpaperTypeOK
      <3>3. LET l == Picture!Linking(scope, pic, id, file)
            IN  /\ l \in Picture!Jobs /\ l.pc = "relink" /\ l.scope = scope /\ l.pic = pic
                /\ l.dir = id /\ l.file = file
        BY <1>4, <3>1, <3>2, LinkingJob
      <3> QED  BY <3>3 DEF pic
    <2> HIDE DEF job
    <2>4. Good(job)
      <3>1. job.pc \in {"idle"} \cup Picture!Steps[p]
        BY <1>4, <2>3 DEF Picture!Steps
      <3>2. Picture!Prepared(p, job)
        BY <1>4, <2>2, <2>3 DEF Picture!Prepared
      <3> QED  BY <2>1, <2>3, <3>1, <3>2
    <2> QED  BY <2>4
  <1>5. \A scope \in Picture!Scopes, id \in Picture!Listed :
          Picture!Variant(scope, id) \in Picture!Files /\ Picture!Exists(id, Picture!Variant(scope, id))
    BY DEF Picture!Variant, Picture!Listed, Picture!Exists, Picture!Files
  <1>6. CASE p = "apply" /\ \E scope \in Picture!Scopes, pic \in Pictures : Picture!ApplyOutside(scope, pic)
    <2>1. PICK scope \in Picture!Scopes, pic \in Pictures : Picture!ApplyOutside(scope, pic)
      BY <1>6
    <2>2. CASE Picture!Run("apply", [Picture!Idle EXCEPT !.pc = "stage", !.scope = scope, !.pic = pic])
      <3> DEFINE job == [Picture!Idle EXCEPT !.pc = "stage", !.scope = scope, !.pic = pic]
      <3>1. v5' = [v5 EXCEPT ![p] = job]
        BY <1>6, <2>2 DEF Picture!Run
      <3>2. Good(job)
        <4>1. job \in Picture!Jobs /\ job.pc = "stage"
          BY StageJob
        <4> HIDE DEF job
        <4> QED  BY <1>6, <3>1, <4>1 DEF Picture!Steps, Picture!Prepared
      <3> QED  BY <1>1, <2>1, <3>2 DEF Picture!ApplyOutside
    <2>3. ASSUME NEW id \in Picture!Imported(pic),
                 Picture!Run("apply", Picture!Linking(scope, pic, id, Picture!Variant(scope, id)))
          PROVE  \E job : Good(job)
      <3>1. id \in Picture!Listed /\ v1[id].of = pic
        BY DEF Picture!Imported, Picture!Listed
      <3>2. v5' = [v5 EXCEPT ![p] = Picture!Linking(scope, v1[id].of, id, Picture!Variant(scope, id))]
        BY <1>6, <2>3, <3>1 DEF Picture!Run
      <3> HIDE DEF Good
      <3> QED  BY <1>4, <1>5, <1>6, <3>1, <3>2
    <2> QED  BY <1>1, <2>1, <2>2, <2>3 DEF Picture!ApplyOutside
  <1>7. CASE p = "apply" /\ \E scope \in Picture!Scopes, id \in DOMAIN v1 : Picture!ApplyListed(scope, id)
    <2>1. PICK scope \in Picture!Scopes, id \in DOMAIN v1 : Picture!ApplyListed(scope, id)
      BY <1>7
    <2>2. /\ id \in Picture!Listed /\ v4' = v4
          /\ v5' = [v5 EXCEPT ![p] = Picture!Linking(scope, v1[id].of, id, Picture!Variant(scope, id))]
      BY <1>7, <2>1 DEF Picture!ApplyListed, Picture!Run
    <2>3. \E job : Good(job)
      <3> HIDE DEF Good
      <3> QED  BY <1>4, <1>5, <1>7, <2>2
    <2> QED  BY <1>1, <2>2, <2>3
  <1>8. CASE p = "blur"
    <2>1. PICK on \in BOOLEAN : Picture!SetBlurred(on)
      BY <1>8 DEF Picture!Command
    <2> DEFINE now == Picture!Current("wallpaper")
    <2>2. CASE now = Nil
      <3>1. v5' = [v5 EXCEPT ![p] = Picture!Idle] /\ v4' = on
        BY <1>8, <2>1, <2>2 DEF Picture!SetBlurred, Picture!Run
      <3>2. Good(Picture!Idle)
        BY <1>8, <3>1, IdleJob DEF Picture!Prepared
      <3> QED  BY <1>1, <3>1, <3>2
    <2>3. CASE now # Nil
      <3>1. /\ now = v2["wallpaper"] /\ now # Nil /\ now \in Picture!Links
            /\ Picture!Exists(now.folder, now.file)
        BY <2>3 DEF Picture!Current, Picture!Scopes
      <3>2. /\ now.folder \in Picture!Listed /\ v1[now.folder].of \in v7["wallpaper"]
        BY <1>8, <3>1 DEF Picture!Linked, Picture!Scopes, Picture!Procs, Picture!Listed, Picture!Exists
      <3> DEFINE file == Picture!ToggleFile(on, now)
      <3>3. file \in Picture!Files /\ Picture!Exists(now.folder, file)
        BY <3>1 DEF Picture!ToggleFile, Picture!Links, Picture!Files
      <3>4. v5' = [v5 EXCEPT ![p] = Picture!Linking("wallpaper", v1[now.folder].of, now.folder, file)] /\ v4' = on
        BY <1>8, <2>1, <2>3 DEF Picture!SetBlurred, Picture!Run
      <3>5. \E job : Good(job)
        <4> HIDE DEF Good, now, file
        <4>1. "wallpaper" \in Picture!Scopes
          BY DEF Picture!Scopes
        <4> QED  BY <1>4, <1>8, <3>2, <3>3, <3>4, <4>1
      <3> QED  BY <1>1, <3>4, <3>5
    <2> QED  BY <2>2, <2>3
  <1>9. CASE p = "delete"
    <2>1. PICK id \in DOMAIN v1 : Picture!Delete(id)
      BY <1>9 DEF Picture!Command
    <2>2. CASE Picture!ActiveScopes(id) = {}
      <3> DEFINE job == [Picture!Idle EXCEPT !.pc = "remove", !.dir = id]
      <3>1. v5' = [v5 EXCEPT ![p] = job] /\ v4' = v4
        BY <1>9, <2>1, <2>2 DEF Picture!Delete, Picture!Run
      <3>2. \A s \in Picture!Scopes : v2[s] # Nil => v2[s].folder # id
        BY <2>2 DEF Picture!ActiveScopes, Picture!Current, Picture!Linked
      <3>3. job \in Picture!Jobs /\ job.pc = "remove" /\ job.dir = id
        BY <1>2, RemoveJob
      <3>4. Good(job)
        <4> HIDE DEF job
        <4> QED  BY <1>9, <3>1, <3>2, <3>3 DEF Picture!Steps, Picture!Prepared
      <3> QED  BY <1>1, <3>1, <3>4
    <2>3. CASE Picture!ActiveScopes(id) # {}
      <3>1. v5' = [v5 EXCEPT ![p] = Picture!Idle] /\ v4' = v4
        BY <1>9, <2>1, <2>3 DEF Picture!Delete, Picture!Run
      <3>2. Good(Picture!Idle)
        BY <1>9, <3>1, IdleJob DEF Picture!Prepared
      <3> QED  BY <1>1, <3>1, <3>2
    <2> QED  BY <2>2, <2>3
  <1>10. CASE p = "state"
    <2>1. Picture!State
      BY <1>10 DEF Picture!Command
    <2>2. CASE Picture!Current("lockscreen") = Nil
      <3>1. v5' = [v5 EXCEPT ![p] = Picture!Idle] /\ v4' = v4
        BY <1>10, <2>1, <2>2 DEF Picture!State, Picture!Run
      <3>2. Good(Picture!Idle)
        BY <1>10, <3>1, IdleJob DEF Picture!Prepared
      <3> QED  BY <1>1, <3>1, <3>2
    <2>3. CASE Picture!Current("lockscreen") # Nil
      <3> DEFINE now == v2["lockscreen"]
                 job == [Picture!Idle EXCEPT !.pc = "assets", !.dir = now.folder, !.file = now.file]
      <3>1. v5' = [v5 EXCEPT ![p] = job] /\ v4' = v4
        BY <1>10, <2>1, <2>3 DEF Picture!State, Picture!Run
      <3>2. now \in Picture!Links
        BY <2>3 DEF Picture!Current, Picture!Scopes
      <3>3. job \in Picture!Jobs /\ job.pc = "assets"
        <4>1. now.folder \in 1..MaxFolders /\ now.file \in Picture!Files
          BY <3>2 DEF Picture!Links, Picture!Ids
        <4> DEFINE d == now.folder
                   f == now.file
        <4>2. d \in 1..MaxFolders /\ f \in Picture!Files
          BY <4>1
        <4> HIDE DEF d, f, Picture!WallpaperInv, Picture!WallpaperTypeOK
        <4>3. LET l == [Picture!Idle EXCEPT !.pc = "assets", !.dir = d, !.file = f]
              IN  l \in Picture!Jobs /\ l.pc = "assets"
          BY <4>2 DEF Picture!Idle, Picture!Jobs, Picture!Scopes, Picture!Files, Picture!Ids
        <4> QED  BY <4>3 DEF d, f
      <3>4. Good(job)
        <4> HIDE DEF job
        <4> QED  BY <1>10, <3>1, <3>3 DEF Picture!Steps, Picture!Prepared
      <3> QED  BY <1>1, <3>1, <3>4
    <2> QED  BY <2>2, <2>3
  <1> QED  BY <1>3, <1>6, <1>7, <1>8, <1>9, <1>10 DEF Picture!Command, Picture!Procs

\* Folders are only added, and only gain files.
Grown ==
    \A id \in DOMAIN v1 :
      /\ id \in DOMAIN v1' /\ v1'[id].of = v1[id].of /\ v1[id].files \subseteq v1'[id].files
      /\ v1[id].files = {} => v1'[id].files \subseteq {"blurred"}

\* A step of one command keeps the invariant if what it leaves that command is prepared.
LEMMA CommandMoves ==
    ASSUME Picture!WallpaperInv, NEW p \in Picture!Procs, NEW job \in Picture!Jobs,
           v5' = [v5 EXCEPT ![p] = job], job.pc \in {"idle"} \cup Picture!Steps[p],
           \A q \in Picture!Procs \ {p} : v5[q].pc = "idle",
           v1' \in Seq(Picture!Folders), Len(v1') <= MaxFolders,
           v2' \in [Picture!Scopes -> Picture!Links \cup {Nil}], v3' \in Picture!Ids \cup {Nil},
           v4' \in BOOLEAN, v6' \subseteq Picture!Links, v8' \in 0..MaxKills,
           v7' \in [Picture!Scopes -> SUBSET (Pictures \cup {Nil})],
           Picture!Blurred', Picture!Prepared(p, job)', \A s \in Picture!Scopes : Picture!Linked(s)'
    PROVE  Picture!WallpaperInv'
  <1>1. /\ v5 \in [Picture!Procs -> Picture!Jobs] /\ v5' \in [Picture!Procs -> Picture!Jobs] /\ v5'[p] = job
        /\ \A q \in Picture!Procs \ {p} : v5'[q] = v5[q] /\ v5'[q].pc = "idle"
    BY DEF Picture!WallpaperInv, Picture!WallpaperTypeOK
  <1>2. \A q \in Picture!Procs : v5'[q].pc \in {"idle"} \cup Picture!Steps[q]
    BY <1>1
  <1>3. Picture!WallpaperTypeOK'
    BY <1>1, <1>2 DEF Picture!WallpaperTypeOK
  <1>4. Picture!OneCommand'
    BY <1>1 DEF Picture!OneCommand
  <1>5. ASSUME NEW q \in Picture!Procs PROVE Picture!Prepared(q, v5[q])'
    <2>1. CASE q = p
      BY <1>1, <2>1 DEF Picture!Prepared
    <2>2. CASE q # p
      BY <1>1, <2>2 DEF Picture!Prepared
    <2> QED  BY <2>1, <2>2
  <1> QED  BY <1>3, <1>4, <1>5 DEF Picture!WallpaperInv

\* What the links name is still there when the folders grow, and still agreed on.
LEMMA LinksStay ==
    ASSUME Picture!WallpaperInv, Grown, v2' = v2, NEW s \in Picture!Scopes,
           \/ /\ v7'[s] = v7[s]
              /\ \/ v5["apply"].pc \notin {"spawn", "assets"}
                 \/ v5["apply"].scope # s
                 \/ v5' = v5
           \/ /\ v5["apply"].pc \in {"spawn", "assets"} /\ v5["apply"].scope = s
              /\ v5["apply"].pic \in v7'[s]
           \/ v5["apply"].pc = "idle" /\ v7'[s] = v7[s]
           \/ v5["apply"].pc \notin {"spawn", "assets"} /\ v7[s] \subseteq v7'[s]
    PROVE  Picture!Linked(s)'
  <1>1. Picture!Linked(s) /\ Picture!Prepared("apply", v5["apply"])
    BY DEF Picture!WallpaperInv, Picture!Procs
  <1> SUFFICES ASSUME v2[s] # Nil PROVE Picture!Linked(s)'
    BY DEF Picture!Linked
  <1>2. /\ v2[s].folder \in DOMAIN v1 /\ {v2[s].file, "wallpaper"} \subseteq v1[v2[s].folder].files
        /\ \/ v1[v2[s].folder].of \in v7[s]
           \/ v5["apply"].pc \in {"spawn", "assets"} /\ v5["apply"].scope = s
    BY <1>1 DEF Picture!Linked, Picture!Exists
  <1>3. /\ v2[s].folder \in DOMAIN v1' /\ {v2[s].file, "wallpaper"} \subseteq v1'[v2[s].folder].files
        /\ v1'[v2[s].folder].of = v1[v2[s].folder].of
    BY <1>2 DEF Grown
  <1>4. ASSUME v5["apply"].pc \in {"spawn", "assets"}, v5["apply"].scope = s
        PROVE  v1[v2[s].folder].of = v5["apply"].pic
    BY <1>1, <1>4 DEF Picture!Prepared
  <1> QED  BY <1>2, <1>3, <1>4 DEF Picture!Linked, Picture!Exists

\* So is the lockscreen's blurred copy.
LEMMA BlurStays == ASSUME Picture!Blurred, Grown, v3' = v3 PROVE Picture!Blurred'
  <1>1. v3 # Nil => v3 \in DOMAIN v1'
    BY DEF Picture!Blurred, Grown
  <1> QED  BY <1>1 DEF Picture!Blurred, Grown

\* The types that every step leaves to CommandMoves.
LEMMA WallpaperFacts ==
    ASSUME Picture!WallpaperInv
    PROVE  /\ v1 \in Seq(Picture!Folders) /\ Len(v1) <= MaxFolders /\ DOMAIN v1 = 1..Len(v1)
           /\ \A id \in DOMAIN v1 : v1[id] \in Picture!Folders /\ id \in 1..MaxFolders
           /\ v2 \in [Picture!Scopes -> Picture!Links \cup {Nil}] /\ v3 \in Picture!Ids \cup {Nil}
           /\ v4 \in BOOLEAN /\ v6 \subseteq Picture!Links /\ v8 \in 0..MaxKills
           /\ v7 \in [Picture!Scopes -> SUBSET (Pictures \cup {Nil})]
           /\ v5 \in [Picture!Procs -> Picture!Jobs]
           /\ \A p \in Picture!Procs :
                /\ v5[p].pc \in {"idle"} \cup Picture!Steps[p] /\ Picture!Prepared(p, v5[p])
                /\ v5[p].pc # "idle" => \A q \in Picture!Procs \ {p} : v5[q].pc = "idle"
           /\ Picture!Blurred
  BY BoundsAreNumbers DEF Picture!WallpaperInv, Picture!WallpaperTypeOK, Picture!OneCommand

\* A file more in a folder that has some, or the blurred copy in any.
LEMMA FileAdded ==
    ASSUME Picture!WallpaperInv, NEW id \in DOMAIN v1, NEW file \in Picture!Files,
           v1' = Picture!AddFile(id, file), file = "blurred" \/ v1[id].files # {}
    PROVE  v1' \in Seq(Picture!Folders) /\ Len(v1') = Len(v1) /\ Grown
  <1> DEFINE new == [v1[id] EXCEPT !.files = @ \cup {file}]
  <1>1. v1 \in Seq(Picture!Folders) /\ v1[id] \in Picture!Folders
    BY WallpaperFacts
  <1>2. new \in Picture!Folders /\ new.of = v1[id].of /\ new.files = v1[id].files \cup {file}
    BY <1>1 DEF Picture!Folders
  <1>3. v1' = [v1 EXCEPT ![id] = new]
    BY DEF Picture!AddFile
  <1> HIDE DEF new
  <1>4. /\ v1' \in Seq(Picture!Folders) /\ Len(v1') = Len(v1) /\ DOMAIN v1' = DOMAIN v1
        /\ \A i \in DOMAIN v1 : v1'[i] = IF i = id THEN new ELSE v1[i]
    BY <1>1, <1>2, <1>3, FolderChanged
  <1>5. Grown
    BY <1>2, <1>4 DEF Grown
  <1> QED  BY <1>4, <1>5

\* Nothing changed is growth too.
LEMMA NothingAdded == v1' = v1 => Grown
  BY DEF Grown

\* A command is started when the others are done.
LEMMA WallpaperStart ==
    ASSUME Picture!WallpaperInv, NEW p \in Picture!Procs, Picture!Start(p)
    PROVE  Picture!WallpaperInv'
  <1>1. /\ \A q \in Picture!Procs : v5[q].pc = "idle"
        /\ Picture!Command(p) /\ UNCHANGED <<v7, v8>>
    BY DEF Picture!Start, Picture!Others
  <1>2. v4' \in BOOLEAN /\ UNCHANGED <<v1, v2, v3, v6>>
    BY <1>1, Commanded
  <1>3. PICK job \in Picture!Jobs :
          /\ v5' = [v5 EXCEPT ![p] = job] /\ job.pc \in {"idle"} \cup Picture!Steps[p]
          /\ Picture!Prepared(p, job)
    BY <1>1, Commanded
  <1>4. Picture!Prepared(p, job)'
    BY <1>1, <1>2, <1>3 DEF Picture!Prepared, Picture!Exists
  <1>5. Grown
    BY <1>2, NothingAdded
  <1>6. Picture!Blurred'
    BY <1>2, <1>5, BlurStays, WallpaperFacts
  <1>7. \A s \in Picture!Scopes : Picture!Linked(s)'
    BY <1>1, <1>2, <1>5, LinksStay DEF Picture!Procs
  <1> QED  BY <1>1, <1>2, <1>3, <1>4, <1>6, <1>7, CommandMoves, WallpaperFacts

\* So is one whose process is killed; a page no longer knows if its picture is in use.
LEMMA WallpaperKilled ==
    ASSUME Picture!WallpaperInv, NEW p \in Picture!Procs, Picture!KilledCommand(p)
    PROVE  Picture!WallpaperInv'
  <1> USE BoundsAreNumbers
  <1>1. /\ \A q \in Picture!Procs \ {p} : v5[q].pc = "idle"
        /\ Picture!Command(p) /\ v8' = v8 + 1 /\ v8 < MaxKills
        /\ v7' = IF p = "apply" THEN [v7 EXCEPT ![v5[p].scope] = @ \cup {v5[p].pic}] ELSE v7
    BY DEF Picture!KilledCommand, Picture!Others
  <1>2. v4' \in BOOLEAN /\ UNCHANGED <<v1, v2, v3, v6>>
    BY <1>1, Commanded
  <1>3. PICK job \in Picture!Jobs :
          /\ v5' = [v5 EXCEPT ![p] = job] /\ job.pc \in {"idle"} \cup Picture!Steps[p]
          /\ Picture!Prepared(p, job)
    BY <1>1, Commanded
  <1>4. /\ v7 \in [Picture!Scopes -> SUBSET (Pictures \cup {Nil})] /\ v8' \in 0..MaxKills
        /\ v5[p].scope \in Picture!Scopes /\ v5[p].pic \in Pictures \cup {Nil}
    BY <1>1, WallpaperFacts DEF Picture!Jobs
  <1>5. /\ v7' \in [Picture!Scopes -> SUBSET (Pictures \cup {Nil})]
        /\ \A s \in Picture!Scopes : v7[s] \subseteq v7'[s]
        /\ p # "apply" => v7' = v7
        /\ p = "apply" => \A s \in Picture!Scopes :
             v7'[s] = IF s = v5[p].scope THEN v7[s] \cup {v5[p].pic} ELSE v7[s]
    BY <1>1, <1>4
  <1>6. Picture!Prepared(p, job)'
    BY <1>2, <1>3, <1>5 DEF Picture!Prepared, Picture!Exists, Picture!Scopes
  <1>7. Grown
    BY <1>2, NothingAdded
  <1>8. Picture!Blurred'
    BY <1>2, <1>7, BlurStays, WallpaperFacts
  <1>9. ASSUME NEW s \in Picture!Scopes PROVE Picture!Linked(s)'
    <2>1. CASE p # "apply"
      BY <1>1, <1>2, <1>5, <1>7, <2>1, LinksStay DEF Picture!Procs
    <2>2. CASE p = "apply"
      BY <1>2, <1>5, <1>7, <2>2, LinksStay
    <2> QED  BY <2>1, <2>2
  <1> QED  BY <1>1, <1>2, <1>3, <1>4, <1>5, <1>6, <1>8, <1>9, CommandMoves, WallpaperFacts

\* A picture is imported: copied, named, and its folder published.
LEMMA WallpaperStageCopy ==
    ASSUME Picture!WallpaperInv, NEW p \in {"apply", "add"}, Picture!StageCopy(p)
    PROVE  Picture!WallpaperInv'
  <1> USE BoundsAreNumbers
  <1>1. p \in Picture!Procs /\ v5[p] \in Picture!Jobs /\ v5[p].pc = "stage"
    BY WallpaperFacts DEF Picture!StageCopy, Picture!Procs
  <1> DEFINE n == Len(v1) + 1
             new == [of |-> v5[p].pic, temp |-> TRUE, files |-> {"wallpaper"}]
             next == [[v5[p] EXCEPT !.pc = "name"] EXCEPT !.dir = n]
  <1>2. new \in Picture!Folders /\ Len(v1) < MaxFolders /\ v1' = Append(v1, new)
    BY <1>1 DEF Picture!StageCopy, Picture!Folders, Picture!Jobs, Picture!Files
  <1>3. v5' = [v5 EXCEPT ![p] = next] /\ UNCHANGED <<v2, v3, v4, v6, v7, v8>>
    BY <1>1, WallpaperFacts DEF Picture!StageCopy, Picture!Jobs
  <1>4. n \in Picture!Ids
    BY <1>2, WallpaperFacts DEF Picture!Ids
  <1>5. PICK job \in Picture!Jobs :
          job = next /\ job.pc = "name" /\ job.dir = n /\ job.pic = v5[p].pic
    <2>1. next \in Picture!Jobs /\ next.pc = "name" /\ next.dir = n /\ next.pic = v5[p].pic
      BY <1>1, <1>4 DEF Picture!Jobs
    <2> HIDE DEF next
    <2> QED  BY <2>1
  <1> HIDE DEF next, new
  <1>6. /\ v1' \in Seq(Picture!Folders) /\ Len(v1') = n /\ DOMAIN v1' = 1..n /\ v1'[n] = new
        /\ \A id \in DOMAIN v1 : v1'[id] = v1[id]
    BY <1>2, WallpaperFacts
  <1>7. Grown
    BY <1>6, WallpaperFacts DEF Grown
  <1>8. Picture!Prepared(p, job)'
    <2>1. n \in DOMAIN v1' /\ "wallpaper" \in v1'[n].files /\ v1'[n].of = v5[p].pic
      BY <1>6, WallpaperFacts DEF new
    <2> QED  BY <1>5, <2>1 DEF Picture!Prepared, Picture!Exists
  <1>9. Picture!Blurred'
    BY <1>3, <1>7, BlurStays, WallpaperFacts
  <1>10. \A s \in Picture!Scopes : Picture!Linked(s)'
    <2>1. v5["apply"].pc \notin {"spawn", "assets"}
      BY <1>1, WallpaperFacts DEF Picture!Procs
    <2> QED  BY <1>3, <1>7, <2>1, LinksStay
  <1>11. job.pc \in {"idle"} \cup Picture!Steps[p]
    BY <1>5 DEF Picture!Steps
  <1>12. Len(v1') <= MaxFolders
    BY <1>2, <1>6, WallpaperFacts
  <1>13. \A q \in Picture!Procs \ {p} : v5[q].pc = "idle"
    BY <1>1, WallpaperFacts
  <1> HIDE DEF n
  <1> QED
    BY <1>1, <1>3, <1>5, <1>6, <1>8, <1>9, <1>10, <1>11, <1>12, <1>13, CommandMoves, WallpaperFacts

\* Its source path is written beside it.
LEMMA WallpaperStageNames ==
    ASSUME Picture!WallpaperInv, NEW p \in {"apply", "add"}, Picture!StageNames(p)
    PROVE  Picture!WallpaperInv'
  <1>1. p \in Picture!Procs /\ v5[p] \in Picture!Jobs /\ v5[p].pc = "name"
    BY WallpaperFacts DEF Picture!StageNames, Picture!Procs
  <1> DEFINE next == [v5[p] EXCEPT !.pc = "publish"]
  <1>2. /\ v1' = Picture!AddFile(v5[p].dir, "source_path") /\ v5' = [v5 EXCEPT ![p] = next]
        /\ UNCHANGED <<v2, v3, v4, v6, v7, v8>>
    BY <1>1, WallpaperFacts DEF Picture!StageNames, Picture!Jobs
  <1>3. /\ v5[p].dir \in DOMAIN v1 /\ "wallpaper" \in v1[v5[p].dir].files
        /\ v1[v5[p].dir].of = v5[p].pic
    BY <1>1, WallpaperFacts DEF Picture!Prepared, Picture!Exists
  <1>4. v1' \in Seq(Picture!Folders) /\ Len(v1') = Len(v1) /\ Grown
    <2>1. "source_path" \in Picture!Files /\ v1[v5[p].dir].files # {}
      BY <1>3 DEF Picture!Files
    <2> QED  BY <1>2, <1>3, <2>1, FileAdded
  <1>5. PICK job \in Picture!Jobs :
          job = next /\ job.pc = "publish" /\ job.dir = v5[p].dir /\ job.pic = v5[p].pic
    <2>1. /\ next \in Picture!Jobs /\ next.pc = "publish" /\ next.dir = v5[p].dir
          /\ next.pic = v5[p].pic
      BY <1>1 DEF Picture!Jobs
    <2> HIDE DEF next
    <2> QED  BY <2>1
  <1> HIDE DEF next
  <1>6. Picture!Prepared(p, job)'
    BY <1>3, <1>4, <1>5 DEF Picture!Prepared, Picture!Exists, Grown
  <1>7. Picture!Blurred'
    BY <1>2, <1>4, BlurStays, WallpaperFacts
  <1>8. \A s \in Picture!Scopes : Picture!Linked(s)'
    <2>1. v5["apply"].pc \notin {"spawn", "assets"}
      BY <1>1, WallpaperFacts DEF Picture!Procs
    <2> QED  BY <1>2, <1>4, <2>1, LinksStay
  <1>9. job.pc \in {"idle"} \cup Picture!Steps[p]
    BY <1>5 DEF Picture!Steps
  <1>10. \A q \in Picture!Procs \ {p} : v5[q].pc = "idle"
    BY <1>1, WallpaperFacts
  <1> QED
    BY <1>1, <1>2, <1>4, <1>5, <1>6, <1>7, <1>8, <1>9, <1>10, CommandMoves, WallpaperFacts

\* The staging folder gets its name, and an applied picture is linked next.
LEMMA WallpaperPublish ==
    ASSUME Picture!WallpaperInv, NEW p \in {"apply", "add"}, Picture!Publish(p)
    PROVE  Picture!WallpaperInv'
  <1>1. p \in Picture!Procs /\ v5[p] \in Picture!Jobs /\ v5[p].pc = "publish"
    BY WallpaperFacts DEF Picture!Publish, Picture!Procs
  <1> DEFINE id == v5[p].dir
             file == Picture!Variant(v5[p].scope, id)
             next == IF p = "add" THEN Picture!Idle
                     ELSE Picture!Linking(v5[p].scope, v5[p].pic, id, file)
             new == [v1[id] EXCEPT !.temp = FALSE]
  <1>2. /\ v5' = [v5 EXCEPT ![p] = next] /\ UNCHANGED <<v2, v3, v4, v6, v7, v8>>
        /\ v1' = [v1 EXCEPT ![id] = new]
    BY DEF Picture!Publish
  <1>3. id \in DOMAIN v1 /\ "wallpaper" \in v1[id].files /\ v1[id].of = v5[p].pic
    BY <1>1, WallpaperFacts DEF Picture!Prepared, Picture!Exists
  <1>4. new \in Picture!Folders /\ new.of = v1[id].of /\ new.files = v1[id].files
    BY <1>3, WallpaperFacts DEF Picture!Folders
  <1>5. file \in Picture!Files /\ file \in v1[id].files
    BY <1>3 DEF Picture!Variant, Picture!Files, Picture!Exists
  <1>6. v5[p].scope \in Picture!Scopes /\ v5[p].pic \in Pictures \cup {Nil} /\ id \in 1..MaxFolders
    BY <1>1, <1>3, WallpaperFacts DEF Picture!Jobs
  <1> HIDE DEF file, new
  <1>7. /\ next \in Picture!Jobs /\ next.pc \in {"idle"} \cup Picture!Steps[p]
        /\ next.pc = IF p = "add" THEN "idle" ELSE "relink"
        /\ p # "add" => next.pic = v5[p].pic /\ next.dir = id /\ next.file = file
    <2>1. CASE p = "add"
      BY <2>1, IdleJob
    <2>2. CASE p # "add"
      <3> DEFINE l == Picture!Linking(v5[p].scope, v5[p].pic, id, file)
      <3>1. /\ l \in Picture!Jobs /\ l.pc = "relink" /\ l.scope = v5[p].scope
            /\ l.pic = v5[p].pic /\ l.dir = id /\ l.file = file
        <4> DEFINE scope == v5[p].scope
                   pic == v5[p].pic
        <4>1. scope \in Picture!Scopes /\ pic \in Pictures \cup {Nil} /\ file \in Picture!Files
          BY <1>5, <1>6
        <4> HIDE DEF id, scope, pic
        <4>2. LET m == Picture!Linking(scope, pic, id, file)
              IN  /\ m \in Picture!Jobs /\ m.pc = "relink" /\ m.scope = scope
                  /\ m.pic = pic /\ m.dir = id /\ m.file = file
          BY <1>6, <4>1, LinkingJob
        <4> QED  BY <4>2 DEF scope, pic
      <3>2. p = "apply" /\ next = l
        BY <2>2
      <3> HIDE DEF l, next
      <3> QED  BY <2>2, <3>1, <3>2 DEF Picture!Steps
    <2> QED  BY <2>1, <2>2
  <1>14. PICK job \in Picture!Jobs : job = next
    BY <1>7
  <1> HIDE DEF next
  <1>8. /\ v1' \in Seq(Picture!Folders) /\ Len(v1') = Len(v1) /\ DOMAIN v1' = DOMAIN v1
        /\ \A i \in DOMAIN v1 : v1'[i] = IF i = id THEN new ELSE v1[i]
    BY <1>2, <1>3, <1>4, WallpaperFacts, FolderChanged
  <1>9. Grown
    BY <1>3, <1>4, <1>8 DEF Grown
  <1>10. Picture!Prepared(p, job)'
    BY <1>3, <1>4, <1>5, <1>7, <1>8, <1>14 DEF Picture!Prepared, Picture!Exists
  <1>11. Picture!Blurred'
    BY <1>2, <1>9, BlurStays, WallpaperFacts
  <1>12. \A s \in Picture!Scopes : Picture!Linked(s)'
    <2>1. v5["apply"].pc \notin {"spawn", "assets"}
      BY <1>1, WallpaperFacts DEF Picture!Procs
    <2> QED  BY <1>2, <1>9, <2>1, LinksStay
  <1>13. \A q \in Picture!Procs \ {p} : v5[q].pc = "idle"
    BY <1>1, WallpaperFacts
  <1> QED
    BY <1>1, <1>2, <1>7, <1>8, <1>10, <1>11, <1>12, <1>13, <1>14, CommandMoves, WallpaperFacts

\* A new link is renamed over the old one.
LEMMA WallpaperRelink ==
    ASSUME Picture!WallpaperInv, NEW p \in {"apply", "blur"}, Picture!Relink(p)
    PROVE  Picture!WallpaperInv'
  <1>1. p \in Picture!Procs /\ v5[p] \in Picture!Jobs /\ v5[p].pc = "relink"
    BY WallpaperFacts DEF Picture!Relink, Picture!Procs
  <1> DEFINE after == IF v5[p].scope = "lockscreen" THEN "assets" ELSE "spawn"
             new == [folder |-> v5[p].dir, file |-> v5[p].file]
  <1>2. PICK next \in Picture!Jobs :
          /\ next = [v5[p] EXCEPT !.pc = after] /\ next.pc = after /\ next.dir = v5[p].dir
          /\ next.scope = v5[p].scope /\ next.pic = v5[p].pic /\ next.file = v5[p].file
    <2> DEFINE made == [v5[p] EXCEPT !.pc = after]
    <2>1. /\ made \in Picture!Jobs /\ made.pc = after /\ made.dir = v5[p].dir
          /\ made.scope = v5[p].scope /\ made.pic = v5[p].pic /\ made.file = v5[p].file
      BY <1>1 DEF Picture!Jobs
    <2> HIDE DEF made
    <2>2. \E next \in Picture!Jobs :
          /\ next = made /\ next.pc = after /\ next.dir = v5[p].dir
          /\ next.scope = v5[p].scope /\ next.pic = v5[p].pic /\ next.file = v5[p].file
      BY <2>1
    <2> QED  BY <2>2 DEF made
  <1>3. v5' = [v5 EXCEPT ![p] = next] /\ UNCHANGED <<v1, v3, v4, v6, v7, v8>>
    BY <1>1, <1>2, WallpaperFacts DEF Picture!Relink
  <1>4. /\ Picture!Exists(v5[p].dir, "wallpaper") /\ v1[v5[p].dir].of = v5[p].pic
        /\ Picture!Exists(v5[p].dir, v5[p].file)
        /\ p = "blur" => v5[p].scope = "wallpaper" /\ v5[p].pic \in v7["wallpaper"]
    BY <1>1, WallpaperFacts DEF Picture!Prepared
  <1>5. new \in Picture!Links /\ v5[p].scope \in Picture!Scopes
    BY <1>1, <1>4, WallpaperFacts DEF Picture!Exists, Picture!Links, Picture!Jobs, Picture!Ids
  <1>6. v2' = [v2 EXCEPT ![v5[p].scope] = new]
    BY DEF Picture!Relink
  <1> HIDE DEF new
  <1>7. /\ v2' \in [Picture!Scopes -> Picture!Links \cup {Nil}] /\ v2'[v5[p].scope] = new
        /\ \A s \in Picture!Scopes \ {v5[p].scope} : v2'[s] = v2[s]
    BY <1>5, <1>6, WallpaperFacts
  <1>8. Picture!Prepared(p, next)'
    BY <1>2, <1>3, <1>4, <1>7 DEF Picture!Prepared, Picture!Exists, new
  <1>9. Picture!Blurred'
    BY <1>3, BlurStays, NothingAdded, WallpaperFacts
  <1>10. ASSUME NEW s \in Picture!Scopes PROVE Picture!Linked(s)'
    <2>1. CASE s = v5[p].scope
      <3>1. /\ v2'[s].folder = v5[p].dir /\ v2'[s].file = v5[p].file
        BY <1>7, <2>1 DEF new
      <3>2. p = "apply" => v5'["apply"] = next
        BY <1>3, <1>1, WallpaperFacts
      <3>3. p = "blur" => v1[v5[p].dir].of \in v7[s]
        BY <1>4, <2>1
      <3> QED  BY <1>2, <1>3, <1>4, <2>1, <3>1, <3>2, <3>3 DEF Picture!Linked, Picture!Exists
    <2>2. CASE s # v5[p].scope
      <3>1. v5["apply"].pc \notin {"spawn", "assets"}
        BY <1>1, WallpaperFacts DEF Picture!Procs
      <3>2. Picture!Linked(s) /\ v2'[s] = v2[s]
        BY <1>7, <2>2 DEF Picture!WallpaperInv
      <3> QED  BY <1>3, <3>1, <3>2 DEF Picture!Linked, Picture!Exists
    <2> QED  BY <2>1, <2>2
  <1>11. next.pc \in {"idle"} \cup Picture!Steps[p]
    BY <1>2, <1>4 DEF Picture!Steps
  <1>12. \A q \in Picture!Procs \ {p} : v5[q].pc = "idle"
    BY <1>1, WallpaperFacts
  <1> QED
    BY <1>1, <1>3, <1>7, <1>8, <1>9, <1>10, <1>11, <1>12, CommandMoves, WallpaperFacts

\* The command that ends has its picture agreed on.
LEMMA WallpaperEnds ==
    ASSUME Picture!WallpaperInv, NEW p \in {"apply", "blur", "state"}, v5[p].pc \in {"spawn", "assets"},
           v7' = Picture!Finished(p), Grown, v1' \in Seq(Picture!Folders), Len(v1') <= MaxFolders,
           v2' = v2, v4' = v4, v8' = v8, v5' = [v5 EXCEPT ![p] = Picture!Idle],
           v3' \in Picture!Ids \cup {Nil}, v6' \subseteq Picture!Links, Picture!Blurred'
    PROVE  Picture!WallpaperInv'
  <1>1. p \in Picture!Procs /\ v5[p] \in Picture!Jobs
    BY WallpaperFacts DEF Picture!Procs
  <1>2. v5[p].scope \in Picture!Scopes /\ v5[p].pic \in Pictures \cup {Nil}
    BY <1>1 DEF Picture!Jobs
  <1>3. /\ v7' \in [Picture!Scopes -> SUBSET (Pictures \cup {Nil})]
        /\ p # "apply" => v7' = v7
        /\ p = "apply" => \A s \in Picture!Scopes :
             v7'[s] = IF s = v5[p].scope THEN {v5[p].pic} ELSE v7[s]
    BY <1>2, WallpaperFacts DEF Picture!Finished
  <1>4. \A q \in Picture!Procs \ {p} : v5[q].pc = "idle"
    BY <1>1, WallpaperFacts
  <1>5. ASSUME NEW s \in Picture!Scopes PROVE Picture!Linked(s)'
    <2>1. CASE p # "apply"
      BY <1>3, <1>4, <2>1, LinksStay DEF Picture!Procs
    <2>2. CASE p = "apply" /\ s = v5[p].scope
      <3>1. v5["apply"].pic \in v7'[s]
        BY <1>3, <2>2
      <3> QED  BY <2>2, <3>1, LinksStay
    <2>3. CASE p = "apply" /\ s # v5[p].scope
      BY <1>3, <2>3, LinksStay
    <2> QED  BY <2>1, <2>2, <2>3
  <1>6. PICK job \in Picture!Jobs : job = Picture!Idle /\ job.pc = "idle"
    BY IdleJob
  <1>7. Picture!Prepared(p, job)'
    BY <1>6 DEF Picture!Prepared
  <1> QED
    BY <1>1, <1>3, <1>4, <1>5, <1>6, <1>7, CommandMoves, WallpaperFacts

\* The process that will renew the wallpaper's assets is left behind.
LEMMA WallpaperSpawn ==
    ASSUME Picture!WallpaperInv, NEW p \in {"apply", "blur"}, Picture!Spawn(p)
    PROVE  Picture!WallpaperInv'
  <1>1. p \in Picture!Procs /\ v5[p] \in Picture!Jobs /\ v5[p].pc = "spawn"
    BY WallpaperFacts DEF Picture!Spawn, Picture!Procs
  <1>2. v5[p].dir \in Picture!Ids /\ v5[p].file \in Picture!Files
    BY <1>1, WallpaperFacts DEF Picture!Prepared, Picture!Exists, Picture!Ids, Picture!Jobs
  <1>3. v6' \subseteq Picture!Links
    BY <1>2, WallpaperFacts DEF Picture!Spawn, Picture!Links
  <1>4. /\ v7' = Picture!Finished(p) /\ v5' = [v5 EXCEPT ![p] = Picture!Idle]
        /\ UNCHANGED <<v1, v2, v3, v4, v8>>
    BY DEF Picture!Spawn, Picture!Run
  <1>5. Grown /\ Picture!Blurred'
    BY <1>4, NothingAdded, BlurStays, WallpaperFacts
  <1> QED  BY <1>1, <1>3, <1>4, <1>5, WallpaperEnds, WallpaperFacts

\* The lockscreen's assets are renewed, or that fails and is ignored.
LEMMA WallpaperAssets ==
    ASSUME Picture!WallpaperInv, NEW p \in {"apply", "state"}, Picture!Assets(p)
    PROVE  Picture!WallpaperInv'
  <1>1. p \in Picture!Procs /\ v5[p].pc = "assets"
    BY DEF Picture!Assets, Picture!Procs
  <1>2. /\ v7' = Picture!Finished(p) /\ v5' = [v5 EXCEPT ![p] = Picture!Idle]
        /\ UNCHANGED <<v2, v4, v6, v8>>
    BY DEF Picture!Assets, Picture!Run
  <1>3. CASE UNCHANGED <<v1, v3>>
    <2>1. Grown /\ Picture!Blurred'
      BY <1>3, NothingAdded, BlurStays, WallpaperFacts
    <2> QED  BY <1>1, <1>2, <1>3, <2>1, WallpaperEnds, WallpaperFacts
  <1>4. CASE /\ Picture!Current("lockscreen") = [folder |-> v5[p].dir, file |-> v5[p].file]
             /\ v1' = Picture!AddFile(v5[p].dir, "blurred") /\ v3' = v5[p].dir
    <2>1. v5[p].dir \in DOMAIN v1 /\ v5[p].dir \in Picture!Ids
      <3>1. v5[p].dir \in 0..MaxFolders /\ v5[p].file \in Picture!Files
        BY <1>1, BoundsAreNumbers, WallpaperFacts DEF Picture!Jobs, Picture!Ids
      <3>2. Nil # [folder |-> v5[p].dir, file |-> v5[p].file]
        BY <3>1, NilIsNoLink DEF Picture!Files
      <3>3. v5[p].dir \in DOMAIN v1
        BY <1>4, <3>2 DEF Picture!Current, Picture!Exists
      <3> QED  BY <3>3, WallpaperFacts DEF Picture!Ids
    <2>2. v1' \in Seq(Picture!Folders) /\ Len(v1') = Len(v1) /\ Grown
      BY <1>4, <2>1, FileAdded DEF Picture!Files
    <2>3. v5[p].dir \in DOMAIN v1' /\ "blurred" \in v1'[v5[p].dir].files
      BY <1>4, <2>1, <2>2, WallpaperFacts DEF Grown, Picture!AddFile, Picture!Folders
    <2>4. Picture!Blurred'
      BY <1>4, <2>3 DEF Picture!Blurred
    <2> QED  BY <1>1, <1>2, <1>4, <2>1, <2>2, <2>4, WallpaperEnds, WallpaperFacts
  <1> QED  BY <1>3, <1>4 DEF Picture!Assets

\* A folder is removed when no link names it.
LEMMA WallpaperRemove == ASSUME Picture!WallpaperInv, Picture!Remove PROVE Picture!WallpaperInv'
  <1> DEFINE id == v5["delete"].dir
  <1>1. "delete" \in Picture!Procs /\ v5["delete"].pc = "remove"
    BY DEF Picture!Remove, Picture!Procs
  <1>2. /\ v1' = [v1 EXCEPT ![id] = Picture!Gone] /\ v5' = [v5 EXCEPT !["delete"] = Picture!Idle]
        /\ UNCHANGED <<v2, v3, v4, v6, v7, v8>>
    BY DEF Picture!Remove, Picture!Run
  <1>3. id \in DOMAIN v1 /\ \A s \in Picture!Scopes : v2[s] # Nil => v2[s].folder # id
    BY <1>1, WallpaperFacts DEF Picture!Prepared
  <1>4. Picture!Gone \in Picture!Folders /\ Picture!Gone.files = {}
    BY DEF Picture!Gone, Picture!Folders
  <1> HIDE DEF id
  <1>5. /\ v1' \in Seq(Picture!Folders) /\ Len(v1') = Len(v1) /\ DOMAIN v1' = DOMAIN v1
        /\ \A i \in DOMAIN v1 : v1'[i] = IF i = id THEN Picture!Gone ELSE v1[i]
    BY <1>2, <1>3, <1>4, WallpaperFacts, FolderChanged
  <1>6. Picture!Blurred'
    BY <1>2, <1>4, <1>5, WallpaperFacts DEF Picture!Blurred
  <1>7. ASSUME NEW s \in Picture!Scopes PROVE Picture!Linked(s)'
    <2>1. Picture!Linked(s)
      BY DEF Picture!WallpaperInv
    <2>2. v5["apply"].pc = "idle"
      BY <1>1, WallpaperFacts DEF Picture!Procs
    <2> QED  BY <1>2, <1>3, <1>5, <2>1, <2>2 DEF Picture!Linked, Picture!Exists
  <1>8. PICK job \in Picture!Jobs : job = Picture!Idle /\ job.pc = "idle"
    BY IdleJob
  <1>9. Picture!Prepared("delete", job)'
    BY <1>8 DEF Picture!Prepared
  <1>10. \A q \in Picture!Procs \ {"delete"} : v5[q].pc = "idle"
    BY <1>1, WallpaperFacts
  <1> QED
    BY <1>1, <1>2, <1>5, <1>6, <1>7, <1>8, <1>9, <1>10, CommandMoves, WallpaperFacts

\* The process left behind adds the blurred copy of the wallpaper in use, or nothing.
LEMMA WallpaperRefresh ==
    ASSUME Picture!WallpaperInv, NEW expected \in v6, Picture!Refresh(expected)
    PROVE  Picture!WallpaperInv'
  <1>1. v6' \subseteq Picture!Links /\ UNCHANGED <<v2, v3, v4, v5, v7, v8>>
    BY WallpaperFacts DEF Picture!Refresh
  <1>2. Grown /\ v1' \in Seq(Picture!Folders) /\ Len(v1') = Len(v1)
    <2>1. CASE v1' = v1
      BY <2>1, NothingAdded, WallpaperFacts
    <2>2. CASE /\ Picture!Current("wallpaper") = expected
               /\ v1' = Picture!AddFile(expected.folder, "blurred")
      <3>1. expected \in Picture!Links
        BY WallpaperFacts
      <3>2. expected # Nil
        BY <3>1, NilIsNoLink, BoundsAreNumbers DEF Picture!Links, Picture!Ids, Picture!Files
      <3>3. expected.folder \in DOMAIN v1
        BY <2>2, <3>2 DEF Picture!Current, Picture!Exists
      <3> QED  BY <2>2, <3>3, FileAdded DEF Picture!Files
    <2> QED  BY <2>1, <2>2 DEF Picture!Refresh
  <1>3. Picture!WallpaperTypeOK'
    BY <1>1, <1>2 DEF Picture!WallpaperInv, Picture!WallpaperTypeOK
  <1>4. Picture!OneCommand' /\ Picture!Blurred'
    BY <1>1, <1>2, BlurStays DEF Picture!WallpaperInv, Picture!OneCommand
  <1>5. ASSUME NEW p \in Picture!Procs PROVE Picture!Prepared(p, v5[p])'
    <2>1. Picture!Prepared(p, v5[p])
      BY DEF Picture!WallpaperInv
    <2> QED  BY <1>1, <1>2, <2>1 DEF Picture!Prepared, Picture!Exists, Grown
  <1>6. \A s \in Picture!Scopes : Picture!Linked(s)'
    BY <1>1, <1>2, LinksStay
  <1> QED  BY <1>3, <1>4, <1>5, <1>6 DEF Picture!WallpaperInv

\* All the steps of the wallpapers (apply_scope, delete_user_wallpaper, set_blurred_mode,
\* add_user_wallpaper, state_payload).
LEMMA WallpaperStep == ASSUME Picture!WallpaperInv, Picture!Next PROVE Picture!WallpaperInv'
  BY WallpaperStart, WallpaperKilled, WallpaperStageCopy, WallpaperStageNames, WallpaperPublish,
     WallpaperRelink, WallpaperSpawn, WallpaperAssets, WallpaperRemove, WallpaperRefresh
  DEF Picture!Next

\* With it, the picture in use is there and agreed on.
LEMMA WallpaperHolds ==
    ASSUME Picture!WallpaperInv PROVE Picture!InUseExists /\ Picture!InUseIsAgreed
  <1>1. \A s \in Picture!Scopes : Picture!Linked(s)
    BY DEF Picture!WallpaperInv
  <1>2. \A s \in Picture!Scopes : v2[s] # Nil => Picture!Exists(v2[s].folder, v2[s].file)
    BY <1>1 DEF Picture!Linked
  <1>3. ASSUME Picture!Current("lockscreen") # Nil, v3 = v2["lockscreen"].folder
        PROVE  Picture!Exists(v3, "blurred")
    <2>1. /\ v2["lockscreen"] # Nil /\ "lockscreen" \in Picture!Scopes
          /\ Picture!Exists(v3, v2["lockscreen"].file)
      BY <1>3 DEF Picture!Current, Picture!Scopes
    <2>2. v3 # Nil
      <3>1. v3 \in Picture!Ids
        BY <2>1, <1>3, WallpaperFacts DEF Picture!Links
      <3> QED  BY <3>1, NilIsNothing DEF Picture!Ids
    <2> QED  BY <2>1, <2>2, WallpaperFacts DEF Picture!Blurred, Picture!Exists
  <1>4. ASSUME NEW s \in Picture!Scopes, \A p \in Picture!Procs : v5[p].pc = "idle",
               Picture!Current(s) # Nil
        PROVE  v1[v2[s].folder].of \in v7[s]
    <2>1. v2[s] # Nil
      BY <1>4 DEF Picture!Current
    <2> QED  BY <1>1, <1>4, <2>1 DEF Picture!Linked, Picture!Procs
  <1> QED  BY <1>2, <1>3, <1>4 DEF Picture!InUseExists, Picture!InUseIsAgreed

(***************************************************************************)
(* The Bluetooth manager.                                                  *)
(***************************************************************************)
\* A set of numbers has a least one: < is well founded on the naturals.
LEMMA LeastNumber ==
    ASSUME NEW S, S \subseteq Nat, S # {}
    PROVE  \E d \in S : \A e \in S : d <= e
  <1> DEFINE R == OpToRel(<, Nat)
  <1>1. R = {ss \in Nat \X Nat : ss[1] < ss[2]}
    BY DEF OpToRel
  <1>2. IsWellFoundedOn(R, Nat)
    BY NatLessThanWellFounded
  <1> HIDE DEF R
  <1>3. PICK d \in S : \A e \in S : <<e, d>> \notin R
    BY <1>2, WFMin
  <1>4. ASSUME NEW e \in S PROVE d <= e
    <2>1. d \in Nat /\ e \in Nat /\ <<e, d>> \in Nat \X Nat
      OBVIOUS
    <2>2. ~ (e < d)
      BY <1>1, <1>3, <2>1
    <2> QED  BY <2>1, <2>2
  <1> QED  BY <1>3, <1>4

\* Among numbered devices one comes first.
LEMMA FirstOne ==
    ASSUME NEW S, S \subseteq Nat, S # {}
    PROVE  (CHOOSE d \in S : \A e \in S : d <= e) \in S
  BY LeastNumber

\* A process with devices still to try has a next one.
LEMMA TargetIsTodo ==
    ASSUME Bluetooth!BtTypeOK, NEW p \in Bluetooth!Users, v11[p] # {}
    PROVE  Bluetooth!Target(p) \in v11[p] /\ Bluetooth!Target(p) \in Paired
  BY FirstOne, DevicesAreNumbers DEF Bluetooth!Target, Bluetooth!BtTypeOK

\* Nothing runs, and nothing is cooling or snoozed, at the start.
LEMMA BluetoothAtStart == ASSUME Bluetooth!BtInit PROVE Bluetooth!BtInv
  <1>1. Bluetooth!Off \in Bluetooth!Statuses /\ Bluetooth!Fresh \in Bluetooth!Runtimes
        /\ Bluetooth!Off.config \in Bluetooth!Configs
    BY DEF Bluetooth!Off, Bluetooth!Fresh, Bluetooth!Statuses, Bluetooth!Runtimes,
         Bluetooth!Configs
  <1>2. Bluetooth!BtTypeOK
    BY <1>1 DEF Bluetooth!BtInit, Bluetooth!BtTypeOK, Bluetooth!Jobs, Bluetooth!Places
  <1>3. \A p \in Bluetooth!Users : v8[p] = "idle" /\ v7[p] = "none"
    BY DEF Bluetooth!BtInit
  <1>4. Bluetooth!OneRuns /\ \A p \in Bluetooth!Users : Bluetooth!Knows(p)
    BY <1>3 DEF Bluetooth!OneRuns, Bluetooth!Knows, Bluetooth!Auto
  <1> QED  BY <1>2, <1>4 DEF Bluetooth!BtInv, Bluetooth!BtInit, Bluetooth!Covers

\* The other processes are at rest, and stay so when one makes a step.
LEMMA OthersRest ==
    ASSUME Bluetooth!BtInv, NEW p \in Bluetooth!Users,
           \A q \in Bluetooth!Users \ {p} : v8[q] = "idle" /\ v8'[q] = v8[q] /\ v7'[q] = v7[q]
    PROVE  Bluetooth!OneRuns' /\ \A q \in Bluetooth!Users \ {p} : Bluetooth!Knows(q)'
  <1>1. \A q \in Bluetooth!Users \ {p} : v8'[q] = "idle" /\ v7'[q] = "none"
    BY DEF Bluetooth!BtInv, Bluetooth!Knows
  <1>2. Bluetooth!OneRuns'
    BY <1>1 DEF Bluetooth!OneRuns
  <1>3. \A q \in Bluetooth!Users \ {p} : Bluetooth!Knows(q)'
    BY <1>1 DEF Bluetooth!Knows, Bluetooth!Auto
  <1> QED  BY <1>2, <1>3

\* bluetoothctl power, save_config and bluetoothctl connect: what they change is told by the
\* cache no more, or only takes connections away from what it shows.
LEMMA BtActs ==
    ASSUME Bluetooth!BtInv, NEW p \in Bluetooth!Users,
           Bluetooth!Power(p) \/ Bluetooth!SaveConfig(p) \/ Bluetooth!Connect(p)
    PROVE  Bluetooth!BtInv'
  <1> USE DEF Bluetooth!Power, Bluetooth!SaveConfig, Bluetooth!Connect, Bluetooth!Go,
      Bluetooth!radio, Bluetooth!files, Bluetooth!mine, Bluetooth!Invalidate
  <1>0. /\ Bluetooth!BtTypeOK /\ Bluetooth!Knows(p) /\ Bluetooth!Covers(v5)
        /\ v6 # <<>> => Bluetooth!Right(v6[1])
        /\ v8[p] # "idle" /\ \A q \in Bluetooth!Users \ {p} : v8[q] = "idle"
        /\ v11[p] # {} => Bluetooth!Target(p) \in v11[p]
    BY TargetIsTodo DEF Bluetooth!BtInv, Bluetooth!OneRuns
  <1>1. Bluetooth!BtTypeOK'
    <2>1. CASE Bluetooth!Power(p)
      BY <1>0, <2>1 DEF Bluetooth!BtTypeOK, Bluetooth!Jobs, Bluetooth!Places
    <2>2. CASE Bluetooth!SaveConfig(p)
      BY <1>0, <2>2 DEF Bluetooth!BtTypeOK, Bluetooth!Jobs, Bluetooth!Places
    <2>3. CASE Bluetooth!Connect(p)
      BY <1>0, <2>3 DEF Bluetooth!BtTypeOK, Bluetooth!Jobs, Bluetooth!Places, Bluetooth!Knows,
           Bluetooth!Connects
    <2> QED  BY <2>1, <2>2, <2>3
  <1>2. Bluetooth!Covers(v5)'
    BY <1>0 DEF Bluetooth!BtTypeOK, Bluetooth!Covers, Bluetooth!Cooled, Bluetooth!Knows
  <1>3. v6' # <<>> => Bluetooth!Right(v6[1])'
    BY <1>0, <1>1 DEF Bluetooth!BtTypeOK, Bluetooth!Right, Bluetooth!Covers, Bluetooth!Cooled,
         Bluetooth!Knows
  <1>4. Bluetooth!Knows(p)'
    BY <1>0, <1>1, <1>2, <1>3 DEF Bluetooth!BtTypeOK, Bluetooth!Knows, Bluetooth!Right,
         Bluetooth!Covers, Bluetooth!Cooled, Bluetooth!Auto, Bluetooth!Forced, Bluetooth!Target
  <1>5. \A q \in Bluetooth!Users \ {p} : v8'[q] = v8[q] /\ v7'[q] = v7[q]
    BY <1>0 DEF Bluetooth!BtTypeOK, Bluetooth!Finish
  <1>6. Bluetooth!OneRuns' /\ \A q \in Bluetooth!Users \ {p} : Bluetooth!Knows(q)'
    BY <1>0, <1>5, OthersRest
  <1> QED  BY <1>1, <1>2, <1>3, <1>4, <1>6 DEF Bluetooth!BtInv

\* load_runtime covers what is snoozed, and a status just collected may be cached.
LEMMA BtFiles ==
    ASSUME Bluetooth!BtInv, NEW p \in Bluetooth!Users,
           Bluetooth!LoadRuntime(p) \/ Bluetooth!DropCache(p) \/ Bluetooth!WriteCache(p)
    PROVE  Bluetooth!BtInv'
  <1> USE DEF Bluetooth!LoadRuntime, Bluetooth!DropCache, Bluetooth!WriteCache, Bluetooth!Go,
      Bluetooth!radio, Bluetooth!files, Bluetooth!mine, Bluetooth!Invalidate
  <1>0. /\ Bluetooth!BtTypeOK /\ Bluetooth!Knows(p) /\ Bluetooth!Covers(v5)
        /\ v6 # <<>> => Bluetooth!Right(v6[1])
        /\ v8[p] # "idle" /\ \A q \in Bluetooth!Users \ {p} : v8[q] = "idle"
        /\ v11[p] # {} => Bluetooth!Target(p) \in v11[p]
    BY TargetIsTodo DEF Bluetooth!BtInv, Bluetooth!OneRuns
  <1>1. Bluetooth!BtTypeOK'
    <2>1. CASE Bluetooth!LoadRuntime(p)
      BY <1>0, <2>1 DEF Bluetooth!BtTypeOK, Bluetooth!Jobs, Bluetooth!Places
    <2>2. CASE Bluetooth!DropCache(p)
      BY <1>0, <2>2 DEF Bluetooth!BtTypeOK, Bluetooth!Jobs, Bluetooth!Places
    <2>3. CASE Bluetooth!WriteCache(p)
      <3>1. v10[p] \in Bluetooth!Statuses /\ v6' = <<v10[p]>>
        BY <1>0, <2>3 DEF Bluetooth!BtTypeOK
      <3> QED  BY <1>0, <2>3, <3>1 DEF Bluetooth!BtTypeOK, Bluetooth!Jobs, Bluetooth!Places,
          Bluetooth!Done
    <2> QED  BY <2>1, <2>2, <2>3
  <1>2. Bluetooth!Covers(v5)'
    BY <1>0 DEF Bluetooth!BtTypeOK, Bluetooth!Covers, Bluetooth!Cooled, Bluetooth!Knows
  <1>3. v6' # <<>> => Bluetooth!Right(v6[1])'
    BY <1>0, <1>1 DEF Bluetooth!BtTypeOK, Bluetooth!Right, Bluetooth!Covers, Bluetooth!Cooled,
         Bluetooth!Knows
  <1>4. Bluetooth!Knows(p)'
    <2>1. CASE Bluetooth!LoadRuntime(p)
      BY <1>0, <1>2, <2>1 DEF Bluetooth!BtTypeOK, Bluetooth!Knows, Bluetooth!Right,
           Bluetooth!Covers, Bluetooth!Cooled, Bluetooth!Auto, Bluetooth!Forced, Bluetooth!Target
    <2>2. CASE Bluetooth!DropCache(p)
      BY <1>0, <2>2 DEF Bluetooth!BtTypeOK, Bluetooth!Knows, Bluetooth!Right, Bluetooth!Covers,
           Bluetooth!Cooled, Bluetooth!Auto, Bluetooth!Forced, Bluetooth!Target
    <2>3. CASE Bluetooth!WriteCache(p)
      BY <1>0, <1>3, <2>3 DEF Bluetooth!BtTypeOK, Bluetooth!Knows, Bluetooth!Right,
           Bluetooth!Covers, Bluetooth!Cooled, Bluetooth!Auto, Bluetooth!Forced,
           Bluetooth!Target, Bluetooth!Done
    <2> QED  BY <2>1, <2>2, <2>3
  <1>5. \A q \in Bluetooth!Users \ {p} : v8'[q] = v8[q] /\ v7'[q] = v7[q]
    BY <1>0 DEF Bluetooth!BtTypeOK, Bluetooth!Finish
  <1>6. Bluetooth!OneRuns' /\ \A q \in Bluetooth!Users \ {p} : Bluetooth!Knows(q)'
    BY <1>0, <1>5, OthersRest
  <1> QED  BY <1>1, <1>2, <1>3, <1>4, <1>6 DEF Bluetooth!BtInv

\* publish_status_snapshot ends a command.
LEMMA BtPublish ==
    ASSUME Bluetooth!BtInv, NEW p \in Bluetooth!Users,
           Bluetooth!Publish(p)
    PROVE  Bluetooth!BtInv'
  <1> USE DEF Bluetooth!Publish, Bluetooth!Go, Bluetooth!radio, Bluetooth!files, Bluetooth!mine,
      Bluetooth!Invalidate, Bluetooth!Finish
  <1>0. /\ Bluetooth!BtTypeOK /\ Bluetooth!Knows(p) /\ Bluetooth!Covers(v5)
        /\ v6 # <<>> => Bluetooth!Right(v6[1])
        /\ v8[p] # "idle" /\ \A q \in Bluetooth!Users \ {p} : v8[q] = "idle"
        /\ v11[p] # {} => Bluetooth!Target(p) \in v11[p]
    BY TargetIsTodo DEF Bluetooth!BtInv, Bluetooth!OneRuns
  <1>1. Bluetooth!BtTypeOK'
    <2>1. Bluetooth!Off \in Bluetooth!Statuses /\ Bluetooth!Fresh \in Bluetooth!Runtimes
      BY DEF Bluetooth!Off, Bluetooth!Fresh, Bluetooth!Statuses, Bluetooth!Runtimes,
           Bluetooth!Configs
    <2> QED  BY <1>0, <2>1 DEF Bluetooth!BtTypeOK, Bluetooth!Jobs, Bluetooth!Places
  <1>2. Bluetooth!Covers(v5)'
    BY <1>0 DEF Bluetooth!BtTypeOK, Bluetooth!Covers, Bluetooth!Cooled, Bluetooth!Knows
  <1>3. v6' # <<>> => Bluetooth!Right(v6[1])'
    BY <1>0, <1>1 DEF Bluetooth!BtTypeOK, Bluetooth!Right, Bluetooth!Covers, Bluetooth!Cooled,
         Bluetooth!Knows
  <1>4. Bluetooth!Knows(p)'
    BY <1>0, <1>1, <1>2, <1>3 DEF Bluetooth!BtTypeOK, Bluetooth!Knows, Bluetooth!Right,
         Bluetooth!Covers, Bluetooth!Cooled, Bluetooth!Auto, Bluetooth!Forced, Bluetooth!Target
  <1>5. \A q \in Bluetooth!Users \ {p} : v8'[q] = v8[q] /\ v7'[q] = v7[q]
    BY <1>0 DEF Bluetooth!BtTypeOK, Bluetooth!Finish
  <1>6. Bluetooth!OneRuns' /\ \A q \in Bluetooth!Users \ {p} : Bluetooth!Knows(q)'
    BY <1>0, <1>5, OthersRest
  <1> QED  BY <1>1, <1>2, <1>3, <1>4, <1>6 DEF Bluetooth!BtInv

\* When no device could be connected, the tried ones cool down one by one.
LEMMA BtGives ==
    ASSUME Bluetooth!BtInv, NEW p \in Bluetooth!Users,
           Bluetooth!GiveUp(p) \/ Bluetooth!CoolDown(p)
    PROVE  Bluetooth!BtInv'
  <1> USE DEF Bluetooth!GiveUp, Bluetooth!CoolDown, Bluetooth!Go, Bluetooth!radio,
      Bluetooth!files, Bluetooth!mine, Bluetooth!Invalidate
  <1>0. /\ Bluetooth!BtTypeOK /\ Bluetooth!Knows(p) /\ Bluetooth!Covers(v5)
        /\ v6 # <<>> => Bluetooth!Right(v6[1])
        /\ v8[p] # "idle" /\ \A q \in Bluetooth!Users \ {p} : v8[q] = "idle"
        /\ v11[p] # {} => Bluetooth!Target(p) \in v11[p]
    BY TargetIsTodo DEF Bluetooth!BtInv, Bluetooth!OneRuns
  <1>1. Bluetooth!BtTypeOK'
    <2>1. CASE Bluetooth!GiveUp(p)
      BY <1>0, <2>1 DEF Bluetooth!BtTypeOK, Bluetooth!Jobs, Bluetooth!Places
    <2>2. CASE Bluetooth!CoolDown(p)
      <3>1. Bluetooth!Target(p) \in Paired /\ v9[p] \in Bluetooth!Runtimes
        BY <1>0, <2>2 DEF Bluetooth!BtTypeOK, Bluetooth!Knows
      <3>2. v5' \in Bluetooth!Runtimes
        BY <2>2, <3>1 DEF Bluetooth!Runtimes
      <3> QED  BY <1>0, <2>2, <3>2 DEF Bluetooth!BtTypeOK, Bluetooth!Jobs, Bluetooth!Places
    <2> QED  BY <2>1, <2>2
  <1>2. Bluetooth!Covers(v5)'
    <2>1. CASE Bluetooth!GiveUp(p)
      BY <1>0, <2>1 DEF Bluetooth!BtTypeOK, Bluetooth!Covers, Bluetooth!Cooled, Bluetooth!Knows
    <2>2. CASE Bluetooth!CoolDown(p)
      <3>1. v5'.cooling = v9[p].cooling \cup {Bluetooth!Target(p)} /\ v13' = v13
        BY <1>0, <2>2 DEF Bluetooth!BtTypeOK, Bluetooth!Runtimes
      <3>2. \A d \in v13 : d \in v9[p].cooling
        BY <1>0, <2>2 DEF Bluetooth!Covers, Bluetooth!Cooled, Bluetooth!Knows
      <3> QED  BY <3>1, <3>2 DEF Bluetooth!Covers
    <2> QED  BY <2>1, <2>2
  <1>3. v6' # <<>> => Bluetooth!Right(v6[1])'
    BY <1>0, <1>1 DEF Bluetooth!BtTypeOK, Bluetooth!Right, Bluetooth!Covers, Bluetooth!Cooled,
         Bluetooth!Knows
  <1>4. Bluetooth!Knows(p)'
    <2>1. CASE Bluetooth!GiveUp(p)
      <3>1. v11[p] = {} /\ v12[p] # {} /\ Bluetooth!Auto(p) /\ v6 = <<>>
        BY <1>0, <2>1 DEF Bluetooth!Knows
      <3>2. /\ v8'[p] = "end" \/ (v8'[p] = "cool" /\ v11'[p] = v12[p])
            /\ v7' = v7 /\ v6' = v6 /\ v13' = v13 /\ v2' = v2
        BY <1>0, <2>1 DEF Bluetooth!BtTypeOK
      <3> QED  BY <1>0, <3>1, <3>2 DEF Bluetooth!Knows, Bluetooth!Auto
    <2>2. CASE Bluetooth!CoolDown(p)
      <3>1. Bluetooth!Auto(p) /\ v6' = <<>> /\ v7' = v7 /\ v13' = v13
        BY <1>0, <2>2 DEF Bluetooth!Knows
      <3>2. v8'[p] = "end" \/ (v8'[p] = "cool" /\ v11'[p] # {})
        BY <1>0, <2>2, <3>1 DEF Bluetooth!BtTypeOK, Bluetooth!Knows
      <3> QED  BY <1>0, <3>1, <3>2 DEF Bluetooth!Knows, Bluetooth!Auto
    <2> QED  BY <2>1, <2>2
  <1>5. \A q \in Bluetooth!Users \ {p} : v8'[q] = v8[q] /\ v7'[q] = v7[q]
    BY <1>0 DEF Bluetooth!BtTypeOK, Bluetooth!Finish
  <1>6. Bluetooth!OneRuns' /\ \A q \in Bluetooth!Users \ {p} : Bluetooth!Knows(q)'
    BY <1>0, <1>5, OthersRest
  <1> QED  BY <1>1, <1>2, <1>3, <1>4, <1>6 DEF Bluetooth!BtInv

\* A disconnection snoozes the device; the process itself is then on its way to save the cooldown.
LEMMA BtDisconnect ==
    ASSUME Bluetooth!BtInv, NEW p \in Bluetooth!Users,
           Bluetooth!Disconnect(p)
    PROVE  Bluetooth!BtInv'
  <1> USE DEF Bluetooth!Disconnect, Bluetooth!Go, Bluetooth!radio, Bluetooth!files,
      Bluetooth!mine, Bluetooth!Invalidate
  <1>0. /\ Bluetooth!BtTypeOK /\ Bluetooth!Knows(p) /\ Bluetooth!Covers(v5)
        /\ v6 # <<>> => Bluetooth!Right(v6[1])
        /\ v8[p] # "idle" /\ \A q \in Bluetooth!Users \ {p} : v8[q] = "idle"
        /\ v11[p] # {} => Bluetooth!Target(p) \in v11[p]
    BY TargetIsTodo DEF Bluetooth!BtInv, Bluetooth!OneRuns
  <1>1. Bluetooth!BtTypeOK'
    BY <1>0 DEF Bluetooth!BtTypeOK, Bluetooth!Jobs, Bluetooth!Places
  <1>2. Bluetooth!Covers(v5)'
    <2>1. \A d \in v13 : d \in v5.cooling
      BY <1>0 DEF Bluetooth!Covers, Bluetooth!Cooled
    <2>2. CASE v13' = v13
      BY <2>1, <2>2 DEF Bluetooth!Covers
    <2>3. CASE v13' # v13
      <3>1. PICK t : t = Bluetooth!Target(p)
        OBVIOUS
      <3>2. v13' = v13 \cup {t} /\ v7'[p] = "disconnect" /\ v8'[p] = "load" /\ t \in v11'[p]
        <4>1. v7' = v7 /\ v11' = v11 /\ v8' = [v8 EXCEPT ![p] = "load"] /\ v13' = v13 \cup {t}
          BY <2>3, <3>1
        <4>2. v11[p] # {}
          BY <1>0 DEF Bluetooth!Knows
        <4> QED  BY <1>0, <3>1, <4>1, <4>2 DEF Bluetooth!BtTypeOK
      <3>3. \A d \in v13' : d \in v5'.cooling \/ Bluetooth!Cooled(p, d)'
        BY <2>1, <3>2 DEF Bluetooth!Cooled
      <3> QED  BY <3>3 DEF Bluetooth!Covers
    <2> QED  BY <2>2, <2>3
  <1>3. v6' # <<>> => Bluetooth!Right(v6[1])'
    <2> SUFFICES ASSUME v6' # <<>> PROVE Bluetooth!Right(v6[1])'
      OBVIOUS
    <2>1. \A d \in v13 : d \in v6[1].runtime.cooling
      BY <1>0 DEF Bluetooth!Covers, Bluetooth!Cooled, Bluetooth!Right
    <2>2. /\ v6' = v6 /\ v6[1].config = v4' /\ v2' \subseteq v6[1].connected
      BY <1>0 DEF Bluetooth!Right
    <2>3. \A d \in v13' : d \in v6[1].runtime.cooling \/ Bluetooth!Cooled(p, d)'
      <3>1. PICK t : t = Bluetooth!Target(p)
        OBVIOUS
      <3>2. CASE v13' # v13
        <4>1. v7' = v7 /\ v11' = v11 /\ v8' = [v8 EXCEPT ![p] = "load"] /\ v13' = v13 \cup {t}
          BY <3>2, <3>1
        <4>2. v11[p] # {}
          BY <1>0 DEF Bluetooth!Knows
        <4>3. v7'[p] = "disconnect" /\ v8'[p] = "load" /\ t \in v11'[p]
          BY <1>0, <3>1, <4>1, <4>2 DEF Bluetooth!BtTypeOK
        <4> QED  BY <2>1, <4>1, <4>3 DEF Bluetooth!Cooled
      <3>3. CASE v13' = v13
        BY <2>1, <3>3
      <3> QED  BY <3>2, <3>3
    <2> QED  BY <2>2, <2>3 DEF Bluetooth!Right, Bluetooth!Covers
  <1>4. Bluetooth!Knows(p)'
    BY <1>0, <1>1, <1>2, <1>3 DEF Bluetooth!BtTypeOK, Bluetooth!Knows, Bluetooth!Right,
         Bluetooth!Covers, Bluetooth!Cooled, Bluetooth!Auto, Bluetooth!Forced, Bluetooth!Target
  <1>5. \A q \in Bluetooth!Users \ {p} : v8'[q] = v8[q] /\ v7'[q] = v7[q]
    BY <1>0 DEF Bluetooth!BtTypeOK, Bluetooth!Finish
  <1>6. Bluetooth!OneRuns' /\ \A q \in Bluetooth!Users \ {p} : Bluetooth!Knows(q)'
    BY <1>0, <1>5, OthersRest
  <1> QED  BY <1>1, <1>2, <1>3, <1>4, <1>6 DEF Bluetooth!BtInv

\* save_runtime adds the cooldown of a disconnection, or drops that of a device that is not snoozed.
LEMMA BtSaveRuntime ==
    ASSUME Bluetooth!BtInv, NEW p \in Bluetooth!Users,
           Bluetooth!SaveRuntime(p)
    PROVE  Bluetooth!BtInv'
  <1> USE DEF Bluetooth!SaveRuntime, Bluetooth!Go, Bluetooth!radio, Bluetooth!files,
      Bluetooth!mine, Bluetooth!Invalidate
  <1>0. /\ Bluetooth!BtTypeOK /\ Bluetooth!Knows(p) /\ Bluetooth!Covers(v5)
        /\ v6 # <<>> => Bluetooth!Right(v6[1])
        /\ v8[p] # "idle" /\ \A q \in Bluetooth!Users \ {p} : v8[q] = "idle"
        /\ v11[p] # {} => Bluetooth!Target(p) \in v11[p]
    BY TargetIsTodo DEF Bluetooth!BtInv, Bluetooth!OneRuns
  <1>1. Bluetooth!BtTypeOK'
    <2>1. Bluetooth!Edited(p) \subseteq Paired
      <3>1. v9[p].cooling \subseteq Paired
        BY <1>0 DEF Bluetooth!BtTypeOK, Bluetooth!Runtimes
      <3>2. v7[p] = "disconnect" => Bluetooth!Target(p) \in Paired
        BY <1>0 DEF Bluetooth!BtTypeOK, Bluetooth!Knows
      <3> QED  BY <3>1, <3>2 DEF Bluetooth!Edited
    <2>2. v5' \in Bluetooth!Runtimes
      BY <1>0, <2>1 DEF Bluetooth!BtTypeOK, Bluetooth!Runtimes
    <2> QED  BY <1>0, <2>2 DEF Bluetooth!BtTypeOK, Bluetooth!Jobs, Bluetooth!Places
  <1>2. Bluetooth!Covers(v5)'
    <2>1. v5'.cooling = Bluetooth!Edited(p)
      BY <1>0 DEF Bluetooth!BtTypeOK, Bluetooth!Runtimes
    <2>2. ASSUME NEW d \in v13 PROVE d \in v9[p].cooling \/ Bluetooth!Cooled(p, d)
      BY <1>0 DEF Bluetooth!Covers, Bluetooth!Cooled, Bluetooth!Knows
    <2>3. CASE v7[p] = "disconnect"
      <3>1. v11[p] = {Bluetooth!Target(p)}
        BY <1>0, <2>3 DEF Bluetooth!Knows
      <3> QED  BY <2>1, <2>2, <2>3, <3>1 DEF Bluetooth!Covers, Bluetooth!Edited, Bluetooth!Cooled
    <2>4. CASE v7[p] # "disconnect"
      <3>1. Bluetooth!Target(p) \notin v13
        BY <1>0, <2>4 DEF Bluetooth!Knows, Bluetooth!Auto
      <3> QED  BY <2>1, <2>2, <2>4, <3>1 DEF Bluetooth!Covers, Bluetooth!Edited, Bluetooth!Cooled
    <2> QED  BY <2>3, <2>4
  <1>3. v6' # <<>> => Bluetooth!Right(v6[1])'
    BY <1>0, <1>1 DEF Bluetooth!BtTypeOK, Bluetooth!Right, Bluetooth!Covers, Bluetooth!Cooled,
         Bluetooth!Knows
  <1>4. Bluetooth!Knows(p)'
    BY <1>0, <1>1, <1>2, <1>3 DEF Bluetooth!BtTypeOK, Bluetooth!Knows, Bluetooth!Right,
         Bluetooth!Covers, Bluetooth!Cooled, Bluetooth!Auto, Bluetooth!Forced, Bluetooth!Target
  <1>5. \A q \in Bluetooth!Users \ {p} : v8'[q] = v8[q] /\ v7'[q] = v7[q]
    BY <1>0 DEF Bluetooth!BtTypeOK, Bluetooth!Finish
  <1>6. Bluetooth!OneRuns' /\ \A q \in Bluetooth!Users \ {p} : Bluetooth!Knows(q)'
    BY <1>0, <1>5, OthersRest
  <1> QED  BY <1>1, <1>2, <1>3, <1>4, <1>6 DEF Bluetooth!BtInv

\* get_status_payload takes the cached status, or loads the runtime to collect one.
LEMMA BtReadCache ==
    ASSUME Bluetooth!BtInv, NEW p \in Bluetooth!Users,
           Bluetooth!ReadCache(p)
    PROVE  Bluetooth!BtInv'
  <1> USE DEF Bluetooth!ReadCache, Bluetooth!Go, Bluetooth!radio, Bluetooth!files,
      Bluetooth!mine, Bluetooth!Invalidate
  <1>0. /\ Bluetooth!BtTypeOK /\ Bluetooth!Knows(p) /\ Bluetooth!Covers(v5)
        /\ v6 # <<>> => Bluetooth!Right(v6[1])
        /\ v8[p] # "idle" /\ \A q \in Bluetooth!Users \ {p} : v8[q] = "idle"
        /\ v11[p] # {} => Bluetooth!Target(p) \in v11[p]
    BY TargetIsTodo DEF Bluetooth!BtInv, Bluetooth!OneRuns
  <1>1. Bluetooth!BtTypeOK'
    <2>1. v6 # <<>> => v6[1] \in Bluetooth!Statuses
      BY <1>0 DEF Bluetooth!BtTypeOK
    <2> QED  BY <1>0, <2>1 DEF Bluetooth!BtTypeOK, Bluetooth!Places, Bluetooth!Done
  <1>2. Bluetooth!Covers(v5)'
    BY <1>0 DEF Bluetooth!BtTypeOK, Bluetooth!Covers, Bluetooth!Cooled, Bluetooth!Knows
  <1>3. v6' # <<>> => Bluetooth!Right(v6[1])'
    BY <1>0, <1>1 DEF Bluetooth!BtTypeOK, Bluetooth!Right, Bluetooth!Covers, Bluetooth!Cooled,
         Bluetooth!Knows
  <1>4. Bluetooth!Knows(p)'
    <2>1. CASE v6 # <<>>
      <3>1. /\ Bluetooth!Right(v6[1])' /\ v6' = v6 /\ v10'[p] = v6[1] /\ v8'[p] = Bluetooth!Done(p)
            /\ v7' = v7 /\ v11' = v11 /\ v12' = v12 /\ v13' = v13
        BY <1>0, <1>3, <2>1 DEF Bluetooth!BtTypeOK
      <3>2. Bluetooth!Right(v10[p])'
        BY <3>1 DEF Bluetooth!Right, Bluetooth!Covers
      <3>3. v8'[p] \in {"decide", "publish"} /\ (v8'[p] = "decide" => Bluetooth!Auto(p))
        BY <3>1 DEF Bluetooth!Done
      <3> QED  BY <1>0, <2>1, <3>1, <3>2, <3>3 DEF Bluetooth!Knows, Bluetooth!Auto
    <2>2. CASE v6 = <<>>
      BY <1>0, <1>1, <1>2, <2>2 DEF Bluetooth!BtTypeOK, Bluetooth!Knows, Bluetooth!Right,
           Bluetooth!Covers, Bluetooth!Cooled, Bluetooth!Auto, Bluetooth!Forced, Bluetooth!Target
    <2> QED  BY <2>1, <2>2
  <1>5. \A q \in Bluetooth!Users \ {p} : v8'[q] = v8[q] /\ v7'[q] = v7[q]
    BY <1>0 DEF Bluetooth!BtTypeOK, Bluetooth!Finish
  <1>6. Bluetooth!OneRuns' /\ \A q \in Bluetooth!Users \ {p} : Bluetooth!Knows(q)'
    BY <1>0, <1>5, OthersRest
  <1> QED  BY <1>1, <1>2, <1>3, <1>4, <1>6 DEF Bluetooth!BtInv

\* _collect_status sees the adapter and the settings as they are.
LEMMA BtCollect ==
    ASSUME Bluetooth!BtInv, NEW p \in Bluetooth!Users,
           Bluetooth!Collect(p)
    PROVE  Bluetooth!BtInv'
  <1> USE DEF Bluetooth!Collect, Bluetooth!Go, Bluetooth!radio, Bluetooth!files, Bluetooth!mine,
      Bluetooth!Invalidate
  <1>0. /\ Bluetooth!BtTypeOK /\ Bluetooth!Knows(p) /\ Bluetooth!Covers(v5)
        /\ v6 # <<>> => Bluetooth!Right(v6[1])
        /\ v8[p] # "idle" /\ \A q \in Bluetooth!Users \ {p} : v8[q] = "idle"
        /\ v11[p] # {} => Bluetooth!Target(p) \in v11[p]
    BY TargetIsTodo DEF Bluetooth!BtInv, Bluetooth!OneRuns
  <1>1. Bluetooth!BtTypeOK'
    <2>1. [powered |-> v1, connected |-> v2, config |-> v4,
        runtime |-> v9[p]] \in Bluetooth!Statuses
      BY <1>0 DEF Bluetooth!BtTypeOK, Bluetooth!Statuses
    <2> QED  BY <1>0, <2>1 DEF Bluetooth!BtTypeOK, Bluetooth!Places
  <1>2. Bluetooth!Covers(v5)'
    BY <1>0 DEF Bluetooth!BtTypeOK, Bluetooth!Covers, Bluetooth!Cooled, Bluetooth!Knows
  <1>3. v6' # <<>> => Bluetooth!Right(v6[1])'
    BY <1>0, <1>1 DEF Bluetooth!BtTypeOK, Bluetooth!Right, Bluetooth!Covers, Bluetooth!Cooled,
         Bluetooth!Knows
  <1>4. Bluetooth!Knows(p)'
    BY <1>0, <1>1, <1>2, <1>3 DEF Bluetooth!BtTypeOK, Bluetooth!Knows, Bluetooth!Right,
         Bluetooth!Covers, Bluetooth!Cooled, Bluetooth!Auto, Bluetooth!Forced, Bluetooth!Target
  <1>5. \A q \in Bluetooth!Users \ {p} : v8'[q] = v8[q] /\ v7'[q] = v7[q]
    BY <1>0 DEF Bluetooth!BtTypeOK, Bluetooth!Finish
  <1>6. Bluetooth!OneRuns' /\ \A q \in Bluetooth!Users \ {p} : Bluetooth!Knows(q)'
    BY <1>0, <1>5, OthersRest
  <1> QED  BY <1>1, <1>2, <1>3, <1>4, <1>6 DEF Bluetooth!BtInv

\* run_autoconnect refuses, or has candidates that may be connected as things are.
LEMMA BtDecide ==
    ASSUME Bluetooth!BtInv, NEW p \in Bluetooth!Users,
           Bluetooth!Decide(p)
    PROVE  Bluetooth!BtInv'
  <1> USE DEF Bluetooth!Decide, Bluetooth!Go, Bluetooth!radio, Bluetooth!files, Bluetooth!mine,
      Bluetooth!Invalidate
  <1>0. /\ Bluetooth!BtTypeOK /\ Bluetooth!Knows(p) /\ Bluetooth!Covers(v5)
        /\ v6 # <<>> => Bluetooth!Right(v6[1])
        /\ v8[p] # "idle" /\ \A q \in Bluetooth!Users \ {p} : v8[q] = "idle"
        /\ v11[p] # {} => Bluetooth!Target(p) \in v11[p]
    BY TargetIsTodo DEF Bluetooth!BtInv, Bluetooth!OneRuns
  <1>1. Bluetooth!BtTypeOK'
    <2>1. /\ v10[p].runtime \in Bluetooth!Runtimes /\ v10[p].config.auto \subseteq Paired
          /\ [v10[p].runtime EXCEPT !.recent = TRUE] \in Bluetooth!Runtimes
      BY <1>0 DEF Bluetooth!BtTypeOK, Bluetooth!Statuses, Bluetooth!Runtimes, Bluetooth!Configs
    <2>2. Bluetooth!Candidates(p) \subseteq Paired
      BY <2>1 DEF Bluetooth!Candidates
    <2>3. CASE Bluetooth!Refuses(p)
      BY <1>0, <2>3 DEF Bluetooth!BtTypeOK, Bluetooth!Places
    <2>4. CASE ~Bluetooth!Refuses(p)
      <3>1. /\ v5' \in Bluetooth!Runtimes /\ v6' = <<>>
            /\ v11' = [v11 EXCEPT ![p] = Bluetooth!Candidates(p)] /\ v8' = [v8 EXCEPT ![p] = "try"]
        BY <2>1, <2>4
      <3>2. v11' \in [Bluetooth!Users -> SUBSET Paired] /\ v8' \in [Bluetooth!Users -> Bluetooth!Places]
        BY <1>0, <2>2, <3>1 DEF Bluetooth!BtTypeOK, Bluetooth!Places
      <3> QED  BY <1>0, <3>1, <3>2 DEF Bluetooth!BtTypeOK
    <2> QED  BY <2>3, <2>4
  <1>2. Bluetooth!Covers(v5)'
    <2>1. v13' = v13 /\ \A d \in v13 : d \in v5.cooling /\ d \in v10[p].runtime.cooling
      BY <1>0 DEF Bluetooth!Covers, Bluetooth!Cooled, Bluetooth!Right, Bluetooth!Knows
    <2>2. v5' = v5 \/ v5'.cooling = v10[p].runtime.cooling
      BY <1>0 DEF Bluetooth!BtTypeOK, Bluetooth!Statuses, Bluetooth!Runtimes
    <2> QED  BY <2>1, <2>2 DEF Bluetooth!Covers
  <1>3. v6' # <<>> => Bluetooth!Right(v6[1])'
    BY <1>0, <1>1 DEF Bluetooth!BtTypeOK, Bluetooth!Right, Bluetooth!Covers, Bluetooth!Cooled,
         Bluetooth!Knows
  <1>4. Bluetooth!Knows(p)'
    <2>1. CASE Bluetooth!Refuses(p)
      <3>1. v8'[p] = "end" /\ v7'[p] = v7[p] /\ v13' = v13 /\ v11' = v11 /\ v12' = v12 /\ Bluetooth!Auto(p)
        BY <1>0, <2>1 DEF Bluetooth!BtTypeOK, Bluetooth!Knows
      <3> QED  BY <1>0, <3>1 DEF Bluetooth!Knows, Bluetooth!Auto
    <2>2. CASE ~Bluetooth!Refuses(p)
      <3>1. /\ v8'[p] = "try" /\ v11'[p] = Bluetooth!Candidates(p) /\ v6' = <<>>
            /\ v7' = v7 /\ v13' = v13 /\ v4' = v4 /\ v2' = v2
        BY <1>0, <2>2 DEF Bluetooth!BtTypeOK
      <3>2. Bluetooth!Auto(p) /\ Bluetooth!Right(v10[p]) /\ (v7[p] = "force_autoconnect" => v13 = {})
        BY <1>0 DEF Bluetooth!Knows
      <3>3. v10[p].connected = {} /\ v10[p].config.enabled /\ Bluetooth!Candidates(p) # {}
        BY <2>2 DEF Bluetooth!Refuses
      <3>4. /\ v2' = {} /\ v4'.enabled /\ Bluetooth!Candidates(p) \subseteq v4'.auto
        BY <3>1, <3>2, <3>3 DEF Bluetooth!Right, Bluetooth!Candidates
      <3>5. Bluetooth!Candidates(p) \cap v13 = {}
        BY <1>0, <3>2 DEF Bluetooth!Right, Bluetooth!Covers, Bluetooth!Cooled,
             Bluetooth!Candidates, Bluetooth!Forced, Bluetooth!Auto
      <3> QED  BY <3>1, <3>2, <3>3, <3>4, <3>5 DEF Bluetooth!Knows, Bluetooth!Auto
    <2> QED  BY <2>1, <2>2
  <1>5. \A q \in Bluetooth!Users \ {p} : v8'[q] = v8[q] /\ v7'[q] = v7[q]
    BY <1>0 DEF Bluetooth!BtTypeOK, Bluetooth!Finish
  <1>6. Bluetooth!OneRuns' /\ \A q \in Bluetooth!Users \ {p} : Bluetooth!Knows(q)'
    BY <1>0, <1>5, OthersRest
  <1> QED  BY <1>1, <1>2, <1>3, <1>4, <1>6 DEF Bluetooth!BtInv

\* run_autoconnect ends: the thread rests, a command publishes one more status.
LEMMA BtEnd ==
    ASSUME Bluetooth!BtInv, NEW p \in Bluetooth!Users,
           Bluetooth!EndAutoconnect(p)
    PROVE  Bluetooth!BtInv'
  <1> USE DEF Bluetooth!EndAutoconnect, Bluetooth!Go, Bluetooth!radio, Bluetooth!files,
      Bluetooth!mine, Bluetooth!Invalidate, Bluetooth!Finish
  <1>0. /\ Bluetooth!BtTypeOK /\ Bluetooth!Knows(p) /\ Bluetooth!Covers(v5)
        /\ v6 # <<>> => Bluetooth!Right(v6[1])
        /\ v8[p] # "idle" /\ \A q \in Bluetooth!Users \ {p} : v8[q] = "idle"
        /\ v11[p] # {} => Bluetooth!Target(p) \in v11[p]
    BY TargetIsTodo DEF Bluetooth!BtInv, Bluetooth!OneRuns
  <1>1. Bluetooth!BtTypeOK'
    <2>1. Bluetooth!Off \in Bluetooth!Statuses /\ Bluetooth!Fresh \in Bluetooth!Runtimes
      BY DEF Bluetooth!Off, Bluetooth!Fresh, Bluetooth!Statuses, Bluetooth!Runtimes,
           Bluetooth!Configs
    <2>2. CASE Bluetooth!Finish(p)
      BY <1>0, <2>1, <2>2 DEF Bluetooth!BtTypeOK, Bluetooth!Places, Bluetooth!Jobs
    <2>3. CASE ~Bluetooth!Finish(p)
      BY <1>0, <2>3 DEF Bluetooth!BtTypeOK, Bluetooth!Places, Bluetooth!Jobs
    <2> QED  BY <2>2, <2>3
  <1>2. Bluetooth!Covers(v5)'
    BY <1>0 DEF Bluetooth!BtTypeOK, Bluetooth!Covers, Bluetooth!Cooled, Bluetooth!Knows
  <1>3. v6' # <<>> => Bluetooth!Right(v6[1])'
    BY <1>0, <1>1 DEF Bluetooth!BtTypeOK, Bluetooth!Right, Bluetooth!Covers, Bluetooth!Cooled,
         Bluetooth!Knows
  <1>4. Bluetooth!Knows(p)'
    BY <1>0, <1>1, <1>2, <1>3 DEF Bluetooth!BtTypeOK, Bluetooth!Knows, Bluetooth!Right,
         Bluetooth!Covers, Bluetooth!Cooled, Bluetooth!Auto, Bluetooth!Forced, Bluetooth!Target
  <1>5. \A q \in Bluetooth!Users \ {p} : v8'[q] = v8[q] /\ v7'[q] = v7[q]
    BY <1>0 DEF Bluetooth!BtTypeOK, Bluetooth!Finish
  <1>6. Bluetooth!OneRuns' /\ \A q \in Bluetooth!Users \ {p} : Bluetooth!Knows(q)'
    BY <1>0, <1>5, OthersRest
  <1> QED  BY <1>1, <1>2, <1>3, <1>4, <1>6 DEF Bluetooth!BtInv

\* An attempt connects no device but the next one.
LEMMA BtTry ==
    ASSUME Bluetooth!BtInv, NEW p \in Bluetooth!Users,
           Bluetooth!Try(p)
    PROVE  Bluetooth!BtInv'
  <1> USE DEF Bluetooth!Try, Bluetooth!Go, Bluetooth!radio, Bluetooth!files, Bluetooth!mine,
      Bluetooth!Invalidate
  <1>0. /\ Bluetooth!BtTypeOK /\ Bluetooth!Knows(p) /\ Bluetooth!Covers(v5)
        /\ v6 # <<>> => Bluetooth!Right(v6[1])
        /\ v8[p] # "idle" /\ \A q \in Bluetooth!Users \ {p} : v8[q] = "idle"
        /\ v11[p] # {} => Bluetooth!Target(p) \in v11[p]
    BY TargetIsTodo DEF Bluetooth!BtInv, Bluetooth!OneRuns
  <1>1. Bluetooth!BtTypeOK'
    BY <1>0 DEF Bluetooth!BtTypeOK, Bluetooth!Jobs, Bluetooth!Places
  <1>2. Bluetooth!Covers(v5)'
    BY <1>0 DEF Bluetooth!BtTypeOK, Bluetooth!Covers, Bluetooth!Cooled, Bluetooth!Knows
  <1>3. v6' # <<>> => Bluetooth!Right(v6[1])'
    BY <1>0, <1>1 DEF Bluetooth!BtTypeOK, Bluetooth!Right, Bluetooth!Covers, Bluetooth!Cooled,
         Bluetooth!Knows
  <1>4. Bluetooth!Knows(p)'
    <2>1. /\ v8'[p] = "verify" /\ v11' = v11 /\ v7' = v7 /\ v6' = v6 /\ v4' = v4 /\ v13' = v13
          /\ v12'[p] = v12[p] \cup {Bluetooth!Target(p)}
      BY <1>0 DEF Bluetooth!BtTypeOK
    <2>2. v2 = {} /\ v2' \subseteq {Bluetooth!Target(p)} /\ Bluetooth!Target(p)' = Bluetooth!Target(p)
      BY <1>0, <2>1 DEF Bluetooth!Knows, Bluetooth!Target
    <2> QED  BY <1>0, <2>1, <2>2 DEF Bluetooth!Knows, Bluetooth!Auto
  <1>5. \A q \in Bluetooth!Users \ {p} : v8'[q] = v8[q] /\ v7'[q] = v7[q]
    BY <1>0 DEF Bluetooth!BtTypeOK, Bluetooth!Finish
  <1>6. Bluetooth!OneRuns' /\ \A q \in Bluetooth!Users \ {p} : Bluetooth!Knows(q)'
    BY <1>0, <1>5, OthersRest
  <1> QED  BY <1>1, <1>2, <1>3, <1>4, <1>6 DEF Bluetooth!BtInv

\* A device that did not connect is tried no more.
LEMMA BtVerify ==
    ASSUME Bluetooth!BtInv, NEW p \in Bluetooth!Users,
           Bluetooth!Verify(p)
    PROVE  Bluetooth!BtInv'
  <1> USE DEF Bluetooth!Verify, Bluetooth!Go, Bluetooth!radio, Bluetooth!files, Bluetooth!mine,
      Bluetooth!Invalidate
  <1>0. /\ Bluetooth!BtTypeOK /\ Bluetooth!Knows(p) /\ Bluetooth!Covers(v5)
        /\ v6 # <<>> => Bluetooth!Right(v6[1])
        /\ v8[p] # "idle" /\ \A q \in Bluetooth!Users \ {p} : v8[q] = "idle"
        /\ v11[p] # {} => Bluetooth!Target(p) \in v11[p]
    BY TargetIsTodo DEF Bluetooth!BtInv, Bluetooth!OneRuns
  <1>1. Bluetooth!BtTypeOK'
    BY <1>0 DEF Bluetooth!BtTypeOK, Bluetooth!Jobs, Bluetooth!Places
  <1>2. Bluetooth!Covers(v5)'
    BY <1>0 DEF Bluetooth!BtTypeOK, Bluetooth!Covers, Bluetooth!Cooled, Bluetooth!Knows
  <1>3. v6' # <<>> => Bluetooth!Right(v6[1])'
    BY <1>0, <1>1 DEF Bluetooth!BtTypeOK, Bluetooth!Right, Bluetooth!Covers, Bluetooth!Cooled,
         Bluetooth!Knows
  <1>4. Bluetooth!Knows(p)'
    <2>1. /\ v7' = v7 /\ v6' = v6 /\ v4' = v4 /\ v13' = v13 /\ v2' = v2 /\ v12' = v12
          /\ Bluetooth!Auto(p)
      BY <1>0 DEF Bluetooth!Knows
    <2>2. CASE Bluetooth!Target(p) \in v2
      <3>1. v8'[p] = "load" /\ v11' = v11
        BY <1>0, <2>2 DEF Bluetooth!BtTypeOK
      <3> QED  BY <1>0, <2>1, <3>1 DEF Bluetooth!Knows, Bluetooth!Auto
    <2>3. CASE Bluetooth!Target(p) \notin v2
      <3>1. /\ v8'[p] = "try" /\ v11'[p] = v11[p] \ {Bluetooth!Target(p)} /\ v2 = {}
            /\ v12[p] \cup v11'[p] # {}
        BY <1>0, <2>3 DEF Bluetooth!BtTypeOK, Bluetooth!Knows
      <3> QED  BY <1>0, <2>1, <3>1 DEF Bluetooth!Knows, Bluetooth!Auto
    <2> QED  BY <2>2, <2>3
  <1>5. \A q \in Bluetooth!Users \ {p} : v8'[q] = v8[q] /\ v7'[q] = v7[q]
    BY <1>0 DEF Bluetooth!BtTypeOK, Bluetooth!Finish
  <1>6. Bluetooth!OneRuns' /\ \A q \in Bluetooth!Users \ {p} : Bluetooth!Knows(q)'
    BY <1>0, <1>5, OthersRest
  <1> QED  BY <1>1, <1>2, <1>3, <1>4, <1>6 DEF Bluetooth!BtInv

\* A command begins while no other process runs.
LEMMA BtBegins ==
    ASSUME Bluetooth!BtInv, NEW p \in Bluetooth!Users, NEW j \in Bluetooth!Jobs \ {"none"},
           NEW ds \in SUBSET Paired, NEW where \in {"cache", "load", "act"},
           Bluetooth!Begin(p, j, ds, where), v13' \subseteq v13,
           \/ j \in {"status", "autoconnect"} /\ where = "cache"
           \/ j = "force_autoconnect" /\ where = "cache" /\ v13' = {}
           \/ j = "connect" /\ where = "load" /\ \E d \in Paired : ds = {d} /\ d \notin v13'
           \/ j = "disconnect" /\ where = "act" /\ \E d \in Paired : ds = {d}
           \/ j \in {"power", "save_config"} /\ where = "act"
    PROVE  Bluetooth!BtInv'
  <1> USE DEF Bluetooth!Begin, Bluetooth!Go, Bluetooth!radio, Bluetooth!files
  <1>1. /\ Bluetooth!BtTypeOK /\ Bluetooth!Covers(v5) /\ (v6 # <<>> => Bluetooth!Right(v6[1]))
        /\ \A q \in Bluetooth!Users : v8[q] = "idle" /\ v7[q] = "none"
    BY DEF Bluetooth!BtInv, Bluetooth!Knows
  <1>2. \A d \in v13 : d \in v5.cooling /\ (v6 # <<>> => d \in v6[1].runtime.cooling)
    BY <1>1 DEF Bluetooth!Covers, Bluetooth!Cooled, Bluetooth!Right
  <1>3. /\ v7'[p] = j /\ v8'[p] = where /\ v11'[p] = ds
        /\ \A q \in Bluetooth!Users \ {p} : v8'[q] = "idle" /\ v7'[q] = "none"
    BY <1>1 DEF Bluetooth!BtTypeOK
  <1>4. Bluetooth!BtTypeOK'
    BY <1>1 DEF Bluetooth!BtTypeOK, Bluetooth!Places
  <1>5. Bluetooth!Covers(v5)'
    BY <1>2 DEF Bluetooth!Covers
  <1>6. v6' # <<>> => Bluetooth!Right(v6[1])'
    BY <1>1, <1>2 DEF Bluetooth!Right, Bluetooth!Covers
  <1>7. Bluetooth!Knows(p)'
    BY <1>3 DEF Bluetooth!Knows, Bluetooth!Auto
  <1>8. Bluetooth!OneRuns' /\ \A q \in Bluetooth!Users \ {p} : Bluetooth!Knows(q)'
    BY <1>1, <1>3, OthersRest
  <1> QED  BY <1>4, <1>5, <1>6, <1>7, <1>8 DEF Bluetooth!BtInv

\* Whatever the user, or the thread of the daemon, begins (main).
LEMMA BtCommand ==
    ASSUME Bluetooth!BtInv, NEW p \in Bluetooth!Users, Bluetooth!Command(p)
    PROVE  Bluetooth!BtInv'
  <1> USE DEF Bluetooth!Jobs
  <1>1. CASE Bluetooth!CmdStatus(p)
    BY <1>1, BtBegins DEF Bluetooth!CmdStatus
  <1>2. CASE Bluetooth!CmdAutoconnect(p)
    BY <1>2, BtBegins DEF Bluetooth!CmdAutoconnect
  <1>3. CASE Bluetooth!CmdForceAutoconnect(p)
    BY <1>3, BtBegins DEF Bluetooth!CmdForceAutoconnect
  <1>4. CASE Bluetooth!CmdPower(p)
    BY <1>4, BtBegins DEF Bluetooth!CmdPower
  <1>5. CASE Bluetooth!CmdSaveConfig(p)
    BY <1>5, BtBegins DEF Bluetooth!CmdSaveConfig
  <1>6. ASSUME NEW d \in Paired, Bluetooth!CmdConnect(p, d) PROVE Bluetooth!BtInv'
    BY <1>6, BtBegins DEF Bluetooth!CmdConnect
  <1>7. ASSUME NEW d \in Paired, Bluetooth!CmdDisconnect(p, d) PROVE Bluetooth!BtInv'
    BY <1>7, BtBegins DEF Bluetooth!CmdDisconnect
  <1> QED  BY <1>1, <1>2, <1>3, <1>4, <1>5, <1>6, <1>7 DEF Bluetooth!Command

\* What changes in no process leaves the others' knowledge alone.
LEMMA BtAround ==
    ASSUME Bluetooth!BtInv, Bluetooth!BtTypeOK',
           UNCHANGED <<v4, v7, v8, v11, v12>>, v2' \subseteq v2, v13' \subseteq v13,
           v6' # <<>> => v6 # <<>>,
           Bluetooth!Covers(v5)', v6' # <<>> => Bluetooth!Right(v6[1])',
           \A p \in Bluetooth!Users : Bluetooth!Covers(v9[p]) => Bluetooth!Covers(v9[p])',
           \A p \in Bluetooth!Users : Bluetooth!Right(v10[p]) => Bluetooth!Right(v10[p])'
    PROVE  Bluetooth!BtInv'
  <1>1. Bluetooth!OneRuns'
    BY DEF Bluetooth!BtInv, Bluetooth!OneRuns
  <1>2. ASSUME NEW p \in Bluetooth!Users PROVE Bluetooth!Knows(p)'
    <2>1. Bluetooth!Knows(p)
      BY DEF Bluetooth!BtInv
    <2>2. v13 = {} => v13' = {}
      OBVIOUS
    <2>3. v6 = <<>> => v6' = <<>>
      OBVIOUS
    <2>4. v11'[p] = v11[p] /\ v12'[p] = v12[p] /\ v7'[p] = v7[p] /\ v8'[p] = v8[p]
      OBVIOUS
    <2>5. v11[p] \cap v13 = {} => v11[p] \cap v13' = {}
      OBVIOUS
    <2> QED  BY <2>1, <2>2, <2>3, <2>4, <2>5 DEF Bluetooth!Knows, Bluetooth!Auto, Bluetooth!Target
  <1> QED  BY <1>1, <1>2 DEF Bluetooth!BtInv

\* A cooldown and the snooze it stands for run out together, wherever they are remembered.
LEMMA BtExpires ==
    ASSUME Bluetooth!BtInv, NEW d \in Paired, Bluetooth!Expire(d)
    PROVE  Bluetooth!BtInv'
  <1> USE DEF Bluetooth!Expire, Bluetooth!radio
  <1>1. Bluetooth!BtTypeOK
    BY DEF Bluetooth!BtInv
  <1>2. ASSUME NEW r \in Bluetooth!Runtimes
        PROVE  /\ Bluetooth!Forget(r, d) \in Bluetooth!Runtimes
               /\ Bluetooth!Forget(r, d).cooling = r.cooling \ {d}
    BY DEF Bluetooth!Forget, Bluetooth!Runtimes
  <1>3. ASSUME NEW s \in Bluetooth!Statuses
        PROVE  /\ [s EXCEPT !.runtime = Bluetooth!Forget(@, d)] \in Bluetooth!Statuses
               /\ [s EXCEPT !.runtime = Bluetooth!Forget(@, d)].runtime
                    = Bluetooth!Forget(s.runtime, d)
               /\ [s EXCEPT !.runtime = Bluetooth!Forget(@, d)].config = s.config
               /\ [s EXCEPT !.runtime = Bluetooth!Forget(@, d)].connected = s.connected
               /\ s.runtime \in Bluetooth!Runtimes
    BY <1>2 DEF Bluetooth!Statuses
  <1>4. ASSUME NEW r \in Bluetooth!Runtimes, Bluetooth!Covers(r)
        PROVE  \A e \in v13' : e \in Bluetooth!Forget(r, d).cooling
                               \/ \E p \in Bluetooth!Users : Bluetooth!Cooled(p, e)'
    BY <1>2, <1>4 DEF Bluetooth!Covers, Bluetooth!Cooled
  <1>5. Bluetooth!Covers(v5)'
    BY <1>1, <1>4 DEF Bluetooth!BtInv, Bluetooth!BtTypeOK, Bluetooth!Covers
  <1>6. ASSUME NEW p \in Bluetooth!Users, Bluetooth!Covers(v9[p])
        PROVE  Bluetooth!Covers(v9[p])'
    BY <1>1, <1>4, <1>6 DEF Bluetooth!BtTypeOK, Bluetooth!Covers
  <1>7. ASSUME NEW s \in Bluetooth!Statuses, Bluetooth!Right(s)
        PROVE  Bluetooth!Right([s EXCEPT !.runtime = Bluetooth!Forget(@, d)])'
    BY <1>3, <1>4, <1>7 DEF Bluetooth!Right, Bluetooth!Covers
  <1>8. v6' # <<>> => Bluetooth!Right(v6[1])'
    <2>1. CASE v6 = <<>>
      BY <2>1
    <2>2. CASE v6 # <<>>
      <3>1. PICK s \in Bluetooth!Statuses : v6 = <<s>>
        BY <1>1, <2>2 DEF Bluetooth!BtTypeOK
      <3>2. Bluetooth!Right(s) /\ v6' = <<[s EXCEPT !.runtime = Bluetooth!Forget(@, d)]>>
        BY <2>2, <3>1 DEF Bluetooth!BtInv
      <3>3. PICK t : t = [s EXCEPT !.runtime = Bluetooth!Forget(@, d)]
        OBVIOUS
      <3>4. Bluetooth!Right(t)' /\ v6'[1] = t
        BY <1>7, <3>2, <3>3
      <3> QED  BY <3>4 DEF Bluetooth!Right, Bluetooth!Covers
    <2> QED  BY <2>1, <2>2
  <1>9. ASSUME NEW p \in Bluetooth!Users, Bluetooth!Right(v10[p])
        PROVE  Bluetooth!Right(v10[p])'
    <2>1. v10[p] \in Bluetooth!Statuses
      BY <1>1 DEF Bluetooth!BtTypeOK
    <2> QED  BY <1>7, <1>9, <2>1 DEF Bluetooth!Right, Bluetooth!Covers
  <1>10. Bluetooth!BtTypeOK'
    <2>1. v6' = <<>> \/ \E s \in Bluetooth!Statuses : v6' = <<s>>
      <3>1. CASE v6 = <<>>
        BY <3>1
      <3>2. CASE v6 # <<>>
        BY <1>1, <1>3, <3>2 DEF Bluetooth!BtTypeOK
      <3> QED  BY <3>1, <3>2
    <2>2. v5' \in Bluetooth!Runtimes /\ v9' \in [Bluetooth!Users -> Bluetooth!Runtimes]
      BY <1>1, <1>2 DEF Bluetooth!BtTypeOK
    <2>3. v10' \in [Bluetooth!Users -> Bluetooth!Statuses]
      BY <1>1, <1>3 DEF Bluetooth!BtTypeOK
    <2> QED  BY <1>1, <2>1, <2>2, <2>3 DEF Bluetooth!BtTypeOK
  <1> QED  BY <1>5, <1>6, <1>8, <1>9, <1>10, BtAround

\* retry_interval_sec after the last attempt a process no longer sees it as recent.
LEMMA BtRetries == ASSUME Bluetooth!BtInv, Bluetooth!RetryInterval PROVE Bluetooth!BtInv'
  <1> USE DEF Bluetooth!RetryInterval, Bluetooth!radio, Bluetooth!Invalidate
  <1>1. Bluetooth!BtTypeOK
    BY DEF Bluetooth!BtInv
  <1>2. ASSUME NEW r \in Bluetooth!Runtimes
        PROVE  /\ [r EXCEPT !.recent = FALSE] \in Bluetooth!Runtimes
               /\ [r EXCEPT !.recent = FALSE].cooling = r.cooling
    BY DEF Bluetooth!Runtimes
  <1>3. ASSUME NEW s \in Bluetooth!Statuses
        PROVE  /\ [s EXCEPT !.runtime.recent = FALSE] \in Bluetooth!Statuses
               /\ [s EXCEPT !.runtime.recent = FALSE].runtime.cooling = s.runtime.cooling
               /\ [s EXCEPT !.runtime.recent = FALSE].config = s.config
               /\ [s EXCEPT !.runtime.recent = FALSE].connected = s.connected
    BY DEF Bluetooth!Statuses, Bluetooth!Runtimes
  <1>4. /\ v5' \in Bluetooth!Runtimes /\ v5'.cooling = v5.cooling
        /\ \A p \in Bluetooth!Users : v9'[p].cooling = v9[p].cooling
        /\ v9' \in [Bluetooth!Users -> Bluetooth!Runtimes]
    BY <1>1, <1>2 DEF Bluetooth!BtTypeOK
  <1>5. /\ v10' \in [Bluetooth!Users -> Bluetooth!Statuses]
        /\ \A p \in Bluetooth!Users : /\ v10'[p].runtime.cooling = v10[p].runtime.cooling
                                      /\ v10'[p].config = v10[p].config
                                      /\ v10'[p].connected = v10[p].connected
    BY <1>1, <1>3 DEF Bluetooth!BtTypeOK
  <1>6. Bluetooth!BtTypeOK'
    BY <1>1, <1>4, <1>5 DEF Bluetooth!BtTypeOK
  <1>7. Bluetooth!Covers(v5)'
    BY <1>4 DEF Bluetooth!BtInv, Bluetooth!Covers, Bluetooth!Cooled
  <1>8. ASSUME NEW p \in Bluetooth!Users, Bluetooth!Covers(v9[p]) PROVE Bluetooth!Covers(v9[p])'
    BY <1>4, <1>8 DEF Bluetooth!Covers, Bluetooth!Cooled
  <1>9. ASSUME NEW p \in Bluetooth!Users, Bluetooth!Right(v10[p]) PROVE Bluetooth!Right(v10[p])'
    BY <1>5, <1>9 DEF Bluetooth!Right, Bluetooth!Covers, Bluetooth!Cooled
  <1> QED  BY <1>6, <1>7, <1>8, <1>9, BtAround

\* The cache grows too old, or a device comes or leaves.
LEMMA BtMoves ==
    ASSUME Bluetooth!BtInv, Bluetooth!CacheExpires \/ \E d \in Paired : Bluetooth!Moves(d)
    PROVE  Bluetooth!BtInv'
  <1>1. /\ UNCHANGED <<v1, v4, v5, v7, v8, v9, v10, v11, v12, v13>> /\ v2' \subseteq v2
        /\ v6' = <<>> \/ v6' = v6
    BY DEF Bluetooth!CacheExpires, Bluetooth!Moves, Bluetooth!Invalidate, Bluetooth!radio,
           Bluetooth!mine, Bluetooth!files
  <1>2. Bluetooth!BtTypeOK'
    BY <1>1 DEF Bluetooth!BtInv, Bluetooth!BtTypeOK
  <1>3. Bluetooth!Covers(v5)' /\ \A p \in Bluetooth!Users : Bluetooth!Covers(v9[p]) => Bluetooth!Covers(v9[p])'
    BY <1>1 DEF Bluetooth!BtInv, Bluetooth!Covers, Bluetooth!Cooled
  <1>4. /\ v6' # <<>> => Bluetooth!Right(v6[1])'
        /\ \A p \in Bluetooth!Users : Bluetooth!Right(v10[p]) => Bluetooth!Right(v10[p])'
    BY <1>1 DEF Bluetooth!BtInv, Bluetooth!Right, Bluetooth!Covers, Bluetooth!Cooled
  <1> QED  BY <1>1, <1>2, <1>3, <1>4, BtAround

\* Every step of the Bluetooth manager (bluetooth_manager.py: main, run_autoconnect).
LEMMA BluetoothStep ==
    ASSUME Bluetooth!BtInv, Bluetooth!BtNext
    PROVE  Bluetooth!BtInv' /\ Bluetooth!ObeyingStep
  <1>1. ASSUME NEW p \in Bluetooth!Users, Bluetooth!Step(p) PROVE Bluetooth!BtInv'
    BY <1>1, BtActs, BtFiles, BtPublish, BtGives, BtDisconnect, BtSaveRuntime, BtReadCache,
       BtCollect, BtDecide, BtEnd, BtTry, BtVerify
    DEF Bluetooth!Step
  <1>2. ASSUME Bluetooth!Around PROVE Bluetooth!BtInv'
    BY <1>2, BtExpires, BtRetries, BtMoves DEF Bluetooth!Around
  <1>3. Bluetooth!BtInv'
    BY <1>1, <1>2, BtCommand DEF Bluetooth!BtNext, Bluetooth!Users, Bluetooth!Command
  <1>4. Bluetooth!ObeyingStep
    <2> SUFFICES ASSUME NEW p \in Bluetooth!Users, NEW d \in v2' \ v2,
                        v7[p] = "autoconnect", Bluetooth!Try(p)
                 PROVE  d \notin v13 /\ v4.enabled /\ d \in v4.auto /\ v2 = {}
      BY DEF Bluetooth!ObeyingStep
    <2>1. Bluetooth!Knows(p) /\ v8[p] = "try" /\ v11[p] # {} /\ d = Bluetooth!Target(p)
      BY DEF Bluetooth!BtInv, Bluetooth!Try
    <2>2. d \in v11[p]
      BY <2>1, TargetIsTodo DEF Bluetooth!BtInv
    <2> QED  BY <2>1, <2>2 DEF Bluetooth!Knows, Bluetooth!Auto
  <1> QED  BY <1>3, <1>4

(***************************************************************************)
(* The sound page and its bridge.                                          *)
(***************************************************************************)
\* The first of some sinks is one of them.
LEMMA FirstSink ==
    ASSUME NEW ds \in SUBSET Speakers, ds # {} PROVE Audio!First(ds) \in ds
  BY FirstOne, DevicesAreNumbers DEF Audio!First

\* The target shown is a sink that was read.
LEMMA TargetIsRead ==
    ASSUME NEW sinks \in SUBSET Speakers, sinks # {}, NEW st
    PROVE  Audio!TargetOf(sinks, st) \in sinks
  BY FirstSink DEF Audio!TargetOf

\* Nothing has been read at the start.
LEMMA AudioAtStart == ASSUME Audio!AudioInit PROVE Audio!AudioInv
  <1>1. \E def \in Audio!Sinks \cup {Nil}, sinks \in SUBSET Speakers, st \in Audio!Streams,
           hid \in SUBSET Speakers : v7 = Audio!Outputs(def, sinks, st, hid)
    BY DEF Audio!AudioInit, Audio!Streams
  <1>2. v8 = Audio!NoApply /\ v8 \notin Audio!Choices
    BY DEF Audio!AudioInit, Audio!NoApply, Audio!Choices
  <1> QED
    BY <1>1, <1>2, SinksAreDifferent
    DEF Audio!AudioInit, Audio!AudioInv, Audio!AudioTypeOK, Audio!Applies, Audio!Sinks,
        Audio!Streams

\* refreshAudioInfo reads, in three calls, and shows what it has read.
LEMMA AudioInfo ==
    ASSUME Audio!AudioInv, Audio!StartInfo \/ Audio!ReadSinks \/ Audio!ReadStreams
    PROVE  Audio!AudioInv' /\ Audio!ChoosingStep
  <1> USE DEF Audio!AudioInv, Audio!AudioTypeOK
  <1>1. UNCHANGED <<v1, v2, v3, v4, v5, v8>>
    BY DEF Audio!StartInfo, Audio!ReadSinks, Audio!ReadStreams
  <1>2. v6' \in {Audio!NoInfo} \cup [pc : {"sinks"}, def : Audio!Sinks]
                \cup [pc : {"streams"}, def : Audio!Sinks, sinks : SUBSET Speakers]
    BY DEF Audio!StartInfo, Audio!ReadSinks, Audio!ReadStreams, Audio!NoInfo
  <1>3. \E def \in Audio!Sinks \cup {Nil}, sinks \in SUBSET Speakers, st \in Audio!Streams,
           hid \in SUBSET Speakers : v7' = Audio!Outputs(def, sinks, st, hid)
    <2>1. CASE v7' = v7
      BY <2>1
    <2>2. CASE Audio!ReadStreams
      <3>1. v6.def \in Audio!Sinks /\ v6.sinks \in SUBSET Speakers
        BY <2>2 DEF Audio!ReadStreams, Audio!NoInfo
      <3> QED  BY <2>2, <3>1 DEF Audio!ReadStreams
    <2> QED  BY <2>1, <2>2 DEF Audio!StartInfo, Audio!ReadSinks
  <1>4. (v8 \in Audio!Choices => Audio!Meant(v8))'
    BY <1>1 DEF Audio!Meant
  <1> QED  BY <1>1, <1>2, <1>3, <1>4 DEF Audio!ChoosingStep, Audio!Applies

\* What the page shows comes of some reading, so that the devices it offers are devices.
LEMMA ShownDevices ==
    ASSUME Audio!AudioInv
    PROVE  /\ {i.dev : i \in v7.all} \subseteq Speakers
           /\ v7.sinks # {} => v7.target \in Speakers
  <1>1. PICK def \in Audio!Sinks \cup {Nil}, sinks \in SUBSET Speakers, st \in Audio!Streams,
             hid \in SUBSET Speakers : v7 = Audio!Outputs(def, sinks, st, hid)
    BY DEF Audio!AudioInv, Audio!AudioTypeOK
  <1>2. {i.dev : i \in v7.all} \subseteq Speakers
    BY <1>1 DEF Audio!Outputs, Audio!Item
  <1>3. v7.sinks = sinks /\ v7.target = Audio!TargetOf(sinks, st)
    BY <1>1 DEF Audio!Outputs
  <1> QED  BY <1>2, <1>3, TargetIsRead

\* The page asks for something else (setOutputAsDefault, toggleSpatialAudio, hiding).
LEMMA AudioAsks ==
    ASSUME Audio!AudioInv,
           \/ Audio!ToggleSpatial
           \/ \E d \in Speakers : Audio!ChooseOutput(d) \/ \E hide \in BOOLEAN : Audio!SetHidden(d, hide)
    PROVE  Audio!AudioInv' /\ Audio!ChoosingStep
  <1> USE DEF Audio!Begin
  <1>1. UNCHANGED <<v1, v2, v3, v4, v5, v6, v7>>
    BY DEF Audio!ToggleSpatial, Audio!ChooseOutput, Audio!SetHidden
  <1> DEFINE Asked ==
        /\ v8' \in Audio!Applies /\ v8'.pc # "out"
        /\ v8' \in Audio!Choices => v8'.pc = "choose" /\ v8'.plugs = v5 /\ (v8'.then <=> v2 = Spatial)
  <1>2. Asked
    <2>1. CASE Audio!ToggleSpatial
      <3>1. v8'.pc = "set" /\ v8' \in [pc : {"set"},
          dev : Audio!Sinks] /\ v8' \notin Audio!Choices
        BY <2>1, ShownDevices DEF Audio!ToggleSpatial, Audio!Sinks, Audio!Choices
      <3> QED  BY <3>1 DEF Audio!Applies, Audio!Sinks
    <2>2. ASSUME NEW d \in Speakers, Audio!ChooseOutput(d) PROVE Asked
      <3>1. v5 \in Nat
        BY DEF Audio!AudioInv, Audio!AudioTypeOK
      <3>2. v8' = [pc |-> "choose", dev |-> d, then |-> v2 = Spatial, plugs |-> v5]
        BY <2>2 DEF Audio!ChooseOutput
      <3>3. v8' \in Audio!Choices
        BY <3>1, <3>2 DEF Audio!Choices
      <3> QED  BY <3>2, <3>3 DEF Audio!Applies
    <2>3. ASSUME NEW d \in Speakers, NEW hide \in BOOLEAN, Audio!SetHidden(d, hide) PROVE Asked
      <3>1. v8' = [pc |-> "hide", dev |-> d, hide |-> hide]
        BY <2>3 DEF Audio!SetHidden
      <3> QED  BY <3>1 DEF Audio!Applies, Audio!Choices
    <2> QED  BY <2>1, <2>2, <2>3
  <1>3. (v8 \in Audio!Choices => Audio!Meant(v8))'
    BY <1>1, <1>2 DEF Audio!Meant, Audio!AudioInv, Audio!AudioTypeOK
  <1>4. Audio!AudioTypeOK'
    BY <1>1, <1>2 DEF Audio!AudioInv, Audio!AudioTypeOK
  <1> QED  BY <1>1, <1>2, <1>3, <1>4 DEF Audio!AudioInv, Audio!ChoosingStep

\* Devices come or go, or the spatial sink: no choice is held to what it was made by.
LEMMA AudioPlugs ==
    ASSUME Audio!AudioInv, Audio!Plug \/ Audio!SpatialLoads
    PROVE  Audio!AudioInv' /\ Audio!ChoosingStep
  <1>1. v5' = v5 + 1 /\ UNCHANGED <<v4, v6, v7, v8>>
    BY DEF Audio!Plug, Audio!SpatialLoads
  <1>2. /\ v1' \subseteq Speakers /\ v2' \in Audio!Sinks /\ v3' \in Audio!Streams
        /\ v2' = Spatial => v3' # Nil
    BY SinksAreDifferent
    DEF Audio!AudioInv, Audio!AudioTypeOK, Audio!Plug, Audio!SpatialLoads, Audio!Sinks,
        Audio!Streams
  <1>3. (v8 \in Audio!Choices => Audio!Meant(v8))'
    <2>1. v5 \in Nat /\ (v8 \in Audio!Choices => v8.plugs \in Nat /\ v8.plugs <= v5)
      BY DEF Audio!AudioInv, Audio!AudioTypeOK, Audio!Meant, Audio!Choices
    <2> QED  BY <1>1, <2>1 DEF Audio!Meant
  <1>4. Audio!AudioTypeOK'
    <2>1. v5' \in Nat
      BY <1>1 DEF Audio!AudioInv, Audio!AudioTypeOK
    <2> QED  BY <1>1, <1>2, <2>1 DEF Audio!AudioInv, Audio!AudioTypeOK
  <1> QED  BY <1>1, <1>2, <1>3, <1>4 DEF Audio!AudioInv, Audio!ChoosingStep

\* A choice made while spatial sound was off sets the default; while it was on, it moves the
\* stream and sets the spatial sink again (set_default_sink of audio.py).
LEMMA AudioApplies ==
    ASSUME Audio!AudioInv,
           Audio!ApplyChoice \/ Audio!ApplyMove \/ Audio!ApplySpatial \/ Audio!ApplySet \/ Audio!ApplyHide
    PROVE  Audio!AudioInv' /\ Audio!ChoosingStep
  <1>1. UNCHANGED <<v1, v5, v6, v7>> /\ Audio!AudioTypeOK /\ v8.pc # "out"
    BY DEF Audio!ApplyChoice, Audio!ApplyMove, Audio!ApplySpatial, Audio!ApplySet,
         Audio!ApplyHide, Audio!AudioInv
  <1>2. ASSUME v8 \in Audio!Choices
        PROVE  /\ v8.pc \in {"choose", "move", "spatial", "set"} /\ v8.dev \in Speakers
               /\ v8.then \in BOOLEAN /\ "then" \in DOMAIN v8 /\ Audio!Meant(v8)
    BY <1>2 DEF Audio!Choices, Audio!AudioInv
  <1>3. CASE Audio!ApplyChoice
    <2>1. v8 \in Audio!Choices
      BY <1>1, <1>3 DEF Audio!ApplyChoice, Audio!AudioTypeOK, Audio!Applies, Audio!NoApply
    <2>2. /\ v8' \in Audio!Choices /\ v8'.pc = IF v2 = Spatial THEN "move" ELSE "set"
          /\ v8'.dev = v8.dev /\ v8'.then = v8.then /\ v8'.plugs = v8.plugs
      BY <1>3, <2>1 DEF Audio!ApplyChoice, Audio!ByDefault, Audio!Choices
    <2>3. UNCHANGED <<v2, v3, v4>>
      BY <1>3 DEF Audio!ApplyChoice
    <2>4. Audio!Meant(v8)'
      BY <1>1, <1>2, <2>1, <2>2, <2>3 DEF Audio!Meant
    <2>5. Audio!AudioTypeOK'
      BY <1>1, <2>2, <2>3 DEF Audio!AudioTypeOK, Audio!Applies
    <2> QED  BY <1>1, <2>2, <2>3, <2>4, <2>5 DEF Audio!AudioInv, Audio!ChoosingStep
  <1>4. CASE Audio!ApplyMove
    <2>1. v8 \in Audio!Choices
      BY <1>1, <1>4 DEF Audio!ApplyMove, Audio!AudioTypeOK, Audio!Applies, Audio!NoApply
    <2>2. /\ v8' \in Audio!Choices /\ v8'.pc = "spatial"
          /\ v8'.dev = v8.dev /\ v8'.then = v8.then /\ v8'.plugs = v8.plugs
      BY <1>4, <2>1 DEF Audio!ApplyMove, Audio!Choices
    <2>3. /\ UNCHANGED <<v2, v4>> /\ v3' = IF v3 # Nil /\ v8.dev \in v1 THEN v8.dev ELSE v3
          /\ v8.pc = "move"
      BY <1>4 DEF Audio!ApplyMove, Audio!MoveStream
    <2>4. v3' \in Audio!Streams /\ (v2' = Spatial => v3' # Nil)
      BY <1>1, <1>2, <2>1, <2>3, SinksAreDifferent DEF Audio!AudioInv, Audio!AudioTypeOK,
           Audio!Streams
    <2>5. v2 = Spatial => v3 # Nil
      BY DEF Audio!AudioInv
    <2>6. Audio!Meant(v8)'
      BY <1>1, <1>2, <2>1, <2>2, <2>3, <2>5 DEF Audio!Meant
    <2>7. Audio!AudioTypeOK'
      BY <1>1, <2>2, <2>3, <2>4 DEF Audio!AudioTypeOK, Audio!Applies
    <2> QED  BY <1>1, <2>2, <2>4, <2>6, <2>7 DEF Audio!AudioInv, Audio!ChoosingStep
  <1>5. ASSUME NEW d \in Audio!Sinks, Audio!SetDefaultSink(d), v8' = Audio!NoApply,
      UNCHANGED <<v3, v4>>
        PROVE  Audio!AudioInv'
    <2>1. v2' \in Audio!Sinks /\ (v2' = Spatial => v3' # Nil)
      BY <1>1, <1>5, SinksAreDifferent DEF Audio!SetDefaultSink, Audio!AudioInv, Audio!AudioTypeOK
    <2>2. v8' \in Audio!Applies /\ v8' \notin Audio!Choices
      BY <1>5 DEF Audio!Applies, Audio!NoApply, Audio!Choices
    <2> QED  BY <1>1, <1>5, <2>1, <2>2 DEF Audio!AudioInv, Audio!AudioTypeOK
  <1>6. CASE Audio!ApplySpatial
    <2>1. Audio!AudioInv'
      BY <1>5, <1>6 DEF Audio!ApplySpatial, Audio!Sinks
    <2>2. v8 \in Audio!Choices /\ v8.pc = "spatial"
      BY <1>1, <1>6 DEF Audio!ApplySpatial, Audio!AudioTypeOK, Audio!Applies, Audio!NoApply
    <2>3. v2' = IF Spatial \in v1 \cup (IF v3 = Nil THEN {} ELSE {Spatial}) THEN Spatial ELSE v2
      BY <1>6 DEF Audio!ApplySpatial, Audio!SetDefaultSink
    <2>4. v3' = v3 /\ (v2 = Spatial => v3 # Nil)
      BY <1>6 DEF Audio!ApplySpatial, Audio!AudioInv
    <2>5. ASSUME v5 = v8.plugs, v8.dev \in v1
          PROVE  Audio!Heard' = v8.dev /\ (v2' = Spatial) = v8.then
      <3>1. v2 = Spatial /\ v8.then = TRUE /\ v3 = v8.dev
        BY <1>2, <2>2, <2>5 DEF Audio!Meant
      <3>2. v2' = Spatial
        BY <2>3, <3>1
      <3> QED  BY <2>4, <3>1, <3>2 DEF Audio!Heard
    <2> QED  BY <2>1, <2>5 DEF Audio!ChoosingStep
  <1>7. CASE Audio!ApplySet
    <2>1. v8.pc = "set" /\ v8.dev \in Audio!Sinks
      BY <1>1, <1>7 DEF Audio!ApplySet, Audio!AudioTypeOK, Audio!Applies, Audio!NoApply,
           Audio!Choices, Audio!Sinks
    <2>2. Audio!AudioInv'
      BY <1>5, <1>7, <2>1 DEF Audio!ApplySet
    <2>3. ASSUME "then" \in DOMAIN v8, v5 = v8.plugs, v8.dev \in v1
          PROVE  Audio!Heard' = v8.dev /\ (v2' = Spatial) = v8.then
      <3>1. v8 \in Audio!Choices
        BY <1>1, <2>1, <2>3 DEF Audio!AudioTypeOK, Audio!Applies, Audio!NoApply
      <3>2. v8.then = FALSE /\ v8.dev # Spatial
        BY <1>2, <2>1, <2>3, <3>1, SinksAreDifferent DEF Audio!Meant
      <3>3. v2' = v8.dev
        BY <1>7, <2>3 DEF Audio!ApplySet, Audio!SetDefaultSink
      <3> QED  BY <3>2, <3>3 DEF Audio!Heard
    <2> QED  BY <2>2, <2>3 DEF Audio!ChoosingStep
  <1>8. CASE Audio!ApplyHide
    <2>1. v8 \in [pc : {"hide"}, dev : Speakers, hide : BOOLEAN] /\ v8.pc = "hide"
      BY <1>1, <1>8 DEF Audio!ApplyHide, Audio!AudioTypeOK, Audio!Applies, Audio!NoApply,
           Audio!Choices
    <2>2. v8' \in Audio!Applies /\ v8' \notin Audio!Choices
      BY <1>8 DEF Audio!ApplyHide, Audio!Applies, Audio!NoApply, Audio!Choices
    <2>3. v4' \subseteq Speakers /\ UNCHANGED <<v2, v3>>
      BY <1>1, <1>8, <2>1 DEF Audio!ApplyHide, Audio!AudioTypeOK
    <2> QED  BY <1>1, <2>1, <2>2, <2>3 DEF Audio!AudioInv, Audio!AudioTypeOK, Audio!ChoosingStep
  <1> QED  BY <1>3, <1>4, <1>6, <1>7, <1>8

\* Every step of the page, its bridge and the sound server.
LEMMA AudioStep ==
    ASSUME Audio!AudioInv, Audio!AudioNext PROVE Audio!AudioInv' /\ Audio!ChoosingStep
  BY AudioInfo, AudioAsks, AudioPlugs, AudioApplies DEF Audio!AudioNext

\* At most one output is in use, the target of the spatial sink or the default, and it is shown.
LEMMA OneInUse == ASSUME Audio!AudioInv PROVE Audio!InUseIsShown
  <1>1. PICK def \in Audio!Sinks \cup {Nil}, sinks \in SUBSET Speakers, st \in Audio!Streams,
             hid \in SUBSET Speakers : v7 = Audio!Outputs(def, sinks, st, hid)
    BY DEF Audio!AudioInv, Audio!AudioTypeOK
  <1> DEFINE target == Audio!TargetOf(sinks, st)
             items == {Audio!Item(d, def, target, hid) : d \in sinks}
             one == Audio!Item(IF def = Spatial THEN target ELSE def, def, target, hid)
  <1>2. /\ v7.all = items /\ v7.def = def /\ v7.sinks = sinks
        /\ v7.visible = {i \in items : ~Audio!HideItem(i)}
    BY <1>1 DEF Audio!Outputs
  <1>3. \A i \in v7.all : i.effective => i \in v7.visible
    BY <1>2 DEF Audio!HideItem
  <1>4. {i \in v7.all : i.effective} \subseteq {one}
    <2> SUFFICES ASSUME NEW d \in sinks, Audio!Item(d, def, target, hid).effective
                 PROVE  d = IF def = Spatial THEN target ELSE def
      BY <1>2
    <2> QED  BY SinksAreDifferent DEF Audio!Item
  <1>5. \A i, j \in v7.all : i.effective /\ j.effective => i = j
    BY <1>4
  <1>6. v7.def = Spatial /\ v7.sinks # {} => \E i \in v7.visible : i.effective
    <2> SUFFICES ASSUME def = Spatial, sinks # {} PROVE \E i \in v7.visible : i.effective
      BY <1>2
    <2>1. one \in items /\ one.effective
      BY TargetIsRead DEF Audio!Item
    <2> QED  BY <1>2, <1>3, <2>1
  <1> QED  BY <1>3, <1>5, <1>6 DEF Audio!InUseIsShown

(***************************************************************************)
(* The window switcher.                                                    *)
(***************************************************************************)
\* Quotient and remainder.
LEMMA Dividing ==
    ASSUME NEW n \in Nat \ {0}, NEW a \in Int
    PROVE  /\ a \div n \in Int /\ a % n \in 0..(n - 1)
           /\ a = n * (a \div n) + (a % n)
  <1>1. a % n \in 0..(n - 1)
    BY SMT
  <1>2. a = n * (a \div n) + (a % n)
    BY SMT
  <1>3. a \div n \in Int
    BY SMT
  <1> QED  BY <1>1, <1>2, <1>3

\* What is left of a multiple and a bit is the bit.
LEMMA BitIsLeft ==
    ASSUME NEW n \in Nat \ {0}, NEW k \in Int, NEW i \in 0..(n - 1)
    PROVE  (n * k + i) % n = i
  BY SMT

\* The divisor added once leaves the bit.
LEMMA OneMore ==
    ASSUME NEW n \in Nat \ {0}, NEW i \in 0..(n - 1) PROVE i % n = i /\ (i + n) % n = i
  <1>1. i % n = i
    BY SMT
  <1>2. (i + n) % n = i
    BY SMT
  <1> QED  BY <1>1, <1>2

\* Equal remainders stay equal when the same is added.
LEMMA AddingToBoth ==
    ASSUME NEW n \in Nat \ {0}, NEW a \in Int, NEW b \in Int, NEW d \in Int, a % n = b % n
    PROVE  (a + d) % n = (b + d) % n
  <1> DEFINE k == a \div n
             l == b \div n
             i == a % n
             j == i + d
             m == j \div n
             r == j % n
  <1>1. k \in Int /\ l \in Int /\ i \in 0..(n - 1) /\ a = n * k + i /\ b = n * l + i
    BY Dividing
  <1> HIDE DEF k, l, i
  <1>2. j \in Int
    BY <1>1
  <1> HIDE DEF j
  <1>3. m \in Int /\ r \in 0..(n - 1) /\ j = n * m + r
    BY <1>2, Dividing
  <1> HIDE DEF m, r
  <1>4. a + d = n * (k + m) + r /\ b + d = n * (l + m) + r
    BY <1>1, <1>2, <1>3 DEF j
  <1>5. (n * (k + m) + r) % n = r
    BY <1>1, <1>3, BitIsLeft
  <1>6. (n * (l + m) + r) % n = r
    BY <1>1, <1>3, BitIsLeft
  <1> QED  BY <1>4, <1>5, <1>6

\* The divisor added leaves the remainder as it was.
LEMMA AddingTheDivisor ==
    ASSUME NEW n \in Nat \ {0}, NEW a \in Int PROVE (a + n) % n = a % n
  <1> DEFINE k == a \div n
             r == a % n
             q == k + 1
  <1>1. k \in Int /\ r \in 0..(n - 1) /\ a = n * k + r /\ q \in Int
    BY Dividing
  <1>2. r = a % n
    OBVIOUS
  <1> HIDE DEF k, r
  <1>3. a + n = n * q + r
    BY <1>1
  <1> HIDE DEF q
  <1>4. (n * q + r) % n = r
    BY <1>1, BitIsLeft
  <1> QED  BY <1>2, <1>3, <1>4

\* JavaScript's remainder, moved up by the divisor, has the remainder of its dividend.
LEMMA JavaScriptsRest ==
    ASSUME NEW n \in Nat \ {0}, NEW a \in Int
    PROVE  /\ Switcher!Rem(a, n) \in Int
           /\ -n < Switcher!Rem(a, n) /\ Switcher!Rem(a, n) < n
           /\ (Switcher!Rem(a, n) + n) % n = a % n
  <1>1. CASE a >= 0
    <2> DEFINE r == a % n
    <2>1. r \in 0..(n - 1) /\ Switcher!Rem(a, n) = r
      BY <1>1, Dividing DEF Switcher!Rem
    <2> HIDE DEF r
    <2>2. (r + n) % n = r
      BY <2>1, OneMore
    <2>3. r = a % n
      BY DEF r
    <2> QED  BY <2>1, <2>2, <2>3
  <1>2. CASE a < 0
    <2> DEFINE k == (-a) \div n
               r == (-a) % n
    <2>1. -a \in Int /\ k \in Int /\ r \in 0..(n - 1) /\ -a = n * k + r
      <3>1. -a \in Int
        OBVIOUS
      <3> QED  BY <3>1, Dividing
    <2>2. Switcher!Rem(a, n) = -r
      BY <1>2, <2>1 DEF Switcher!Rem
    <2> HIDE DEF k, r
    <2>3. CASE r = 0
      <3>1. a = n * (-k) + 0 /\ -r + n = n * 1 + 0
        BY <2>1, <2>3
      <3>2. a % n = 0 /\ (-r + n) % n = 0
        BY <2>1, <3>1, BitIsLeft
      <3> QED  BY <2>1, <2>2, <2>3, <3>2
    <2>4. CASE r # 0
      <3> DEFINE q == -k - 1
                 b == n - r
      <3>1. q \in Int /\ b \in 0..(n - 1) /\ a = n * q + b /\ -r + n = n * 0 + b
        BY <2>1, <2>4
      <3> HIDE DEF q, b
      <3>2. a % n = b
        BY <3>1, BitIsLeft
      <3>3. (-r + n) % n = b
        BY <3>1, BitIsLeft
      <3> QED  BY <2>1, <2>2, <2>4, <3>2, <3>3
    <2> QED  BY <2>3, <2>4
  <1> QED  BY <1>1, <1>2

\* The list has a length, and is empty when that is 0.
LEMMA ListsOfWindows ==
    ASSUME NEW s \in Switcher!Orders
    PROVE  /\ s \in Seq(Clients) /\ Len(s) \in 0..MaxClients /\ DOMAIN s = 1..Len(s)
           /\ s = << >> <=> Len(s) = 0
  BY SwitcherIsBounded DEF Switcher!Orders

\* The window focused comes first, and each stays in the order once.
LEMMA FocusedComesFirst ==
    ASSUME NEW s \in Switcher!Orders, NEW k \in DOMAIN s
    PROVE  Switcher!ToFront(s, k) \in Switcher!Orders
  <1> DEFINE t == Switcher!ToFront(s, k)
  <1>1. PICK n \in 0..MaxClients : s \in [1..n -> Clients] /\ k \in 1..n
    BY DEF Switcher!Orders
  <1>2. t = [i \in 1..n |-> IF i = 1 THEN s[k] ELSE IF i <= k THEN s[i - 1] ELSE s[i]]
    BY <1>1 DEF Switcher!ToFront
  <1>3. t \in [1..n -> Clients]
    BY <1>1, <1>2, SwitcherIsBounded
  <1>4. \A i, j \in 1..n : i # j => s[i] # s[j]
    BY <1>1 DEF Switcher!Orders
  <1>5. \A i, j \in 1..n : i # j => t[i] # t[j]
    BY <1>1, <1>2, <1>4, SwitcherIsBounded
  <1> HIDE DEF t
  <1>6. t \in Switcher!Orders
    BY <1>1, <1>3, <1>5 DEF Switcher!Orders
  <1> QED  BY <1>6 DEF t

\* The window chosen is the one wanted, if the index points at that.
LEMMA ChoosesTheWanted ==
    ASSUME Switcher!SwitcherInv, NEW s \in Switcher!Orders, NEW i \in Int,
           Switcher!Choose(s, i),
           s # << >> /\ ~v10.merged => Switcher!PointsAt(i, Len(s))
    PROVE  v1' \in Switcher!Orders /\ v10' = Switcher!Fresh /\ Switcher!CommitsAreMeant'
  <1> DEFINE n == Len(s)
             got == IF i >= 0 /\ i < n THEN s[i + 1] ELSE Nil
             should == IF s = << >> THEN Nil ELSE s[(v10.wanted % n) + 1]
  <1>1. /\ \/ \E k \in DOMAIN v1 : v1[k] = got /\ v1' = Switcher!ToFront(v1, k)
           \/ v1' = v1
        /\ v11' = [got |-> got, merged |-> v10.merged, overshot |-> i < 0, should |-> should]
        /\ v10' = Switcher!Fresh
    BY DEF Switcher!Choose, Switcher!NewSession
  <1>2. v1' \in Switcher!Orders
    BY <1>1, FocusedComesFirst DEF Switcher!SwitcherInv, Switcher!AtTypeOK
  <1>3. ASSUME i >= 0, ~v10.merged PROVE got = should
    <2>1. CASE s = << >>
      BY <1>3, <2>1
    <2>2. CASE s # << >>
      <3>1. n \in Nat \ {0} /\ i \in 0..(n - 1) /\ (i + n) % n = v10.wanted % n
        BY <1>3, <2>2, ListsOfWindows, SwitcherIsBounded DEF Switcher!PointsAt
      <3> HIDE DEF n
      <3>2. (i + n) % n = i
        BY <3>1, OneMore
      <3>3. v10.wanted % n = i
        BY <3>1, <3>2
      <3> QED  BY <2>2, <3>1, <3>3
    <2> QED  BY <2>1, <2>2
  <1> HIDE DEF got, should
  <1>4. v10.merged \in BOOLEAN /\ (i < 0) \in BOOLEAN /\ (~(i >= 0) => i < 0)
    BY DEF Switcher!SwitcherInv, Switcher!AtTypeOK
  <1>5. Switcher!CommitsAreMeant'
    BY <1>1, <1>3, <1>4 DEF Switcher!CommitsAreMeant
  <1> QED  BY <1>1, <1>2, <1>5

\* A session starts with nothing wanted.
LEMMA FreshSession ==
    /\ Switcher!Fresh \in [wanted : Int, steps : Nat, merged : BOOLEAN]
    /\ Switcher!Fresh.wanted = 0 /\ Switcher!Fresh.merged = FALSE
  BY DEF Switcher!Fresh

\* The switcher is closed when the shell starts, and nothing was asked of it.
LEMMA SwitcherAtStart == ASSUME Switcher!AtInit PROVE Switcher!SwitcherInv
  <1>1. << >> \in Switcher!Orders
    BY SwitcherIsBounded DEF Switcher!Orders
  <1> QED
    BY <1>1, FreshSession
    DEF Switcher!AtInit, Switcher!SwitcherInv, Switcher!AtTypeOK, Switcher!CommitsAreMeant,
        Switcher!NothingWaitsInVain, Switcher!Nothing, Switcher!Off

\* What a step adds is kept with the list to come, or moves the index.
LEMMA StepsAreKept ==
    ASSUME Switcher!SwitcherInv, NEW direction \in {1, -1},
           Switcher!OpenWithClients(direction) \/ Switcher!Cycle(direction)
    PROVE  Switcher!SwitcherInv'
  <1> USE DEF Switcher!SwitcherInv, Switcher!AtTypeOK, Switcher!NothingWaitsInVain
  <1>1. /\ v10' \in [wanted : Int, steps : Nat, merged : BOOLEAN]
        /\ v10'.wanted = IF v8 THEN v10.wanted ELSE v10.wanted + direction
        /\ v10'.merged = (v10.merged \/ v8)
    BY DEF Switcher!OpenWithClients, Switcher!Cycle, Switcher!Stepped
  <1>2. ASSUME Switcher!OpenWithClients(direction) PROVE Switcher!SwitcherInv'
    <2>1. /\ UNCHANGED <<v1, v2, v3, v4, v8, v11, v12>> /\ ~v2 /\ v7' = TRUE
          /\ \/ v9 # Switcher!Off /\ v5' = (IF v7 THEN v5 + direction ELSE direction) /\ v6' = v6 /\ v9' = v9
             \/ v9 = Switcher!Off /\ v5' = direction /\ v6' = TRUE /\ v9' = Switcher!Started
      BY <1>2 DEF Switcher!OpenWithClients
    <2>2. v9' # Switcher!Off /\ v6' = TRUE
      BY <2>1 DEF Switcher!Off, Switcher!Started
    <2>3. ~v7 => v10.wanted = 0 /\ ~v8
      BY <2>1 DEF Switcher!Fresh
    <2>4. v5' \in Int /\ (~v10'.merged => v5' = v10'.wanted)
      BY <1>1, <2>1, <2>3
    <2>5. Switcher!CommitsAreMeant'
      BY <2>1 DEF Switcher!CommitsAreMeant
    <2> QED  BY <1>1, <2>1, <2>2, <2>4, <2>5
  <1>3. ASSUME Switcher!Cycle(direction) PROVE Switcher!SwitcherInv'
    <2> DEFINE n == Len(v3)
               a == v4 + direction + n
    <2>1. /\ UNCHANGED <<v1, v2, v3, v5, v6, v7, v8, v9, v11, v12>> /\ v2 /\ v3 # << >>
          /\ v4' = Switcher!Rem(a, n)
      BY <1>3 DEF Switcher!Cycle
    <2>2. n \in Nat \ {0} /\ a \in Int /\ Switcher!PointsAt(v4, n) /\ ~v8
      BY <2>1, ListsOfWindows, SwitcherIsBounded
    <2>3. /\ v4' \in Int /\ -n < v4' /\ v4' < n
          /\ (v4' + n) % n = a % n
      BY <2>1, <2>2, JavaScriptsRest
    <2>4. a = (v4 + n) + direction /\ v4 + n \in Int /\ (v4 + n) % n = v10.wanted % n
      BY <2>2 DEF Switcher!PointsAt
    <2> HIDE DEF n, a
    <2> DEFINE b == v4 + n
               w == v10.wanted
    <2>5. b \in Int /\ b % n = w % n /\ a = b + direction /\ direction \in Int /\ w \in Int
      BY <2>4
    <2> HIDE DEF b, w
    <2>6. a % n = (w + direction) % n
      <3>1. n \in Nat \ {0}
        BY <2>2
      <3> HIDE DEF Switcher!SwitcherInv, Switcher!AtTypeOK, Switcher!NothingWaitsInVain
      <3> DEFINE d == direction
      <3>2. d \in Int /\ b \in Int /\ w \in Int /\ b % n = w % n
        BY <2>5
      <3> HIDE DEF d
      <3>3. (b + d) % n = (w + d) % n
        BY <3>1, <3>2, AddingToBoth
      <3>4. (b + direction) % n = (w + direction) % n
        BY <3>3 DEF d
      <3> QED  BY <3>4, <2>5
    <2>7. v10'.wanted = v10.wanted + direction
      BY <1>1, <2>2
    <2>8. (v4' + n) % n = v10'.wanted % n
      BY <2>3, <2>6, <2>7 DEF w
    <2>9. Switcher!PointsAt(v4, n)'
      BY <2>1, <2>3, <2>8 DEF Switcher!PointsAt, n
    <2>10. Switcher!CommitsAreMeant'
      BY <2>1 DEF Switcher!CommitsAreMeant
    <2> QED  BY <1>1, <2>1, <2>2, <2>3, <2>9, <2>10 DEF n
  <1> QED  BY <1>2, <1>3

\* The pointer chooses the window it enters.
LEMMA PointingIsKept ==
    ASSUME Switcher!SwitcherInv, NEW i \in 0..Len(v3), Switcher!Preview(i)
    PROVE  Switcher!SwitcherInv'
  <1> USE DEF Switcher!SwitcherInv, Switcher!AtTypeOK, Switcher!NothingWaitsInVain
  <1> DEFINE n == Len(v3)
  <1>1. /\ UNCHANGED <<v1, v2, v3, v5, v6, v7, v8, v9, v11, v12>> /\ v2
        /\ v4' = i /\ v10' = [v10 EXCEPT !.wanted = i]
        /\ n \in Nat \ {0} /\ i \in 0..(n - 1)
    BY ListsOfWindows, SwitcherIsBounded DEF Switcher!Preview, Switcher!IsIndex
  <1>2. v10' \in [wanted : Int, steps : Nat,
      merged : BOOLEAN] /\ v10'.wanted = i /\ v10'.merged = v10.merged
    BY <1>1
  <1>3. Switcher!PointsAt(v4, n)'
    <2> HIDE DEF n
    <2>1. (i + n) % n = i /\ i % n = i /\ -n < i
      BY <1>1, OneMore
    <2>2. v3' = v3 /\ v4' = i /\ v10'.wanted = i
      BY <1>1, <1>2
    <2> QED  BY <1>1, <2>1, <2>2 DEF Switcher!PointsAt, n
  <1>4. Switcher!CommitsAreMeant'
    BY <1>1 DEF Switcher!CommitsAreMeant
  <1> QED  BY <1>1, <1>2, <1>3, <1>4

\* A commit waits for its list, or focuses the window the index points at.
LEMMA CommitIsKept == ASSUME Switcher!SwitcherInv, Switcher!Commit PROVE Switcher!SwitcherInv'
  <1> USE DEF Switcher!SwitcherInv, Switcher!AtTypeOK, Switcher!NothingWaitsInVain
  <1>1. CASE v6 \/ v7
    <2>1. v8' = TRUE /\ UNCHANGED <<v1, v2, v3, v4, v5, v6, v7, v9, v10, v11, v12>>
      BY <1>1 DEF Switcher!Commit, Switcher!CommitLater
    <2>2. Switcher!CommitsAreMeant'
      BY <2>1 DEF Switcher!CommitsAreMeant
    <2>3. v2 => Switcher!PointsAt(v4, Len(v3))'
      BY <2>1 DEF Switcher!PointsAt
    <2> QED  BY <1>1, <2>1, <2>2, <2>3
  <1>2. CASE ~v6 /\ ~v7
    <2>1. /\ Switcher!Choose(v3, v4) /\ UNCHANGED <<v4, v9, v12>> /\ v2' = FALSE /\ v3' = << >>
          /\ \/ v5' = 0 /\ v6' = FALSE /\ v7' = FALSE /\ v8' = FALSE
             \/ UNCHANGED <<v5, v6, v7, v8>>
      BY <1>2 DEF Switcher!Commit, Switcher!CommitNow, Switcher!Cancelled
    <2>2. v3 # << >> => Switcher!PointsAt(v4, Len(v3))
      OBVIOUS
    <2>3. v1' \in Switcher!Orders /\ v10' = Switcher!Fresh /\ Switcher!CommitsAreMeant'
      BY <2>1, <2>2, ChoosesTheWanted
    <2>4. << >> \in Switcher!Orders
      BY SwitcherIsBounded DEF Switcher!Orders
    <2>5. Switcher!AtTypeOK'
      BY <1>2, <2>1, <2>3, <2>4, FreshSession
    <2>6. Switcher!NothingWaitsInVain'
      BY <1>2, <2>1
    <2> HIDE DEF Switcher!AtTypeOK, Switcher!NothingWaitsInVain
    <2> QED  BY <1>2, <2>1, <2>3, <2>5, <2>6, FreshSession
  <1> QED  BY <1>1, <1>2

\* The list has come: what was put off is done.
LEMMA ListingIsKept == ASSUME Switcher!SwitcherInv, Switcher!Listed PROVE Switcher!SwitcherInv'
  <1> USE DEF Switcher!SwitcherInv, Switcher!AtTypeOK, Switcher!NothingWaitsInVain
  <1> DEFINE list == v9.list
             n    == Len(list)
             i    == IF n > 1 THEN Switcher!Rem(v5 + n, n) ELSE 0
  <1>1. list \in Switcher!Orders /\ v9 # Switcher!Off /\ v7 /\ v6 /\ v9' = Switcher!Off /\ v12' = v12
    BY DEF Switcher!Listed, Switcher!Off, Switcher!Started
  <1>2. Switcher!FinishOpen(list) /\ ~v2
    BY <1>1 DEF Switcher!Listed
  <1>3. n \in Nat /\ (list = << >> <=> n = 0) /\ << >> \in Switcher!Orders
    BY <1>1, ListsOfWindows, SwitcherIsBounded DEF Switcher!Orders
  <1>4. CASE n = 0
    <2>1. /\ v2' = FALSE /\ v3' = << >> /\ v5' = 0 /\ v6' = FALSE /\ v7' = FALSE /\ v8' = FALSE
          /\ v10' = Switcher!Fresh /\ UNCHANGED <<v1, v4, v11>>
      BY <1>2, <1>4 DEF Switcher!FinishOpen, Switcher!Cancelled, Switcher!NewSession
    <2>2. Switcher!CommitsAreMeant'
      BY <2>1 DEF Switcher!CommitsAreMeant
    <2> QED  BY <1>1, <1>3, <2>1, <2>2, FreshSession
  <1>5. CASE n # 0
    <2>1. i \in Int /\ -n < i /\ i < n
      <3>1. CASE n > 1
        <4>1. n \in Nat \ {0} /\ v5 + n \in Int /\ i = Switcher!Rem(v5 + n, n)
          BY <1>3, <3>1
        <4> HIDE DEF n, i
        <4> QED  BY <4>1, JavaScriptsRest
      <3>2. CASE n = 1
        BY <3>2
      <3> QED  BY <1>3, <1>5, <3>1, <3>2
    <2>2. ASSUME ~v10.merged PROVE Switcher!PointsAt(i, n)
      <3>1. v5 = v10.wanted /\ v5 \in Int
        BY <1>1, <2>2
      <3>2. CASE n > 1
        <4>1. i = Switcher!Rem(v5 + n, n) /\ v5 + n \in Int /\ n \in Nat \ {0}
          BY <1>3, <3>1, <3>2
        <4> HIDE DEF n, i
        <4>2. (i + n) % n = (v5 + n) % n
          BY <4>1, JavaScriptsRest
        <4>3. (v5 + n) % n = v5 % n
          BY <3>1, <4>1, AddingTheDivisor
        <4> QED  BY <2>1, <3>1, <4>2, <4>3 DEF Switcher!PointsAt
      <3>3. CASE n = 1
        <4>1. i = 0 /\ v10.wanted \in Int
          BY <3>3
        <4>2. v10.wanted % 1 \in 0..0
          BY <4>1, Dividing
        <4>3. (0 + 1) % 1 = 0 /\ v10.wanted % 1 = 0
          BY <4>2
        <4> QED  BY <2>1, <3>3, <4>1, <4>3 DEF Switcher!PointsAt
      <3>4. n > 1 \/ n = 1
        <4> HIDE DEF n
        <4> QED  BY <1>3, <1>5
      <3> HIDE DEF n, i
      <3> QED  BY <3>2, <3>3, <3>4
    <2>3. /\ v4' = i /\ v5' = 0 /\ v7' = FALSE /\ v6' = FALSE
          /\ \/ ~v8 /\ v2' = TRUE /\ v3' = list /\ UNCHANGED <<v1, v8, v10, v11>>
             \/ v8 /\ v8' = FALSE /\ v2' = FALSE /\ v3' = << >> /\ Switcher!Choose(list, i)
      BY <1>2, <1>5 DEF Switcher!FinishOpen
    <2> HIDE DEF i, list
    <2>4. CASE ~v8
      <3>1. Switcher!PointsAt(v4, Len(v3))'
        BY <2>2, <2>3, <2>4 DEF Switcher!PointsAt
      <3>2. Switcher!CommitsAreMeant'
        BY <2>3, <2>4 DEF Switcher!CommitsAreMeant
      <3>3. Switcher!AtTypeOK'
        <4>1. v4' \in Int /\ v5' \in Int
          BY <2>1, <2>3
        <4>2. v1' \in Switcher!Orders /\ v3' \in Switcher!Orders /\ v12' \in Nat /\ v9' = Switcher!Off
          BY <1>1, <2>3, <2>4
        <4>3. v10' \in [wanted : Int, steps : Nat, merged : BOOLEAN] /\ v8' \in BOOLEAN
          BY <2>3, <2>4
        <4>4. v2' \in BOOLEAN /\ v6' \in BOOLEAN /\ v7' \in BOOLEAN
          BY <2>3, <2>4
        <4> QED  BY <4>1, <4>2, <4>3, <4>4
      <3>4. Switcher!NothingWaitsInVain'
        BY <1>1, <1>3, <1>5, <2>3, <2>4
      <3>5. v10'.merged => v8'
        BY <2>3, <2>4
      <3> HIDE DEF Switcher!AtTypeOK, Switcher!NothingWaitsInVain
      <3> QED  BY <2>3, <2>4, <3>1, <3>2, <3>3, <3>4, <3>5
    <2>5. CASE v8
      <3>1. v1' \in Switcher!Orders /\ v10' = Switcher!Fresh /\ Switcher!CommitsAreMeant'
        BY <1>1, <2>1, <2>2, <2>3, <2>5, ChoosesTheWanted
      <3> QED  BY <1>1, <1>3, <2>1, <2>3, <2>5, <3>1, FreshSession
    <2> QED  BY <2>4, <2>5
  <1> QED  BY <1>4, <1>5

\* Each step keeps what was asked for (step, commit, cancel, finishOpenWithClients).
LEMMA SwitcherStep == ASSUME Switcher!SwitcherInv, Switcher!AtNext PROVE Switcher!SwitcherInv'
  <1>1. ASSUME Switcher!Cancel PROVE Switcher!SwitcherInv'
    <2>1. << >> \in Switcher!Orders
      BY SwitcherIsBounded DEF Switcher!Orders
    <2> QED
      BY <1>1, <2>1, FreshSession
      DEF Switcher!Cancel, Switcher!Cancelled, Switcher!NewSession, Switcher!SwitcherInv,
          Switcher!AtTypeOK, Switcher!CommitsAreMeant, Switcher!NothingWaitsInVain
  <1>2. ASSUME Switcher!ReadWindows PROVE Switcher!SwitcherInv'
    BY <1>2
    DEF Switcher!ReadWindows, Switcher!state, Switcher!SwitcherInv, Switcher!AtTypeOK,
        Switcher!PointsAt,
        Switcher!CommitsAreMeant, Switcher!NothingWaitsInVain, Switcher!Off, Switcher!Started
  <1>3. ASSUME Switcher!WindowsChange PROVE Switcher!SwitcherInv'
    BY <1>3
    DEF Switcher!WindowsChange, Switcher!state, Switcher!SwitcherInv, Switcher!AtTypeOK,
        Switcher!PointsAt,
        Switcher!CommitsAreMeant, Switcher!NothingWaitsInVain
  <1> QED
    BY <1>1, <1>2, <1>3, StepsAreKept, PointingIsKept, CommitIsKept,
         ListingIsKept DEF Switcher!AtNext

(***************************************************************************)
(* The pastes of the Explorer.                                             *)
(***************************************************************************)
\* A job is neither nothing nor what is pending when nothing is.
LEMMA JobsAreJobs ==
    /\ Nil \notin Pasting!Jobs /\ Nil \notin Destinations /\ Pasting!NoPend \notin Pasting!Jobs
    /\ Pasting!NoPend.files = {} /\ Pasting!NoPend.mode = "" /\ Pasting!NoPend.dest = Nil
  <1>1. Nil \notin Pasting!Jobs /\ Nil \notin Destinations
    BY NilIsNoJob DEF Pasting!Jobs
  <1>2. Pasting!NoPend \notin Pasting!Jobs
    BY DEF Pasting!Jobs, Pasting!NoPend
  <1> QED  BY <1>1, <1>2 DEF Pasting!NoPend

\* A process that is off is started, and one that ends is off.
LEMMA ProcessesStart ==
    ASSUME NEW jobs, NEW p \in Pasting!Processes(jobs), NEW job \in jobs, p.pc = "off"
    PROVE  /\ Pasting!Restart(p, job) \in Pasting!Processes(jobs)
           /\ Pasting!Restart(p, job).pc = "on" /\ Pasting!Restart(p, job).job = job
           /\ Pasting!Restart(p, job).next = Nil
  BY DEF Pasting!Restart, Pasting!Processes

LEMMA ProcessesEnd ==
    ASSUME NEW jobs, NEW p \in Pasting!Processes(jobs), NEW ok \in BOOLEAN
    PROVE  /\ Pasting!Ended(p, ok) \in Pasting!Processes(jobs)
           /\ Pasting!Ended(p, ok).pc = "off" /\ Pasting!Ended(p, ok).ok = ok
  BY DEF Pasting!Ended, Pasting!Processes, Pasting!Stopped

\* Nothing was asked for when the window opens.
LEMMA PasteAtStart == ASSUME Pasting!Init PROVE Pasting!PasteInv
  <1>1. /\ Pasting!Stopped \in Pasting!Processes(Pasting!Jobs)
        /\ Pasting!Stopped \in Pasting!Processes(Destinations)
        /\ Pasting!Stopped.pc = "off"
    BY DEF Pasting!Stopped, Pasting!Processes
  <1> QED
    BY <1>1
    DEF Pasting!Init, Pasting!PasteInv, Pasting!PasteTypeOK, Pasting!OneAtATime,
        Pasting!PendingIsMeant,
        Pasting!PanelIsRight

\* A scan is started for what was asked for, and nothing else is under way.
LEMMA ScanStarts ==
    ASSUME Pasting!PasteInv, NEW files \in SUBSET Selectable, files # {},
           NEW mode \in {"copy", "cut", "move"}, NEW to \in Destinations,
           Pasting!StartPasteForFiles(files, mode, to),
           v8.pc = "off", v9.pc = "off", v5 = Nil, v7'.pc = "off",
           v7' \in Pasting!Processes(Destinations),
           v12' \in [asks : Nat, runs : Nat], UNCHANGED <<v1, v2, v4, v5, v6, v9>>
    PROVE  Pasting!PasteInv'
  <1> DEFINE job == [files |-> files, mode |-> mode, dest |-> to]
  <1>1. job \in Pasting!Jobs /\ job # Nil /\ job # Pasting!NoPend
    <2>1. job \in Pasting!Jobs
      BY DEF Pasting!Jobs
    <2> QED  BY <2>1, JobsAreJobs
  <1>2. v8' = Pasting!Restart(v8, job) /\ v3' = job /\ v10' = job
    BY DEF Pasting!StartPasteForFiles
  <1> HIDE DEF job
  <1>3. v8 \in Pasting!Processes(Pasting!Jobs)
    BY DEF Pasting!PasteInv, Pasting!PasteTypeOK
  <1>4. v8' \in Pasting!Processes(Pasting!Jobs) /\ v8'.pc = "on" /\ v8'.job = job
    BY <1>1, <1>2, <1>3, ProcessesStart
  <1> USE DEF Pasting!PasteInv, Pasting!PasteTypeOK, Pasting!OneAtATime, Pasting!PendingIsMeant
  <1>5. Pasting!PanelIsRight'
    BY DEF Pasting!PanelIsRight
  <1>6. Pasting!PasteTypeOK'
    BY <1>1, <1>2, <1>4
  <1>7. Pasting!OneAtATime'
    BY <1>4
  <1>8. Pasting!PendingIsMeant'
    BY <1>1, <1>2, <1>4
  <1> HIDE DEF Pasting!PasteTypeOK, Pasting!OneAtATime, Pasting!PendingIsMeant
  <1> QED  BY <1>5, <1>6, <1>7, <1>8

\* The clipboard and the folder change what is pasted next, and nothing that was asked for.
LEMMA WindowIsKept ==
    ASSUME Pasting!PasteInv,
           \/ \E files \in (SUBSET Selectable) \ {{}} :
                Pasting!CopySelected(files) \/ Pasting!CutSelected(files)
           \/ \E to \in Destinations : Pasting!Navigate(to)
    PROVE  Pasting!PasteInv' /\ UNCHANGED <<v9, v12>>
  <1> USE DEF Pasting!PasteInv, Pasting!PasteTypeOK, Pasting!OneAtATime, Pasting!PendingIsMeant
  <1>1. /\ v1' \in [files : SUBSET Selectable, mode : {"copy", "cut", ""}]
        /\ v1'.files # {} => v1'.mode # ""
        /\ v2' \in Destinations /\ UNCHANGED <<v3, v4, v5, v6, v7, v8, v9, v10, v12>>
    <2>1. CASE \E to \in Destinations : Pasting!Navigate(to)
      BY <2>1 DEF Pasting!Navigate
    <2>2. ASSUME NEW files \in SUBSET Selectable, NEW mode, Pasting!SetClip(files, mode),
                 \/ files # {} /\ mode \in {"copy", "cut"}
                 \/ files = {} /\ mode = ""
          PROVE  /\ v1' \in [files : SUBSET Selectable, mode : {"copy", "cut", ""}]
                 /\ v1'.files # {} => v1'.mode # ""
                 /\ v2' \in Destinations /\ UNCHANGED <<v3, v4, v5, v6, v7, v8, v9, v10, v12>>
      BY <2>2 DEF Pasting!SetClip
    <2> QED  BY <2>1, <2>2 DEF Pasting!CopySelected, Pasting!CutSelected
  <1>2. Pasting!PanelIsRight'
    BY <1>1 DEF Pasting!PanelIsRight
  <1> QED  BY <1>1, <1>2

\* A paste is asked for when nothing is under way.
LEMMA AskingIsKept ==
    ASSUME Pasting!PasteInv,
           \/ Pasting!PasteFiles
           \/ \E files \in (SUBSET Selectable) \ {{}}, mode \in {"copy", "move"},
               to \in Destinations :
                Pasting!DropFilePaths(files, mode, to)
    PROVE  Pasting!PasteInv' /\ v9' = v9
  <1>1. /\ v7.pc = "off" /\ v8.pc = "off" /\ v9.pc = "off" /\ v5 = Nil
        /\ v12' \in [asks : Nat, runs : Nat] /\ UNCHANGED <<v1, v2, v4, v5, v6, v9>>
    <2>1. Pasting!Ask
      BY DEF Pasting!PasteFiles, Pasting!DropFilePaths
    <2>2. v12 \in [asks : Nat, runs : Nat]
      BY DEF Pasting!PasteInv, Pasting!PasteTypeOK
    <2> QED  BY <2>1, <2>2 DEF Pasting!Ask, Pasting!UnderWay
  <1>2. CASE \E files \in (SUBSET Selectable) \ {{}}, mode \in {"copy", "move"},
      to \in Destinations :
               Pasting!DropFilePaths(files, mode, to)
    <2>1. PICK files \in (SUBSET Selectable) \ {{}}, mode \in {"copy", "move"},
        to \in Destinations :
            Pasting!StartPasteForFiles(files, mode, to) /\ v7' = v7
      BY <1>2 DEF Pasting!DropFilePaths
    <2>2. v7 \in Pasting!Processes(Destinations)
      BY DEF Pasting!PasteInv, Pasting!PasteTypeOK
    <2>3. files \in SUBSET Selectable /\ files # {} /\ mode \in {"copy", "cut", "move"}
      OBVIOUS
    <2> QED  BY <1>1, <2>1, <2>2, <2>3, ScanStarts
  <1>3. CASE Pasting!PasteFiles /\ v1.files # {}
    <2>1. Pasting!StartPasteForFiles(v1.files, v1.mode, v2) /\ v7' = v7
      BY <1>3 DEF Pasting!PasteFiles
    <2>2. /\ v7 \in Pasting!Processes(Destinations) /\ v2 \in Destinations
          /\ v1.files \in SUBSET Selectable /\ v1.mode \in {"copy", "cut", "move"}
      BY <1>3 DEF Pasting!PasteInv, Pasting!PasteTypeOK
    <2> QED  BY <1>1, <1>3, <2>1, <2>2, ScanStarts
  <1>4. CASE Pasting!PasteFiles /\ v1.files = {}
    <2> USE DEF Pasting!PasteInv, Pasting!PasteTypeOK, Pasting!OneAtATime, Pasting!PendingIsMeant
    <2>1. v7' = Pasting!Restart(v7, v2) /\ UNCHANGED <<v3, v8, v10>>
      BY <1>4 DEF Pasting!PasteFiles
    <2>2. v7' \in Pasting!Processes(Destinations)
      BY <1>1, <2>1, ProcessesStart
    <2>3. Pasting!PanelIsRight'
      BY <1>1 DEF Pasting!PanelIsRight
    <2> QED  BY <1>1, <2>1, <2>2, <2>3
  <1> QED  BY <1>2, <1>3, <1>4

\* The system's clipboard, or the window's own, is what is scanned.
LEMMA ProbeIsKept == ASSUME Pasting!PasteInv,
    Pasting!ProbeEnds PROVE Pasting!PasteInv' /\ UNCHANGED <<v9, v12>>
  <1>1. /\ v7.pc # "off" /\ v8.pc = "off" /\ v9.pc = "off" /\ v5 = Nil
        /\ v12' = v12 /\ v12 \in [asks : Nat, runs : Nat] /\ UNCHANGED <<v1, v2, v4, v5, v6, v9>>
    BY DEF Pasting!ProbeEnds, Pasting!PasteInv, Pasting!PasteTypeOK, Pasting!OneAtATime
  <1>2. v7' \in Pasting!Processes(Destinations) /\ v7'.pc = "off"
    BY ProcessesEnd DEF Pasting!ProbeEnds, Pasting!PasteInv, Pasting!PasteTypeOK
  <1>3. CASE \E files \in (SUBSET Selectable) \ {{}} : Pasting!StartPasteForFiles(files, "copy",
      v2)
    <2>1. PICK files \in (SUBSET Selectable) \ {{}} : Pasting!StartPasteForFiles(files, "copy",
        v2)
      BY <1>3
    <2>2. v2 \in Destinations /\ files \in SUBSET Selectable /\ files # {}
      BY DEF Pasting!PasteInv, Pasting!PasteTypeOK
    <2> QED  BY <1>1, <1>2, <2>1, <2>2, ScanStarts
  <1>4. CASE v1.files # {} /\ Pasting!StartPasteForFiles(v1.files, v1.mode, v2)
    <2>1. /\ v2 \in Destinations
          /\ v1.files \in SUBSET Selectable /\ v1.mode \in {"copy", "cut", "move"}
      BY <1>4 DEF Pasting!PasteInv, Pasting!PasteTypeOK
    <2> QED  BY <1>1, <1>2, <1>4, <2>1, ScanStarts
  <1>5. CASE UNCHANGED <<v3, v8, v10>>
    <2> USE DEF Pasting!PasteInv, Pasting!PasteTypeOK, Pasting!OneAtATime, Pasting!PendingIsMeant
    <2>1. Pasting!PanelIsRight'
      BY <1>1 DEF Pasting!PanelIsRight
    <2> QED  BY <1>1, <1>2, <1>5, <2>1
  <1> QED  BY <1>1, <1>3, <1>4, <1>5 DEF Pasting!ProbeEnds

\* What is pending is what is run.
LEMMA JobIsPending ==
    ASSUME v3 \in Pasting!Jobs
    PROVE  Pasting!Job = v3 /\ v3.files # {}
  <1>1. /\ v3.files # {} /\ v3.mode # "" /\ v3.dest \in Destinations
        /\ v3 = [files |-> v3.files, mode |-> v3.mode, dest |-> v3.dest]
    BY DEF Pasting!Jobs
  <1>2. v3.dest # Nil
    BY <1>1, JobsAreJobs
  <1> QED  BY <1>1, <1>2 DEF Pasting!Job

\* A paste that was scanned, or asked about, starts with what is pending.
LEMMA PasteStarts ==
    ASSUME Pasting!PasteInv, Pasting!ExecutePaste, v3 \in Pasting!Jobs, v9.pc = "off",
        v8'.pc = "off",
           v8' \in Pasting!Processes(Pasting!Jobs), v7.pc = "off", UNCHANGED <<v1, v2, v7>>
    PROVE  /\ Pasting!PasteInv'
           /\ v9'.next = Nil /\ v9'.job = v3 /\ v9'.pc = "on"
           /\ v12'.runs # v12.runs /\ v10 = v3 /\ v3 # Nil
  <1>1. /\ v9' = Pasting!Restart(v9, v3) /\ v4' = (v3.mode = "cut") /\ v3' = Pasting!NoPend
        /\ v5' = Nil /\ v6' = "shown" /\ v10' = Nil /\ v12' = [v12 EXCEPT !.runs = @ + 1]
    <2>1. Pasting!Job = v3 /\ v3.files # {}
      BY JobIsPending
    <2> QED  BY <2>1 DEF Pasting!ExecutePaste
  <1>2. v9 \in Pasting!Processes(Pasting!Jobs) /\ v12 \in [asks : Nat, runs : Nat]
    BY DEF Pasting!PasteInv, Pasting!PasteTypeOK
  <1>3. v9' \in Pasting!Processes(Pasting!Jobs) /\ v9'.pc = "on" /\ v9'.job = v3 /\ v9'.next = Nil
    BY <1>1, <1>2, ProcessesStart
  <1>4. v12' \in [asks : Nat, runs : Nat] /\ v12'.runs # v12.runs
    BY <1>1, <1>2
  <1>5. v10 = v3 /\ v3 # Nil
    BY JobsAreJobs DEF Pasting!PasteInv, Pasting!PendingIsMeant
  <1> USE DEF Pasting!PasteInv, Pasting!PasteTypeOK, Pasting!OneAtATime, Pasting!PendingIsMeant
  <1>6. Pasting!PanelIsRight'
    BY <1>1, <1>3 DEF Pasting!PanelIsRight
  <1>7. Pasting!PasteTypeOK'
    BY <1>1, <1>3, <1>4
  <1>8. Pasting!OneAtATime' /\ Pasting!PendingIsMeant'
    BY <1>1, <1>3
  <1> HIDE DEF Pasting!PasteTypeOK, Pasting!OneAtATime, Pasting!PendingIsMeant
  <1> QED  BY <1>3, <1>4, <1>5, <1>6, <1>7, <1>8

\* A scan lets the paste run, asks about it, or refuses it.
LEMMA ScanIsKept ==
    ASSUME Pasting!PasteInv, Pasting!ScanEnds
    PROVE  Pasting!PasteInv' /\ Pasting!StartingStep /\ Pasting!EmptyingStep
  <1>1. /\ v8.pc # "off" /\ v7.pc = "off" /\ v9.pc = "off" /\ v5 = Nil /\ v3 = v8.job
        /\ v3 \in Pasting!Jobs /\ v10 = v3 /\ ~v4 /\ UNCHANGED <<v1, v2, v7>>
    <2>1. v8.pc # "off" /\ UNCHANGED <<v1, v2, v7>>
      BY DEF Pasting!ScanEnds
    <2>2. v7.pc = "off" /\ v9.pc = "off" /\ v5 = Nil
      BY <2>1 DEF Pasting!PasteInv, Pasting!OneAtATime
    <2>3. v3 = v8.job /\ v3 # Pasting!NoPend /\ v10 = v3
      BY <2>1 DEF Pasting!PasteInv, Pasting!PendingIsMeant
    <2>4. v3 \in Pasting!Jobs /\ ~v4
      BY <2>2, <2>3 DEF Pasting!PasteInv, Pasting!PasteTypeOK, Pasting!PendingIsMeant
    <2> QED  BY <2>1, <2>2, <2>3, <2>4
  <1>2. v8' \in Pasting!Processes(Pasting!Jobs) /\ v8'.pc = "off"
    BY ProcessesEnd DEF Pasting!ScanEnds, Pasting!PasteInv, Pasting!PasteTypeOK
  <1>3. CASE Pasting!ExecutePaste
    <2>1. Pasting!PasteInv' /\ v9'.next = Nil /\ v9'.job = v3 /\ v12'.runs # v12.runs /\ v3 # Nil
      BY <1>1, <1>2, <1>3, PasteStarts
    <2>2. v8' # v8
      BY <1>1, <1>2
    <2>3. Pasting!StartingStep
      BY <1>1, <2>1, <2>2 DEF Pasting!StartingStep, Pasting!Latest
    <2>4. Pasting!EmptyingStep
      BY <1>1 DEF Pasting!EmptyingStep
    <2> QED  BY <2>1, <2>3, <2>4
  <1>4. CASE UNCHANGED <<v9, v12, v4>>
    <2> USE DEF Pasting!PasteInv, Pasting!PasteTypeOK, Pasting!OneAtATime, Pasting!PendingIsMeant
    <2>1. \/ v5' = v8.job /\ UNCHANGED <<v3, v6, v10>>
          \/ v3' = Pasting!NoPend /\ v10' = Nil /\ v6' = "hiding" /\ v5' = v5
      BY <1>4, <1>1, JobIsPending, PasteStarts, <1>2 DEF Pasting!ScanEnds
    <2>2. Pasting!PanelIsRight'
      BY <1>1, <1>4, <2>1 DEF Pasting!PanelIsRight
    <2>3. Pasting!StartingStep /\ Pasting!EmptyingStep
      BY <1>1, <1>4 DEF Pasting!StartingStep, Pasting!EmptyingStep
    <2>4. Pasting!NoPend # v3 /\ Nil # v3
      BY <1>1, JobsAreJobs
    <2>5. Pasting!PasteTypeOK'
      BY <1>1, <1>2, <1>4, <2>1
    <2>6. Pasting!OneAtATime' /\ Pasting!PendingIsMeant'
      BY <1>1, <1>2, <1>4, <2>1, <2>4
    <2> HIDE DEF Pasting!PasteTypeOK, Pasting!OneAtATime, Pasting!PendingIsMeant
    <2> QED  BY <2>2, <2>3, <2>5, <2>6
  <1> QED  BY <1>3, <1>4 DEF Pasting!ScanEnds

\* The user lets the paste run, with a policy, or gives it up.
LEMMA DialogIsKept ==
    ASSUME Pasting!PasteInv, Pasting!Resolve \/ Pasting!Cancel
    PROVE  Pasting!PasteInv' /\ Pasting!StartingStep /\ Pasting!EmptyingStep
  <1>1. /\ v5 # Nil /\ v7.pc = "off" /\ v8.pc = "off" /\ v9.pc = "off" /\ v3 = v5
        /\ v3 \in Pasting!Jobs /\ v10 = v3 /\ ~v4 /\ UNCHANGED <<v1, v2, v7, v8>>
    <2>1. v5 # Nil /\ UNCHANGED <<v1, v2, v7, v8>>
      BY DEF Pasting!Resolve, Pasting!Cancel
    <2>2. v7.pc = "off" /\ v8.pc = "off" /\ v9.pc = "off"
      BY <2>1 DEF Pasting!PasteInv, Pasting!OneAtATime
    <2>3. v3 = v5 /\ v3 # Pasting!NoPend /\ v10 = v3
      BY <2>1 DEF Pasting!PasteInv, Pasting!PendingIsMeant
    <2>4. v3 \in Pasting!Jobs /\ ~v4
      BY <2>2, <2>3 DEF Pasting!PasteInv, Pasting!PasteTypeOK, Pasting!PendingIsMeant
    <2> QED  BY <2>1, <2>2, <2>3, <2>4
  <1>2. CASE Pasting!Resolve
    <2>1. v8' \in Pasting!Processes(Pasting!Jobs) /\ v8'.pc = "off" /\ Pasting!ExecutePaste
      BY <1>1, <1>2 DEF Pasting!Resolve, Pasting!PasteInv, Pasting!PasteTypeOK
    <2>2. Pasting!PasteInv' /\ v9'.next = Nil /\ v9'.job = v3 /\ v12'.runs # v12.runs /\ v3 # Nil
      BY <1>1, <2>1, PasteStarts
    <2>3. Pasting!StartingStep
      BY <1>1, <2>2 DEF Pasting!StartingStep, Pasting!Latest
    <2>4. Pasting!EmptyingStep
      BY <1>1 DEF Pasting!EmptyingStep
    <2> QED  BY <2>2, <2>3, <2>4
  <1>3. CASE Pasting!Cancel
    <2> USE DEF Pasting!PasteInv, Pasting!PasteTypeOK, Pasting!OneAtATime, Pasting!PendingIsMeant
    <2>1. /\ v5' = Nil /\ v3' = Pasting!NoPend /\ v4' = FALSE /\ v10' = Nil /\ v6' = v6
          /\ UNCHANGED <<v9, v12>>
      BY <1>3 DEF Pasting!Cancel
    <2>2. Pasting!PanelIsRight'
      BY <2>1 DEF Pasting!PanelIsRight
    <2>3. Pasting!StartingStep /\ Pasting!EmptyingStep
      BY <1>1, <2>1 DEF Pasting!StartingStep, Pasting!EmptyingStep
    <2> QED  BY <1>1, <2>1, <2>2, <2>3
  <1> QED  BY <1>2, <1>3

\* A paste ends; a success of a cut empties the clipboard.
LEMMA EndIsKept ==
    ASSUME Pasting!PasteInv, NEW ok \in BOOLEAN, Pasting!PasteEnds(ok)
    PROVE  Pasting!PasteInv' /\ Pasting!StartingStep /\ Pasting!EmptyingStep
  <1> USE DEF Pasting!PasteInv, Pasting!PasteTypeOK, Pasting!OneAtATime, Pasting!PendingIsMeant
  <1>1. /\ v9.pc # "off" /\ v4' = FALSE /\ UNCHANGED <<v2, v3, v5, v7, v8, v10, v11, v12>>
        /\ v1' = (IF ok /\ v4 THEN [v1 EXCEPT !.files = {}] ELSE v1)
        /\ v6' = IF v6 = "hidden" THEN "hidden" ELSE "hiding"
    BY DEF Pasting!PasteEnds
  <1>2. v9' \in Pasting!Processes(Pasting!Jobs) /\ v9'.pc = "off" /\ v9'.ok = ok
    BY ProcessesEnd DEF Pasting!PasteEnds
  <1>3. /\ v1' \in [files : SUBSET Selectable, mode : {"copy", "cut", ""}]
        /\ v1'.files # {} => v1'.mode # ""
        /\ ok /\ v4 => v1'.files = {}
        /\ ~(ok /\ v4) => v1' = v1
    BY <1>1
  <1>4. Pasting!PanelIsRight'
    BY <1>1, <1>2 DEF Pasting!PanelIsRight
  <1>5. Pasting!StartingStep
    BY <1>1 DEF Pasting!StartingStep
  <1>6. Pasting!EmptyingStep
    BY <1>1, <1>2, <1>3 DEF Pasting!EmptyingStep
  <1>7. Pasting!PasteTypeOK'
    BY <1>1, <1>2, <1>3
  <1>8. Pasting!OneAtATime' /\ Pasting!PendingIsMeant'
    BY <1>1, <1>2
  <1> HIDE DEF Pasting!PasteTypeOK, Pasting!OneAtATime, Pasting!PendingIsMeant
  <1> QED  BY <1>4, <1>5, <1>6, <1>7, <1>8

\* Each step keeps what is pending to what was asked for (startPasteForFiles, executePaste).
LEMMA PasteStep ==
    ASSUME Pasting!PasteInv, Pasting!Next
    PROVE  Pasting!PasteInv' /\ Pasting!StartingStep /\ Pasting!EmptyingStep
  <1>1. ASSUME Pasting!Hide
        PROVE  Pasting!PasteInv' /\ UNCHANGED <<v9, v12>>
    BY <1>1
    DEF Pasting!Hide, Pasting!PasteInv, Pasting!PasteTypeOK, Pasting!OneAtATime,
        Pasting!PendingIsMeant,
        Pasting!PanelIsRight
  <1>2. ASSUME v9' = v9, UNCHANGED v12
        PROVE  Pasting!StartingStep /\ Pasting!EmptyingStep
    BY <1>2 DEF Pasting!StartingStep, Pasting!EmptyingStep
  <1>3. ASSUME Pasting!PasteFiles \/ \E files \in (SUBSET Selectable) \ {{}}, mode \in {"copy",
      "move"},
                                        to \in Destinations : Pasting!DropFilePaths(files, mode,
                                            to)
        PROVE  Pasting!PasteInv' /\ Pasting!StartingStep /\ Pasting!EmptyingStep
    <2>1. Pasting!PasteInv' /\ v9' = v9
      BY <1>3, AskingIsKept
    <2>2. v12'.runs = v12.runs
      BY <1>3 DEF Pasting!PasteFiles, Pasting!DropFilePaths, Pasting!Ask, Pasting!PasteInv,
                  Pasting!PasteTypeOK
    <2> QED  BY <2>1, <2>2 DEF Pasting!StartingStep, Pasting!EmptyingStep
  <1> QED
    BY <1>1, <1>2, <1>3, WindowIsKept, ProbeIsKept, ScanIsKept, DialogIsKept, EndIsKept
    DEF Pasting!Next

(***************************************************************************)
(* The parts together.                                                     *)
(***************************************************************************)
ProgramsInv ==
    /\ part = "polkit" => Polkit!PkInv
    /\ part = "alerts" => WeatherWarnings!AlertInv
    /\ part = "weather" => Weather!WeatherInv
    /\ part = "mail" => Mail!MailInv
    /\ part = "wallpaper" => Picture!WallpaperInv
    /\ part = "bluetooth" => Bluetooth!BtInv
    /\ part = "audio" => Audio!AudioInv
    /\ part = "switcher" => Switcher!SwitcherInv
    /\ part = "paste" => Pasting!PasteInv

\* Every part's invariant holds at its start.
LEMMA ProgramsAtStart == Init => ProgramsInv
  BY PolkitAtStart, AlertsAtStart, WeatherAtStart, MailAtStart, WallpaperAtStart,
     BluetoothAtStart, AudioAtStart, SwitcherAtStart, PasteAtStart
  DEF Init, ProgramsInv

\* A step of one part, or none, keeps the invariant and does what its part may do.
LEMMA ProgramsStep ==
    ASSUME ProgramsInv, Next
    PROVE  /\ ProgramsInv'
           /\ part = "polkit" => Polkit!CancellingStep
           /\ part = "alerts" => WeatherWarnings!TellingStep
           /\ part = "weather" => Weather!FetchingStep /\ Weather!PruningStep
           /\ part = "bluetooth" => Bluetooth!ObeyingStep
           /\ part = "audio" => Audio!ChoosingStep
           /\ part = "paste" => Pasting!StartingStep /\ Pasting!EmptyingStep
  <1>1. part' = part
    BY DEF Next
  <1>2. CASE part = "polkit"
    BY <1>1, <1>2, PolkitStep DEF Next, ProgramsInv
  <1>3. CASE part = "alerts"
    BY <1>1, <1>3, AlertsStep DEF Next, ProgramsInv
  <1>4. CASE part = "weather"
    BY <1>1, <1>4, WeatherStep DEF Next, ProgramsInv
  <1>5. CASE part = "mail"
    BY <1>1, <1>5, MailStep DEF Next, ProgramsInv
  <1>6. CASE part = "wallpaper"
    BY <1>1, <1>6, WallpaperStep DEF Next, ProgramsInv
  <1>7. CASE part = "bluetooth"
    BY <1>1, <1>7, BluetoothStep DEF Next, ProgramsInv
  <1>8. CASE part = "audio"
    BY <1>1, <1>8, AudioStep DEF Next, ProgramsInv
  <1>9. CASE part = "switcher"
    BY <1>1, <1>9, SwitcherStep DEF Next, ProgramsInv
  <1>10. CASE part = "paste"
    BY <1>1, <1>10, PasteStep DEF Next, ProgramsInv
  <1>11. CASE part \notin {"polkit", "alerts", "weather", "mail", "wallpaper", "bluetooth",
                        "audio", "switcher", "paste"}
    BY <1>1, <1>11 DEF ProgramsInv
  <1> QED  BY <1>2, <1>3, <1>4, <1>5, <1>6, <1>7, <1>8, <1>9, <1>10, <1>11

\* A stuttering step keeps the invariant.
LEMMA ProgramsStay == ASSUME ProgramsInv, UNCHANGED slots PROVE ProgramsInv'
  <1> USE DEF slots
  <1>1. Polkit!PkInv => Polkit!PkInv'
    BY DEF Polkit!PkInv, Polkit!PkTypeOK, Polkit!NoneIsStranded, Polkit!AnswersAreEarned, Polkit!Flow
  <1>2. WeatherWarnings!AlertInv => WeatherWarnings!AlertInv'
    BY DEF WeatherWarnings!AlertInv, WeatherWarnings!AlertTypeOK, WeatherWarnings!IsList,
           WeatherWarnings!Recalls
  <1>3. Weather!WeatherInv => Weather!WeatherInv'
    BY DEF Weather!WeatherInv, Weather!WeatherTypeOK, Weather!LocationsAreRecent, Weather!OneFetches,
           Weather!AnswersAreRecent, Weather!Recent, Weather!Loadable, Weather!Present,
           Weather!Good, Weather!Allowed, Weather!Answers, Weather!Calls,
           Weather!Pages, Weather!Times
  <1>4. Mail!MailInv => Mail!MailInv'
    BY DEF Mail!MailInv, Mail!MailTypeOK, Mail!CopiesAreTrue, Mail!TrueBut, Mail!HalfDone, Mail!InHand,
           Mail!IsPage, Mail!MailCommands
  <1>5. Picture!WallpaperInv => Picture!WallpaperInv'
    BY DEF Picture!WallpaperInv, Picture!WallpaperTypeOK, Picture!OneCommand, Picture!Prepared,
           Picture!Linked, Picture!Blurred, Picture!Exists
  <1>6. Bluetooth!BtInv => Bluetooth!BtInv'
    BY DEF Bluetooth!BtInv, Bluetooth!BtTypeOK, Bluetooth!OneRuns, Bluetooth!Covers,
           Bluetooth!Cooled, Bluetooth!Right, Bluetooth!Knows, Bluetooth!Auto, Bluetooth!Target
  <1>7. Audio!AudioInv => Audio!AudioInv'
    BY DEF Audio!AudioInv, Audio!AudioTypeOK, Audio!Meant
  <1>8. Switcher!SwitcherInv => Switcher!SwitcherInv'
    BY DEF Switcher!SwitcherInv, Switcher!AtTypeOK, Switcher!CommitsAreMeant,
         Switcher!NothingWaitsInVain, Switcher!PointsAt
  <1>9. Pasting!PasteInv => Pasting!PasteInv'
    BY DEF Pasting!PasteInv, Pasting!PasteTypeOK, Pasting!OneAtATime, Pasting!PendingIsMeant,
         Pasting!PanelIsRight
  <1> QED  BY <1>1, <1>2, <1>3, <1>4, <1>5, <1>6, <1>7, <1>8, <1>9 DEF ProgramsInv

\* The invariant, and what the steps may do, of every behaviour.
LEMMA ProgramsHold ==
    /\ Spec => []ProgramsInv
    /\ Spec => [][part = "polkit" => Polkit!CancellingStep]_slots
    /\ Spec => [][part = "alerts" => WeatherWarnings!TellingStep]_slots
    /\ Spec => [][part = "weather" => Weather!FetchingStep /\ Weather!PruningStep]_slots
    /\ Spec => [][part = "bluetooth" => Bluetooth!ObeyingStep]_slots
    /\ Spec => [][part = "audio" => Audio!ChoosingStep]_slots
    /\ Spec => [][part = "paste" => Pasting!StartingStep /\ Pasting!EmptyingStep]_slots
  <1>1. ProgramsInv /\ [Next]_slots => ProgramsInv'
    BY ProgramsStep, ProgramsStay
  <1>2. ProgramsInv /\ [Next]_slots => [part = "polkit" => Polkit!CancellingStep]_slots
    BY ProgramsStep
  <1>3. ProgramsInv /\ [Next]_slots => [part = "alerts" => WeatherWarnings!TellingStep]_slots
    BY ProgramsStep
  <1>4. ProgramsInv /\ [Next]_slots => [part = "weather" => Weather!FetchingStep /\ Weather!PruningStep]_slots
    BY ProgramsStep
  <1>5. ProgramsInv /\ [Next]_slots => [part = "bluetooth" => Bluetooth!ObeyingStep]_slots
    BY ProgramsStep
  <1>6. ProgramsInv /\ [Next]_slots => [part = "audio" => Audio!ChoosingStep]_slots
    BY ProgramsStep
  <1>7. ProgramsInv /\ [Next]_slots => [part = "paste" => Pasting!StartingStep /\ Pasting!EmptyingStep]_slots
    BY ProgramsStep
  <1> QED  BY ProgramsAtStart, <1>1, <1>2, <1>3, <1>4, <1>5, <1>6, <1>7, PTL DEF Spec

\* For any number of requests, identities and questions: polkitd is told "yes" only of a
\* request that was granted and "no" only when every identity was tried, a request that has
\* no answer has something due that brings it on, and one that is cancelled is tried with
\* no further identity (astrea-polkit-agent.py: try_next_identity, on_completed, finish).
THEOREM RequestsAnswered == Spec => RequestsAreAnswered
  <1>1. ProgramsInv => (part = "polkit" => Polkit!NoneIsStranded /\ Polkit!AnswersAreEarned)
    BY DEF ProgramsInv, Polkit!PkInv
  <1> QED  BY ProgramsHold, <1>1, PTL DEF RequestsAreAnswered

\* As long as no notifier is killed, nobody is told of the same alert twice within
\* NOTIFY_STATE_TTL, whatever alerts come and go (weather.py: notify_inmet_alerts).
THEOREM AlertsToldOnce == Spec => ToldOnce
  BY ProgramsHold, PTL DEF ToldOnce

\* Whatever the ages the caches allow, no answer is of a place or a time older than they
\* allow, callers that ask together fetch once, and no page is pruned that could still be
\* answered with (weather.py: fetch_weather, resolve_location, prune_weather_cache).
THEOREM WeatherIsRecent == Spec => AnswersAreRecent
  <1>1. ProgramsInv => (part = "weather" => Weather!AnswersAreRecent)
    BY DEF ProgramsInv, Weather!WeatherInv, Weather!AnswersAreRecent
  <1> QED  BY ProgramsHold, <1>1, PTL DEF AnswersAreRecent

\* Outside a command, every cached page and the window show each message as the server has
\* it, but those whose change was cut off or could not be sent, for any set of messages
\* (gmail.py: list_messages, modify_message; MailStore.qml: replaceMessages).
THEOREM MailTrue == Spec => []MailIsTrue
  <1>1. ASSUME Mail!MailInv PROVE Mail!PagesAreTrue /\ Mail!WindowIsTrue
    <2>1. ~Mail!Busy => Mail!InHand = {} /\ Mail!HalfDone = {}
      BY DEF Mail!Busy, Mail!InHand, Mail!HalfDone
    <2> QED
      BY <1>1, <2>1
      DEF Mail!MailInv, Mail!MailTypeOK, Mail!CopiesAreTrue, Mail!TrueBut, Mail!PagesAreTrue,
          Mail!WindowIsTrue, Mail!Visible
  <1>2. ProgramsInv => MailIsTrue
    BY <1>1 DEF ProgramsInv, MailIsTrue
  <1> QED  BY ProgramsHold, <1>2, PTL

\* However wallpapers are imported, applied, blurred and deleted, and whichever commands are
\* killed, the picture in use stays on the disk with the lockscreen's blurred copy, and is
\* one a page asked for last (wallpaper_manager.py: apply_scope, delete_user_wallpaper,
\* set_blurred_mode).
THEOREM PictureIsThere == Spec => []RightPictureIsThere
  <1>1. ProgramsInv => RightPictureIsThere
    BY WallpaperHolds DEF ProgramsInv, RightPictureIsThere
  <1> QED  BY ProgramsHold, <1>1, PTL

\* For any devices and any number of command processes, one of which runs at a time, the
\* autoconnect thread connects no device the user disconnected, none while autoconnection
\* is disabled, none that is excluded and none beside another, whatever status it found
\* cached (bluetooth_manager.py: run_autoconnect, disconnect_device, get_status_payload).
THEOREM AutoconnectIsObedient == Spec => AutoconnectObeys
  BY ProgramsHold, PTL DEF AutoconnectObeys

\* For any sinks, however often they come and go and whatever the bridge has read in its
\* calls: at most one output is said to be in use and it is never hidden, and the output
\* chosen is the one heard (audio.py: build_outputs_state, apply_config).
THEOREM OutputsTrue == Spec => OutputsAreTrue
  <1>1. ProgramsInv => (part = "audio" => Audio!InUseIsShown)
    BY OneInUse DEF ProgramsInv
  <1> QED  BY ProgramsHold, <1>1, PTL DEF OutputsAreTrue

\* For any windows, any number of steps and whatever comes and goes: a commit focuses the
\* window the user stepped or pointed to, whenever it came, and what was put off waits for
\* a list that is being read (AltTabController.qml: step, commit, finishOpenWithClients).
THEOREM CommitsMeant == Spec => []CommitsAreMeant
  <1>1. ProgramsInv => CommitsAreMeant
    BY DEF ProgramsInv, CommitsAreMeant, Switcher!SwitcherInv
  <1> QED  BY ProgramsHold, <1>1, PTL

\* For any files and folders and any number of pastes, of which one is under way at a time: a
\* paste that runs is the one asked for last, scanned and agreed to, its end empties the
\* clipboard only when a cut has succeeded, and the panel is there as long as it runs
\* (FileOperationsState.qml: startPasteForFiles, executePaste, resetFileOperation).
THEOREM PastesMeant == Spec => PastesAreMeant
  <1>1. ProgramsInv => (part = "paste" => Pasting!PanelIsRight)
    BY DEF ProgramsInv, Pasting!PasteInv
  <1> QED  BY ProgramsHold, <1>1, PTL DEF PastesAreMeant
=============================================================================
