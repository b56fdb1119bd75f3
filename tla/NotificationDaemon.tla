------------------------ MODULE NotificationDaemon ------------------------
(***************************************************************************)
(* notification_daemon.py: the org.freedesktop.Notifications service.      *)
(*                                                                         *)
(* One GLib main loop serves D-Bus calls, expiry timers and an idle timer. *)
(* It shows banners (active), keeps a bounded history and a bounded record *)
(* of delivered events, finds notifications through three indexes, and     *)
(* mirrors everything in state.json, from which the next run starts: D-Bus *)
(* activates the daemon, which exits when it has been idle.                *)
(*                                                                         *)
(* A call changes the memory in one step and writes the file in a second,  *)
(* so that a crash or SIGTERM can fall in between.  The order of dict      *)
(* entries is kept (RecencyMap): it decides what is evicted.               *)
(***************************************************************************)
EXTENDS Integers, FiniteSets, RecencyMap

CONSTANTS
  Events,        \* event ids clients use (x-astrea-event-id)
  Keys,          \* collapse keys (x-astrea-collapse-key)
  NoEvent, NoKey,
  MaxHistory,    \* MAX_HISTORY
  MaxDelivered,  \* MAX_DELIVERED_EVENTS
  MaxId,         \* bound on notification ids
  Budget,        \* bound on calls, signals and crashes
  Replaceable    \* ids a client may pass as replaces_id: "none", "known", "held"

ASSUME NotificationAssumption ==
  /\ NoEvent \notin Events /\ NoKey \notin Keys
  /\ MaxHistory \in Nat \ {0} /\ MaxDelivered \in Nat \ {0}
  /\ MaxId \in Nat /\ Budget \in Nat
  /\ Replaceable \in {"none", "known", "held"}

VARIABLES
  d,         \* the daemon's memory, see Memory
  pc,        \* "down", "starting", "serving" (in the main loop) or "writing" (in a call)
  call,      \* the call being served
  quitting,  \* SIGTERM arrived during the call
  file,      \* state.json
  held,      \* history: ids returned to clients
  shown,     \* history: banners this daemon answered for and reported no end of
  ackd,      \* history: events answered for and not cleared by the user
  budget

vars == <<d, pc, call, quitting, file, held, shown, ackd, budget>>

Ids == 1..MaxId
Requests == [replaces : Ids \cup {0}, event : Events \cup {NoEvent},
             key : Keys \cup {NoKey}, banner : BOOLEAN, timed : BOOLEAN]
NoCall == [kind |-> "none", id |-> 0, event |-> NoEvent, replaces |-> 0, banner |-> FALSE]

NoIds(S) == [x \in S |-> 0]

\* NotificationDaemon.__init__
Blank == [nextId |-> 1, active |-> EmptyMap, history |-> EmptyMap, delivered |-> EmptyMap,
          eventIdx |-> NoIds(Events), keyIdx |-> NoIds(Keys), histIdx |-> NoIds(Events),
          timeouts |-> {}, sources |-> NoIds(Ids), idle |-> FALSE]

\* mutant: the file lacks the delivered events
ImageWithoutDelivered(m) ==
  [active |-> m.active, history |-> m.history, delivered |-> EmptyMap]

\* What _write_state() saves.
Image(m) == [active |-> m.active, history |-> m.history, delivered |-> m.delivered]

Init ==
  /\ d = Blank /\ file = Image(Blank)
  /\ pc = "down" /\ call = NoCall /\ quitting = FALSE
  /\ held = {} /\ shown = {} /\ ackd = {}
  /\ budget = Budget

----------------------------------------------------------------------------
(* Indexes *)

\* _drop_index_entry
DropIndex(idx, v, id) ==
  IF v \in DOMAIN idx /\ idx[v] = id THEN [idx EXCEPT ![v] = 0] ELSE idx

SetIndex(idx, v, id) == IF v \in DOMAIN idx THEN [idx EXCEPT ![v] = id] ELSE idx

\* _find_indexed_notification: the index when it is right, else the first match.
Lookup(idx, v, matches, items) ==
  IF v \notin DOMAIN idx \/ matches = {} THEN 0
  ELSE IF idx[v] \in matches THEN idx[v] ELSE Oldest(items, matches)

WithEvent(items, e) == {i \in DOMAIN items : items[i].event = e}
WithKey(items, k)   == {i \in DOMAIN items : items[i].key = k}

(* Memory transformers, one per method *)

\* _remember_event_delivery
RememberDelivery(m, e, id) ==
  IF e = NoEvent THEN m
  ELSE [m EXCEPT !.delivered = Newest(Touch(@, e, [id |-> id, rank |-> 0]), MaxDelivered)]

\* _drop_history_indexes
DropHistoryIndexes(m, id) ==
  IF id \in DOMAIN m.history
    THEN [m EXCEPT !.histIdx = DropIndex(@, m.history[id].event, id)] ELSE m

\* _remember_history: reinsert as the newest, then evict beyond the limit.
RememberHistory(m, id, e) ==
  LET dropped == DropHistoryIndexes(m, id)
      indexed == RememberDelivery(
                   [dropped EXCEPT !.history = Touch(@, id, [event |-> e, rank |-> 0]),
                                   !.histIdx = SetIndex(@, e, id)], e, id)
      evicted == {i \in DOMAIN indexed.history : indexed.history[i].rank >= MaxHistory}
      stale   == {x \in Events : indexed.histIdx[x] \in evicted
                                 /\ indexed.history[indexed.histIdx[x]].event = x}
  IN  [indexed EXCEPT !.history = Newest(@, MaxHistory),
                      !.histIdx = [x \in Events |-> IF x \in stale THEN 0 ELSE @[x]]]

\* _drop_active_indexes
DropActiveIndexes(m, id) ==
  IF id \in DOMAIN m.active
    THEN [m EXCEPT !.eventIdx = DropIndex(@, m.active[id].event, id),
                   !.keyIdx = DropIndex(@, m.active[id].key, id)]
    ELSE m

\* _store_active_notification
StoreActive(m, id, e, k) ==
  [DropActiveIndexes(m, id) EXCEPT
     !.active = Assign(@, id, [event |-> e, key |-> k, rank |-> 0]),
     !.eventIdx = SetIndex(@, e, id), !.keyIdx = SetIndex(@, k, id)]

\* _remove_active_notification
RemoveActive(m, id) == [DropActiveIndexes(m, id) EXCEPT !.active = Drop(@, id)]

ForgetTimeout(m, id) == [m EXCEPT !.timeouts = @ \ {id}]
\* _cancel_expiry: the GLib source goes with the entry.
CancelExpiry(m, id) ==
  IF id \in m.timeouts
    THEN [m EXCEPT !.timeouts = @ \ {id}, !.sources[id] = @ - 1] ELSE m

\* _schedule_expiry; a timeout of 0 means never.
ScheduleExpiry(m, id, timed) ==
  LET cancelled == CancelExpiry(m, id)
  IN  IF timed THEN [cancelled EXCEPT !.timeouts = @ \cup {id}, !.sources[id] = @ + 1]
               ELSE cancelled

\* _schedule_idle_exit
ScheduleIdle(m) == IF m.active = EmptyMap THEN [m EXCEPT !.idle = TRUE] ELSE m

----------------------------------------------------------------------------
(* Starting *)

\* mutant: ids go on from the number of notifications
NextAfterCount(S) == 1 + Cardinality(S)

NextAfter(S) == IF S = {} THEN 1 ELSE 1 + CHOOSE i \in S : \A j \in S : j <= i

\* _load_state: the delivered events, then every history item in order, each of
\* which counts as a delivery of its event.  Active banners are not restored;
\* they stand in for a history that is empty.
Load(f) ==
  LET items == IF f.history # EmptyMap THEN f.history
               ELSE [i \in DOMAIN f.active |->
                       [event |-> f.active[i].event, rank |-> f.active[i].rank]]
      saved == Newest(items, MaxHistory)
      last(e) == Youngest(saved, WithEvent(saved, e))
      inHistory == {e \in Events : WithEvent(saved, e) # {}}
      known == inHistory \cup DOMAIN f.delivered
      age(e) == IF e \in inHistory THEN saved[last(e)].rank
                                   ELSE MaxHistory + f.delivered[e].rank
  IN  [Blank EXCEPT
         !.history = saved,
         !.histIdx = [e \in Events |-> IF e \in inHistory THEN last(e) ELSE 0],
         !.delivered = Newest([e \in known |->
             [id   |-> IF e \in inHistory THEN last(e) ELSE f.delivered[e].id,
              rank |-> Cardinality({x \in known : age(x) < age(e)})]], MaxDelivered),
         !.nextId = NextAfter(DOMAIN saved)]

\* The process ends; its memory is gone.
End == pc' = "down" /\ d' = Blank /\ quitting' = FALSE

\* D-Bus activation; __init__ loads, writes the state back and arms the idle timer.
Boot ==
  /\ pc = "down"
  /\ d' = ScheduleIdle(Load(file))
  /\ pc' = "starting" /\ shown' = {}
  /\ UNCHANGED <<call, quitting, file, held, ackd>>

----------------------------------------------------------------------------
(* Calls *)

\* _resolve_notification_request: the id, whether the request is suppressed, and
\* the memory with the indexes the lookups repaired.
Resolve(r) ==
  LET byEvent == Lookup(d.eventIdx, r.event, WithEvent(d.active, r.event), d.active)
      m1 == [d EXCEPT !.eventIdx = SetIndex(@, r.event, byEvent)]
      byHistory == Lookup(d.histIdx, r.event, WithEvent(d.history, r.event), d.history)
      m2 == [m1 EXCEPT !.histIdx = SetIndex(@, r.event, byHistory)]
      byKey == Lookup(d.keyIdx, r.key, WithKey(d.active, r.key), d.active)
      m3 == [m2 EXCEPT !.keyIdx = SetIndex(@, r.key, byKey)]
      answer(id, only, m) == [id |-> id, only |-> only, m |-> m]
  IN  CASE r.replaces # 0 -> answer(r.replaces, FALSE, d)
        [] r.replaces = 0 /\ byEvent # 0 -> answer(byEvent, FALSE, m1)
        [] r.replaces = 0 /\ byEvent = 0 /\ r.event \in DOMAIN d.delivered ->
             answer(d.delivered[r.event].id, TRUE, m1)
        [] OTHER ->
             IF byHistory # 0 THEN answer(byHistory, TRUE, m2)
             ELSE IF byKey # 0 THEN answer(byKey, FALSE, m3)
             ELSE answer(d.nextId, FALSE, [m3 EXCEPT !.nextId = @ + 1])

\* Ids a client passes to update its notification.
MayReplace(id) ==
  \/ id = 0
  \/ Replaceable = "known" /\ id \in DOMAIN d.history \cup DOMAIN d.active
  \/ Replaceable = "held" /\ id \in held

Notify(r) ==
  /\ pc = "serving"
  /\ MayReplace(r.replaces)
  /\ LET to == Resolve(r)
         remembered == RememberHistory(to.m, to.id, r.event)
     IN  /\ to.id <= MaxId
         /\ d' = IF to.only THEN ScheduleIdle(to.m)
                 ELSE IF r.banner
                   THEN ScheduleExpiry(
                          [StoreActive(remembered, to.id, r.event, r.key) EXCEPT !.idle = FALSE],
                          to.id, r.timed)
                 ELSE ScheduleIdle(RemoveActive(CancelExpiry(remembered, to.id), to.id))
         /\ call' = [kind |-> IF to.only THEN "suppressed" ELSE "notify", id |-> to.id,
                     event |-> r.event, replaces |-> r.replaces, banner |-> r.banner]
  /\ pc' = "writing"
  /\ UNCHANGED <<quitting, file, held, shown, ackd>>

\* The NotificationClosed signal.
Tell(S) == shown' = shown \ S

\* mutant: a close is not written
CloseUnsaved(id, m) ==
  /\ d' = ScheduleIdle(RemoveActive(m, id))
  /\ UNCHANGED <<call, pc>>

\* A call that removes a banner; the signal follows the write.
BeginClose(id, m) ==
  /\ d' = ScheduleIdle(RemoveActive(m, id))
  /\ call' = [NoCall EXCEPT !.kind = "close", !.id = id]
  /\ pc' = "writing"

CloseNotification(id) ==
  /\ pc = "serving"
  /\ IF id \in DOMAIN d.active
       THEN BeginClose(id, CancelExpiry(d, id))
       ELSE d' = CancelExpiry(d, id) /\ UNCHANGED <<call, pc>>
  /\ UNCHANGED <<quitting, file, held, shown, ackd>>

\* The expiry source of a banner fires and is gone.
Expire(id) ==
  /\ pc = "serving"
  /\ d.sources[id] > 0
  /\ LET fired == ForgetTimeout([d EXCEPT !.sources[id] = @ - 1], id)
     IN  IF id \in DOMAIN d.active
           THEN BeginClose(id, fired)
           ELSE d' = fired /\ UNCHANGED <<call, pc>>
  /\ UNCHANGED <<quitting, file, held, shown, ackd>>

ClearHistoryItem(id) ==
  /\ pc = "serving"
  /\ LET closed == RemoveActive(CancelExpiry(d, id), id)
         found  == id \in DOMAIN d.history
         event  == IF found THEN d.history[id].event ELSE NoEvent
         forget == event \in DOMAIN d.delivered /\ d.delivered[event].id = id
     IN  /\ d' = ScheduleIdle([DropHistoryIndexes(closed, id) EXCEPT
                   !.history = Drop(@, id),
                   !.delivered = IF forget THEN Drop(@, event) ELSE @])
         /\ ackd' = ackd \ {event}
  /\ Tell({id})
  /\ call' = NoCall /\ pc' = "writing"
  /\ UNCHANGED <<quitting, file, held>>

ClearHistory ==
  /\ pc = "serving"
  /\ d' = ScheduleIdle([Blank EXCEPT !.nextId = d.nextId, !.idle = d.idle,
                          !.sources = [i \in Ids |-> IF i \in d.timeouts THEN d.sources[i] - 1
                                                                         ELSE d.sources[i]]])
  /\ Tell(DOMAIN d.active)
  /\ ackd' = {}
  /\ call' = NoCall /\ pc' = "writing"
  /\ UNCHANGED <<quitting, file, held>>

\* _write_state() and what the call does after it: answer the client or signal.
WriteState ==
  /\ pc \in {"starting", "writing"}
  /\ file' = Image(d)
  /\ \/ /\ call.kind = "notify"
        /\ held' = held \cup {call.id}
        /\ shown' = IF call.banner THEN shown \cup {call.id} ELSE shown \ {call.id}
        /\ ackd' = ackd \cup ({call.event} \cap Events)
     \/ call.kind = "suppressed" /\ held' = held \cup {call.id} /\ UNCHANGED <<shown, ackd>>
     \/ call.kind = "close" /\ Tell({call.id}) /\ UNCHANGED <<held, ackd>>
     \/ call.kind = "none" /\ UNCHANGED <<held, shown, ackd>>
  /\ call' = NoCall
  /\ IF quitting THEN End ELSE pc' = "serving" /\ UNCHANGED <<d, quitting>>

\* _idle_exit: write, then leave the main loop.
IdleExit ==
  /\ pc = "serving"
  /\ d.idle
  /\ IF d.active # EmptyMap
       THEN d' = [d EXCEPT !.idle = FALSE] /\ UNCHANGED <<pc, file, quitting>>
       ELSE End /\ file' = Image(d)
  /\ UNCHANGED <<call, held, shown, ackd>>

\* The SIGTERM handler writes and stops the loop; during a call, the call ends first.
Stop ==
  /\ pc \in {"serving", "writing"} /\ ~quitting
  /\ file' = Image(d)
  /\ IF pc = "serving" THEN End ELSE quitting' = TRUE /\ UNCHANGED <<pc, d>>
  /\ UNCHANGED <<call, held, shown, ackd>>

Crash ==
  /\ pc # "down"
  /\ End
  /\ call' = NoCall
  /\ UNCHANGED <<file, held, shown, ackd>>

Spend == budget > 0 /\ budget' = budget - 1

MainLoop ==
  \/ WriteState /\ UNCHANGED budget
  \/ IdleExit /\ UNCHANGED budget
  \/ \E id \in Ids : Expire(id) /\ UNCHANGED budget

Next ==
  \/ Boot /\ UNCHANGED budget
  \/ MainLoop
  \/ \E r \in Requests : Spend /\ Notify(r)
  \/ \E id \in Ids : Spend /\ CloseNotification(id)
  \/ \E id \in Ids : Spend /\ ClearHistoryItem(id)
  \/ Spend /\ ClearHistory
  \/ Spend /\ Stop
  \/ Spend /\ Crash

Spec == Init /\ [][Next]_vars

\* The main loop dispatches its timers.
FairSpec == Spec /\ WF_vars(MainLoop)

----------------------------------------------------------------------------
(* Properties *)

IdsOrNone == Ids \cup {0}

TypeOK ==
  /\ pc \in {"down", "starting", "serving", "writing"} /\ quitting \in BOOLEAN
  /\ d.nextId \in 1..(MaxId + 1) /\ d.idle \in BOOLEAN
  /\ DOMAIN d.active \subseteq Ids /\ DOMAIN d.history \subseteq Ids
  /\ DOMAIN d.delivered \subseteq Events
  /\ d.eventIdx \in [Events -> IdsOrNone] /\ d.histIdx \in [Events -> IdsOrNone]
  /\ d.keyIdx \in [Keys -> IdsOrNone]
  /\ d.timeouts \subseteq Ids /\ d.sources \in [Ids -> Nat]
  /\ Cardinality(DOMAIN d.history) <= MaxHistory
  /\ Cardinality(DOMAIN d.delivered) <= MaxDelivered
  /\ held \subseteq Ids /\ shown \subseteq Ids /\ ackd \subseteq Events
  /\ budget \in Nat

\* A fresh id names no other notification: every id in use is below next_id, in
\* every run, also after history eviction, clearing and restarts.
FreshIdIsFresh ==
  pc # "down" => \A id \in DOMAIN d.history \cup DOMAIN d.active : id < d.nextId

\* An index never names a notification that is gone or carries another event or key.
IndexesAreSound ==
  /\ \A e \in Events : d.eventIdx[e] # 0 => d.eventIdx[e] \in WithEvent(d.active, e)
  /\ \A e \in Events : d.histIdx[e] # 0 => d.histIdx[e] \in WithEvent(d.history, e)
  /\ \A k \in Keys : d.keyIdx[k] # 0 => d.keyIdx[k] \in WithKey(d.active, k)

\* Every timer the main loop holds is the one of an active banner, so that no
\* stale timer closes a later banner that has taken the id over.
TimersBelongToBanners ==
  /\ d.timeouts \subseteq DOMAIN d.active
  /\ \A id \in Ids : d.sources[id] = IF id \in d.timeouts THEN 1 ELSE 0

\* Between calls the idle timer runs exactly when no banner is up: the daemon
\* neither quits under a banner nor stays for ever without one.
IdleTimerIffNoBanner == pc = "serving" => (d.idle <=> d.active = EmptyMap)

\* The daemon's memory is sound in every state: ids, indexes and timers.
MemoryIsSound ==
  TypeOK /\ FreshIdIsFresh /\ IndexesAreSound /\ TimersBelongToBanners /\ IdleTimerIffNoBanner

\* Between calls state.json holds all of the memory, so that a crash loses at most
\* the call being served, which was not answered.
FileMirrorsMemory ==
  pc = "serving" => /\ file.history = d.history
                    /\ file.active = d.active
                    /\ file.delivered = d.delivered

\* Between calls every banner a client was answered for is still up unless its end
\* was reported by NotificationClosed or asked for by a call that replaced it.
BannersEndWithSignal == pc = "serving" => shown \subseteq DOMAIN d.active

\* What the file and the clients were told is what the memory holds.
OthersKnow == FileMirrorsMemory /\ BannersEndWithSignal

\* An event that was answered for raises no second banner unless the client replaces
\* a notification by id or the user cleared it: also after collapsing, expiry,
\* eviction from the history, crashes and restarts.
ShownOnce ==
  \A e \in ackd : WithEvent(d.active, e) = {} /\ WithEvent(d'.active, e) # {}
                     => call'.replaces # 0

\* A repeated event whose banner is up updates that banner instead of being
\* suppressed, whatever became of the index.
UpdatedInPlace ==
  pc = "serving" /\ call'.kind \in {"notify", "suppressed"} /\ call'.replaces = 0
    /\ call'.event \in Events /\ WithEvent(d.active, call'.event) # {}
  => call'.kind = "notify" /\ call'.id \in WithEvent(d.active, call'.event)

\* An event has one banner: both of these hold of every step.
EventsHaveOneBanner == [][ShownOnce /\ UpdatedInPlace]_vars
=============================================================================
