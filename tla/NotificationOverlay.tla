------------------------ MODULE NotificationOverlay ------------------------
(***************************************************************************)
(* Notifications.qml on top of the notification daemon.                    *)
(*                                                                         *)
(* The overlay learns of banners by watching state.json and keeps a card   *)
(* per banner.  A card leaves by itself after five seconds, or is swiped   *)
(* away; when it has slid out it asks for CloseNotification with a gdbus   *)
(* process.  There is one slot for that process (closeProc): a request     *)
(* kills the one before it, whose call may not have been made yet.  The    *)
(* card itself goes only when the daemon takes the banner out of the file. *)
(***************************************************************************)
EXTENDS NotificationDaemon

CONSTANTS
  MaxCards,   \* maxRenderedNotifications
  Overlap,    \* may a card slide out while a close request is under way?
  Crashes,    \* may the daemon be killed?
  Updates     \* may clients update a banner whose card was dismissed?  Such an update
              \* stays invisible: the row keeps the card that has slid out

VARIABLES
  cards,      \* notificationModel: the state of the card of each row
  changed,    \* the file changed since it was last loaded
  closeProc   \* the id the gdbus process closes, 0 when none runs

overlayVars == <<cards, changed, closeProc>>

NoCards == [i \in {} |-> "up"]
Dismissed == {i \in DOMAIN cards : cards[i] # "up"}

OverlayInit ==
  /\ Init
  /\ cards = NoCards /\ changed = FALSE /\ closeProc = 0

\* mutant: cards of closed banners stay
SyncNeverRemoves(f) ==
  [i \in DOMAIN cards \cup DOMAIN Newest(f.active, MaxCards) |->
     IF i \in DOMAIN cards THEN cards[i] ELSE "up"]

\* syncNotifications: rows are updated in place, so that a card keeps its state.
Sync(f) ==
  [i \in DOMAIN Newest(f.active, MaxCards) |-> IF i \in DOMAIN cards THEN cards[i] ELSE "up"]

\* stateReloadDebounce, then loadState
Reload ==
  /\ changed
  /\ cards' = Sync(file)
  /\ changed' = FALSE
  /\ UNCHANGED <<closeProc, vars>>

\* autoDismissTimer, or the end of a swipe
Dismiss(i) ==
  /\ cards[i] = "up"
  /\ cards' = [cards EXCEPT ![i] = "leaving"]
  /\ UNCHANGED <<changed, closeProc, vars>>

\* closeNotification: a gdbus that still runs is killed and replaced.
StartClose(i) == closeProc' = i

\* onStopped of dismissAnimation
CloseRequested(i) ==
  /\ cards[i] = "leaving"
  /\ Overlap \/ closeProc = 0
  /\ cards' = [cards EXCEPT ![i] = "gone"]
  /\ StartClose(i)
  /\ UNCHANGED <<changed, vars>>

\* mutant: a change replaces one not yet read
WatchLast == changed' = (file' # file)

\* What the daemon writes the overlay is told of.
Watch == changed' = (changed \/ file' # file)

\* The daemon serves the call; D-Bus starts a daemon that is down for it.
CloseServed ==
  /\ closeProc # 0
  /\ CloseNotification(closeProc)
  /\ closeProc' = 0
  /\ Watch
  /\ UNCHANGED <<cards, budget>>

\* Any call to a daemon that is down activates it.
Activated ==
  /\ Boot
  /\ Watch
  /\ UNCHANGED <<cards, closeProc, budget>>

DaemonRuns ==
  /\ MainLoop
  /\ Watch
  /\ UNCHANGED <<cards, closeProc>>

ClientNotifies(r) ==
  /\ Spend
  /\ Notify(r)
  /\ Updates \/ call'.id \notin Dismissed
  /\ Watch
  /\ UNCHANGED <<cards, closeProc>>

DaemonEnds ==
  /\ Spend
  /\ Stop \/ (Crashes /\ Crash)
  /\ Watch
  /\ UNCHANGED <<cards, closeProc>>

Overlay == Reload \/ \E i \in DOMAIN cards : Dismiss(i) \/ CloseRequested(i)

OverlayNext ==
  \/ Overlay
  \/ CloseServed
  \/ Activated
  \/ DaemonRuns
  \/ \E r \in Requests : ClientNotifies(r)
  \/ DaemonEnds

OverlaySpec == OverlayInit /\ [][OverlayNext]_<<vars, overlayVars>>

\* Timers and animations of the shell, the gdbus process, D-Bus activation and the
\* main loop of the daemon all proceed.
FairOverlaySpec ==
  /\ OverlaySpec
  /\ WF_<<vars, overlayVars>>(Overlay)
  /\ WF_<<vars, overlayVars>>(CloseServed)
  /\ WF_<<vars, overlayVars>>(closeProc # 0 /\ Activated)
  /\ WF_<<vars, overlayVars>>(DaemonRuns)

----------------------------------------------------------------------------

OverlayTypeOK ==
  /\ cards \in [DOMAIN cards -> {"up", "leaving", "gone"}]
  /\ DOMAIN cards \subseteq Ids /\ Cardinality(DOMAIN cards) <= MaxCards
  /\ changed \in BOOLEAN /\ closeProc \in Ids \cup {0}

\* When the daemon serves and the overlay has loaded its last write, there is a card
\* for every banner, up to the limit, and for nothing else.
CardsMatchBanners ==
  pc = "serving" /\ ~changed => DOMAIN cards = DOMAIN Newest(d.active, MaxCards)

\* A close request made for a card is still to be served or the banner is gone: so
\* no card waits for ever in the state in which it can neither be seen nor closed.
NoRequestIsLost ==
  \A i \in DOMAIN cards :
    cards[i] = "gone" => \/ closeProc = i
                         \/ changed
                         \/ pc # "serving"
                         \/ i \notin DOMAIN d.active

\* The cards are those of the banners, and none is left without its request.
CardsAreSound == OverlayTypeOK /\ CardsMatchBanners /\ NoRequestIsLost

\* Dismissals call DBus close: every dismissed card leaves the overlay, and with it
\* the banner leaves the daemon.
DismissalsClose == \A i \in Ids : i \in Dismissed ~> i \notin Dismissed
=============================================================================
