-------------------------------- MODULE AltTab --------------------------------
(***************************************************************************)
(* The window switcher (AltTabController.qml).                             *)
(*                                                                         *)
(* A first step starts hyprctl to list the windows; the overlay opens when *)
(* the list has come, and steps, commits and cancellations that come       *)
(* before are kept for then.  Windows are listed the last focused first.   *)
(* Icons, which are refreshed by a process of their own, are left out.     *)
(***************************************************************************)
EXTENDS Integers, Sequences

CONSTANTS
  Windows,      \* windows that may exist
  NoWindow,     \* model value
  MaxWindows,   \* windows at a time
  MaxSteps,     \* steps of one session
  MaxChanges    \* windows opened, closed or focused by others

VARIABLES
  order,         \* the windows there are, the last focused first
  open, clients, currentIndex,
  offset,        \* pendingOpenOffset
  loading, requested, commitAfterLoad,  \* loadingClients, openRequestActive
  listing,       \* clientRefreshProc and the list it has read
  session,       \* history: where the user has stepped or pointed to, in how many steps, and
                 \* whether more were taken after the commit, before the list came
  focused,       \* history: what the last commit focused, and what it should have
  changes

atVars == <<order, open, clients, currentIndex, offset, loading, requested, commitAfterLoad,
            listing, session, focused, changes>>
state  == <<open, clients, currentIndex, offset, loading, requested, commitAfterLoad>>

Orders == {s \in UNION {[1..n -> Windows] : n \in 0..MaxWindows} :
             \A i, j \in DOMAIN s : i # j => s[i] # s[j]}

Off     == [pc |-> "off"]
Started == [pc |-> "started"]

Nothing == [got |-> NoWindow, should |-> NoWindow, merged |-> FALSE, overshot |-> FALSE]
Fresh   == [wanted |-> 0, steps |-> 0, merged |-> FALSE]

AtInit ==
  /\ order \in Orders /\ open = FALSE /\ clients = <<>> /\ currentIndex = 0
  /\ offset = 0 /\ loading = FALSE /\ requested = FALSE /\ commitAfterLoad = FALSE
  /\ listing = Off /\ session = Fresh
  /\ focused = Nothing /\ changes = 0

\* JavaScript's %, which has the sign of the dividend.
Rem(a, n) == IF a >= 0 THEN a % n ELSE -((-a) % n)
IsIndex(i) == i >= 0 /\ i < Len(clients)

----------------------------------------------------------------------------
(* The user's session, for the properties *)

NewSession == session' = Fresh
Stepped(direction) ==
  session' = [wanted |-> IF commitAfterLoad THEN session.wanted ELSE session.wanted + direction,
              steps  |-> session.steps + 1,
              merged |-> session.merged \/ commitAfterLoad]

----------------------------------------------------------------------------
Cancelled ==
  /\ open' = FALSE /\ clients' = <<>> /\ offset' = 0 /\ loading' = FALSE
  /\ requested' = FALSE /\ commitAfterLoad' = FALSE

\* The window at k comes first, and those before it after it.
ToFront(s, k) == [i \in DOMAIN s |-> IF i = 1 THEN s[k] ELSE IF i <= k THEN s[i - 1] ELSE s[i]]

\* The window of that index is focused, if it still exists: in commit, and in
\* finishOpenWithClients when the commit came before the list.
Choose(list, i) ==
  LET got == IF i >= 0 /\ i < Len(list) THEN list[i + 1] ELSE NoWindow
  IN /\ \/ \E k \in DOMAIN order : order[k] = got /\ order' = ToFront(order, k)
        \/ (\A k \in DOMAIN order : order[k] # got) /\ order' = order
     /\ focused' = [got |-> got, merged |-> session.merged, overshot |-> i < 0,
                    should |-> IF list = <<>> THEN NoWindow ELSE list[(session.wanted % Len(list)) + 1]]
     /\ NewSession

\* mutant: steps taken while the list is read are dropped
OnlyFirst(direction) ==
  /\ ~open /\ session.steps < MaxSteps /\ requested' = TRUE /\ Stepped(direction)
  /\ IF listing # Off THEN UNCHANGED <<offset, loading, listing>>
     ELSE offset' = direction /\ loading' = TRUE /\ listing' = Started
  /\ UNCHANGED <<order, open, clients, currentIndex, commitAfterLoad, focused, changes>>

\* step while closed: openWithClients
OpenWithClients(direction) ==
  /\ ~open /\ session.steps < MaxSteps
  /\ IF listing # Off
     THEN /\ offset' = IF requested THEN offset + direction ELSE direction
          /\ UNCHANGED <<loading, listing>>
     ELSE offset' = direction /\ loading' = TRUE /\ listing' = Started
  /\ requested' = TRUE /\ Stepped(direction)
  /\ UNCHANGED <<order, open, clients, currentIndex, commitAfterLoad, focused, changes>>

\* step while open: cycle
Cycle(direction) ==
  /\ open /\ clients # <<>> /\ session.steps < MaxSteps
  /\ currentIndex' = Rem(currentIndex + direction + Len(clients), Len(clients))
  /\ Stepped(direction)
  /\ UNCHANGED <<order, open, clients, offset, loading, requested, commitAfterLoad, listing, focused, changes>>

\* The pointer enters a window's tile.
Preview(i) ==
  /\ open /\ IsIndex(i) /\ currentIndex' = i
  /\ session' = [session EXCEPT !.wanted = i]
  /\ UNCHANGED <<order, open, clients, offset, loading, requested, commitAfterLoad, listing, focused, changes>>

\* A commit before the list has come waits for it.
CommitLater ==
  /\ commitAfterLoad' = TRUE
  /\ UNCHANGED <<order, open, clients, offset, loading, requested, focused, session>>

CommitNow ==
  /\ Choose(clients, currentIndex)
  /\ IF currentIndex < 0 \/ currentIndex >= Len(clients) THEN Cancelled
     ELSE open' = FALSE /\ clients' = <<>> /\ UNCHANGED <<offset, loading, requested, commitAfterLoad>>

Commit ==
  /\ IF loading \/ requested THEN CommitLater ELSE CommitNow
  /\ UNCHANGED <<currentIndex, listing, changes>>

\* Escape, or a click beside the tiles
Cancel ==
  /\ open /\ Cancelled /\ NewSession
  /\ UNCHANGED <<order, currentIndex, listing, focused, changes>>

ReadWindows ==
  /\ listing = Started /\ listing' = [pc |-> "read", list |-> order]
  /\ UNCHANGED <<order, state, session, focused, changes>>

\* finishOpenWithClients: the first of the list is the active window.
FinishOpen(list) ==
  LET n == Len(list)
      i == IF n > 1 THEN Rem(offset + n, n) ELSE 0
  IN  \/ n = 0 /\ Cancelled /\ NewSession /\ UNCHANGED <<order, currentIndex, focused>>
      \/ /\ n > 0 /\ currentIndex' = i /\ offset' = 0 /\ requested' = FALSE /\ loading' = FALSE
         /\ \/ /\ ~commitAfterLoad /\ open' = TRUE /\ clients' = list
               /\ UNCHANGED <<order, commitAfterLoad, session, focused>>
            \/ /\ commitAfterLoad /\ commitAfterLoad' = FALSE
               /\ open' = FALSE /\ clients' = <<>> /\ Choose(list, i)

\* clientRefreshProc.onExited
Listed ==
  /\ listing.pc = "read" /\ listing' = Off /\ UNCHANGED changes
  /\ IF requested THEN FinishOpen(listing.list)
     ELSE loading' = FALSE /\ UNCHANGED <<order, open, clients, currentIndex, offset, requested,
                                          commitAfterLoad, session, focused>>

\* Windows come, go and are focused without the switcher.
WindowsChange ==
  /\ changes < MaxChanges /\ changes' = changes + 1 /\ order' \in Orders
  /\ UNCHANGED <<state, listing, session, focused>>

AtNext ==
  \/ \E direction \in {1, -1} : OpenWithClients(direction) \/ Cycle(direction)
  \/ \E i \in 0..Len(clients) : Preview(i)
  \/ Commit \/ Cancel \/ ReadWindows \/ Listed \/ WindowsChange

AtSpec == AtInit /\ [][AtNext]_atVars

----------------------------------------------------------------------------
\* A commit focuses the window the user stepped or pointed to since the switcher
\* was asked for, whether the steps and the commit came before the list, while it
\* was read, or after, and whatever windows came and went.  Two cases are not
\* claimed, since the code has them otherwise: steps taken after a commit that
\* still waits for its list are merged into it; and more steps back than there are
\* windows, before the list has come, leave a negative index and no window.
CommitsAreMeant == focused.got = focused.should \/ focused.merged \/ focused.overshot

\* Steps and commits that were put off wait for a list that is being read: the
\* switcher is never left waiting for nothing.
NothingWaitsInVain ==
  /\ requested <=> listing # Off
  /\ loading <=> requested
  /\ commitAfterLoad => requested
  /\ open => clients # <<>> /\ ~requested

----------------------------------------------------------------------------
(* The inductive invariant of both *)

AtTypeOK ==
  /\ order \in Orders /\ clients \in Orders /\ changes \in Nat
  /\ open \in BOOLEAN /\ loading \in BOOLEAN /\ requested \in BOOLEAN /\ commitAfterLoad \in BOOLEAN
  /\ currentIndex \in Int /\ offset \in Int
  /\ listing \in {Off, Started} \cup [pc : {"read"}, list : Orders]
  /\ session \in [wanted : Int, steps : Nat, merged : BOOLEAN]

\* The index is that of what is wanted, or as far before the first as JavaScript's %
\* has left it.
PointsAt(i, n) == -n < i /\ i < n /\ (i + n) % n = session.wanted % n

\* What is kept until the list comes is what the user asked for since.
SwitcherInv ==
  /\ AtTypeOK /\ CommitsAreMeant /\ NothingWaitsInVain
  /\ ~open => clients = <<>>
  /\ ~open /\ ~requested => session = Fresh
  /\ session.merged => commitAfterLoad
  /\ requested /\ ~session.merged => offset = session.wanted
  /\ open => PointsAt(currentIndex, Len(clients))

=============================================================================
