------------------------------ MODULE MailCache ------------------------------
(****************************************************************************)
(* The mail application: the Gmail account, the pages the bridge            *)
(* (Bench/Email/backend/astrea_email) keeps of it on disk, and the message  *)
(* list of the window (Main.qml, state/MailStore.qml), which runs one       *)
(* bridge process at a time (services/EmailCliClient.qml).                  *)
(*                                                                          *)
(* A message on the server is its set of labels.  A copy of it, in a page   *)
(* or in the window, is the folder and the read flag normalize_message      *)
(* derives; its texts never change.  Stars travel exactly as the read flag  *)
(* does and are left out, as are sending, paging and searching.  A listing  *)
(* is the folder and filter that name a page.                               *)
(****************************************************************************)
EXTENDS Naturals, FiniteSets

CONSTANTS
  Ids,          \* messages of the account
  Listings,     \* the <<folder, filter>> pairs the user looks at
  NoId,         \* no message is active
  Orders        \* the orders the user gives

VARIABLES
  server,     \* labels of every message: INBOX, TRASH, UNREAD
  pages,      \* listing -> the copies its page holds; unset when never saved
  store,      \* the copies in the window's model
  view,       \* the listing the user looks at
  selected,   \* the active message
  cmd,        \* the running bridge process
  torn,       \* messages an order failed on half way (history)
  unsent      \* messages changed in the window only (history)

mvars == <<server, pages, store, view, selected, cmd, torn, unsent>>

Idle == [op |-> "none"]
Busy == cmd.op # "none"

FolderFromLabels(ls) == CASE "TRASH" \in ls -> "Trash"
                          [] "INBOX" \in ls -> "Inbox"
                          [] OTHER -> "Archive"

Normalize(ls) == [folder |-> FolderFromLabels(ls), read |-> "UNREAD" \notin ls]

\* What the query of a listing finds on the server.
Found(listing) ==
  {i \in Ids : /\ FolderFromLabels(server[i]) = listing[1]
               /\ listing[2] = "unread" => "UNREAD" \in server[i]}

Matches(copy, v) == copy.folder = v[1] /\ (v[2] = "unread" => ~copy.read)

----------------------------------------------------------------------------
(* The window.                                                              *)

Visible(st, v) == {i \in DOMAIN st : Matches(st[i], v)}

\* A selection that is no longer listed moves to the first message listed.
Rebuild(st, v) ==
  /\ store' = st
  /\ view' = v
  /\ IF selected \in Visible(st, v) THEN selected' = selected
     ELSE IF Visible(st, v) = {} THEN selected' = NoId
     ELSE selected' \in Visible(st, v)

\* While a process runs a new command is refused and forgotten.
Start(new) == cmd' = IF Busy THEN cmd ELSE new

\* Replace the copy of one message in a set of copies that holds it.
Put(copies, i, copy) == IF i \in DOMAIN copies THEN [copies EXCEPT ![i] = copy]
                        ELSE copies

\* An order of the user: the window changes at once, the server is asked.
Order(i, order, copy) ==
  /\ Start([op |-> "modify", id |-> i, order |-> order, posted |-> 0])
  /\ unsent' = IF Busy THEN unsent \cup {i} ELSE unsent
  /\ Rebuild(Put(store, i, copy), IF order = "inbox" THEN <<"Inbox", view[2]>> ELSE view)
  /\ UNCHANGED <<server, pages, torn>>

\* A row is clicked: it becomes active and an unread message is marked read.
SelectMessage(i) ==
  /\ i \in Visible(store, view)
  /\ selected' = i
  /\ store' = Put(store, i, [store[i] EXCEPT !.read = TRUE])
  /\ IF store[i].read THEN UNCHANGED <<cmd, unsent>>
     ELSE /\ Start([op |-> "modify", id |-> i, order |-> "read", posted |-> 0])
          /\ unsent' = IF Busy THEN unsent \cup {i} ELSE unsent
  /\ UNCHANGED <<server, pages, view, torn>>

SetActiveRead(read) ==
  /\ selected # NoId /\ (IF read THEN "read" ELSE "unread") \in Orders
  /\ Order(selected, IF read THEN "read" ELSE "unread", [store[selected] EXCEPT !.read = read])

MoveActive(order, folder) ==
  /\ selected # NoId
  /\ <<order, folder>> \in {<<"archive", "Archive">>, <<"trash", "Trash">>, <<"inbox", "Inbox">>}
  /\ order = "inbox" => <<"Inbox", view[2]>> \in Listings
  /\ Order(selected, order, [store[selected] EXCEPT !.folder = folder])

\* Choosing a folder or filter shows what the window has, then asks for the page.
SelectListing(v) ==
  /\ v # view
  /\ Start([op |-> "page", listing |-> v])
  /\ Rebuild(store, v)
  /\ UNCHANGED <<server, pages, torn, unsent>>

ForceRefresh ==
  /\ ~Busy
  /\ cmd' = [op |-> "refresh", listing |-> view, asked |-> FALSE, todo |-> {}, got |-> << >>]
  /\ UNCHANGED <<server, pages, store, view, selected, torn, unsent>>

LoadImages ==
  /\ selected # NoId
  /\ Start([op |-> "get", id |-> selected])
  /\ UNCHANGED <<server, pages, store, view, selected, torn, unsent>>

----------------------------------------------------------------------------
(* The bridge process.                                                      *)

Replace(copies) ==
  /\ Rebuild(copies, view)
  /\ unsent' = {}
  /\ cmd' = Idle

\* list --cache-only: the saved page, or nothing.
ListCached ==
  /\ cmd.op = "page"
  /\ Replace(IF cmd.listing \in DOMAIN pages THEN pages[cmd.listing] ELSE << >>)
  /\ UNCHANGED <<server, pages, torn>>

\* list --refresh: the ids from the server; copies the page has are reused.
ListIds ==
  /\ cmd.op = "refresh" /\ ~cmd.asked
  /\ LET saved == IF cmd.listing \in DOMAIN pages THEN pages[cmd.listing] ELSE << >>
         known == Found(cmd.listing) \cap DOMAIN saved
     IN cmd' = [cmd EXCEPT !.asked = TRUE, !.todo = Found(cmd.listing) \ known,
                           !.got = [i \in known |-> saved[i]]]
  /\ UNCHANGED <<server, pages, store, view, selected, torn, unsent>>

FetchNext ==
  /\ cmd.op = "refresh" /\ cmd.todo # {}
  /\ \E i \in cmd.todo :
       cmd' = [cmd EXCEPT !.todo = @ \ {i},
                          !.got = [j \in DOMAIN @ \cup {i} |->
                                     IF j = i THEN Normalize(server[i]) ELSE @[j]]]
  /\ UNCHANGED <<server, pages, store, view, selected, torn, unsent>>

WritePage ==
  /\ cmd.op = "refresh" /\ cmd.asked /\ cmd.todo = {}
  /\ pages' = [l \in DOMAIN pages \cup {cmd.listing} |->
                 IF l = cmd.listing THEN cmd.got ELSE pages[l]]
  /\ Replace(cmd.got)
  /\ UNCHANGED <<server, torn>>

\* modify_plan: what the endpoints do to the labels; "inbox" takes two requests.
Posts(order) == IF order = "inbox" THEN 2 ELSE 1
Plan(order, n, ls) ==
  CASE order = "read" -> ls \ {"UNREAD"}
    [] order = "unread" -> ls \cup {"UNREAD"}
    [] order = "archive" -> ls \ {"INBOX"}
    [] order = "trash" -> (ls \ {"INBOX"}) \cup {"TRASH"}
    [] order = "inbox" /\ n = 1 -> ls \ {"TRASH"}
    [] order = "inbox" /\ n = 2 -> (ls \ {"TRASH"}) \cup {"INBOX"}

Post ==
  /\ cmd.op = "modify" /\ cmd.posted < Posts(cmd.order)
  /\ server' = [server EXCEPT ![cmd.id] = Plan(cmd.order, cmd.posted + 1, @)]
  /\ cmd' = [cmd EXCEPT !.posted = @ + 1]
  /\ UNCHANGED <<pages, store, view, selected, torn, unsent>>

\* mutant: only the first page is updated
UpdateFirstPage(i, copy) ==
  \E l \in DOMAIN pages :
    pages' = [pages EXCEPT ![l] = Put(@, i, copy)]

\* update_cached_message: the new copy goes into every page with the message.
UpdateCachedMessage(i, copy) ==
  pages' = [l \in DOMAIN pages |-> Put(pages[l], i, copy)]

ApplyRemoteMessage(i, copy) == Rebuild(Put(store, i, copy), view)

\* The last request of "modify" and "get" reads the message back.
ReadBack ==
  /\ \/ cmd.op = "get"
     \/ cmd.op = "modify" /\ cmd.posted = Posts(cmd.order)
  /\ LET copy == Normalize(server[cmd.id])
     IN UpdateCachedMessage(cmd.id, copy) /\ ApplyRemoteMessage(cmd.id, copy)
  /\ torn' = torn \ {cmd.id}
  /\ unsent' = unsent \ {cmd.id}
  /\ cmd' = Idle
  /\ UNCHANGED server

\* Any request may fail: the process ends and only a message is shown.
RequestFails ==
  /\ cmd.op \in {"modify", "get", "refresh"}
  /\ cmd' = Idle
  /\ torn' = IF cmd.op = "modify" /\ cmd.posted > 0 THEN torn \cup {cmd.id} ELSE torn
  /\ unsent' = IF cmd.op = "modify" THEN unsent \cup {cmd.id} ELSE unsent
  /\ UNCHANGED <<server, pages, store, view, selected>>

----------------------------------------------------------------------------
MailInit ==
  /\ server \in [Ids -> {{"INBOX", "UNREAD"}, {"INBOX"}}]
  /\ pages = << >>
  /\ store = << >>
  /\ view = CHOOSE l \in Listings : TRUE
  /\ selected = NoId
  /\ cmd = Idle
  /\ torn = {} /\ unsent = {}

MailNext ==
  \/ \E i \in Ids : SelectMessage(i)
  \/ \E read \in BOOLEAN : SetActiveRead(read)
  \/ \E order \in Orders, folder \in {"Inbox", "Archive", "Trash"} : MoveActive(order, folder)
  \/ \E v \in Listings : SelectListing(v)
  \/ ForceRefresh \/ LoadImages
  \/ ListCached \/ ListIds \/ FetchNext \/ WritePage
  \/ Post \/ ReadBack \/ RequestFails

MailSpec == MailInit /\ [][MailNext]_mvars

----------------------------------------------------------------------------
\* With the account changed from this window only, a page holds a message as
\* the server has it, whatever the order of listings, orders and failures,
\* except one whose order failed between its requests
\* (modify_message, update_cached_message).
PagesAreTrue ==
  ~Busy => \A l \in DOMAIN pages, i \in Ids \ torn :
             i \in DOMAIN pages[l] => pages[l][i] = Normalize(server[i])

\* The same for the window: what it lists is what the server has, except the
\* changes it has been told it could not send.
WindowIsTrue ==
  ~Busy => \A i \in Visible(store, view) \ (torn \cup unsent) :
             store[i] = Normalize(server[i])

Copies == [folder : {"Inbox", "Archive", "Trash"}, read : BOOLEAN]
IsPage(copies) == copies \in [DOMAIN copies -> Copies] /\ DOMAIN copies \subseteq Ids
MailCommands ==
  [op : {"none"}] \cup [op : {"page"}, listing : Listings] \cup [op : {"get"}, id : Ids]
    \cup [op : {"modify"}, id : Ids, order : Orders, posted : 0..2]
MailTypeOK ==
  /\ server \in [Ids -> SUBSET {"INBOX", "TRASH", "UNREAD"}]
  /\ DOMAIN pages \subseteq Listings /\ \A l \in DOMAIN pages : IsPage(pages[l])
  /\ IsPage(store) /\ view \in Listings /\ selected \in Ids \cup {NoId}
  /\ torn \subseteq Ids /\ unsent \subseteq Ids
  /\ \/ cmd \in MailCommands
     \/ /\ cmd = [op |-> "refresh", listing |-> cmd.listing, asked |-> cmd.asked,
                  todo |-> cmd.todo, got |-> cmd.got]
        /\ cmd.listing \in Listings /\ cmd.asked \in BOOLEAN
        /\ cmd.todo \subseteq Ids /\ IsPage(cmd.got)

\* Copies are true of the server but for the messages of a set.
TrueBut(copies, except) ==
  \A i \in DOMAIN copies \ except : copies[i] = Normalize(server[i])

\* The message an order is about, and whether the server has part of it.
InHand == IF cmd.op = "modify" THEN {cmd.id} ELSE {}
HalfDone == IF cmd.op = "modify" /\ cmd.posted > 0 THEN {cmd.id} ELSE {}

\* Pages, the window and what a refresh has got are true but for the message in
\* hand, those torn and those the window could not send.
CopiesAreTrue ==
  /\ \A l \in DOMAIN pages : TrueBut(pages[l], torn \cup HalfDone)
  /\ TrueBut(store, torn \cup unsent \cup InHand)
  /\ cmd.op = "refresh" => TrueBut(cmd.got, torn)

MailInv == MailTypeOK /\ CopiesAreTrue
=============================================================================
