------------------------------- MODULE Network -------------------------------
(***************************************************************************)
(* network/manager.py: the Settings page's commands on Wi-Fi, DNS servers  *)
(* and Cloudflare WARP.  A command calls nmcli, systemctl or warp-cli,     *)
(* which may fail, and prints an answer that the page shows.  The tools    *)
(* and what they change are modelled from how they are called.             *)
(***************************************************************************)
EXTENDS Integers, Sequences, SequencesExt, FiniteSets

CONSTANTS
    Networks,  \* names of networks
    Signals,   \* strengths: a set of numbers
    Servers,   \* DNS servers a user may choose
    None,      \* a model value: no network, no server
    MaxPoints, \* bound: access points in reach
    MaxField   \* bound: characters of a field

VARIABLES
    air,       \* access points in reach, in nmcli's order: [ssid, signal]
    radio,     \* is the radio on?
    joined,    \* the access point the adapter is connected to (an index of air), or 0
    dns,       \* [profile, ignoreAuto, live]: the connection's servers and those in use
    warp,      \* [service, tunnel]
    answer     \* the last command's arguments and printed payload

netVars == <<air, radio, joined, dns, warp, answer>>

AccessPoints == [ssid : Networks, signal : Signals]
Airs == UNION {[1..n -> AccessPoints] : n \in 0..MaxPoints}
NoAnswer ==
    [asked |-> "nothing", arg |-> None, success |-> TRUE, networks |-> <<>>, connected |-> None]

(***************************************************************************)
(* nmcli's terse output: fields joined by ":", with ":" and "\" escaped.   *)
(* A line is a sequence of characters, of which the others are alike.      *)
(***************************************************************************)
Chars == {"x", ":", "\\"}

\* _split_nmcli_fields: one turn of its loop over the characters
SplitStep(state, char) ==
    IF state.escaped THEN [state EXCEPT !.buf = Append(@, char), !.escaped = FALSE]
    ELSE IF char = "\\" THEN [state EXCEPT !.escaped = TRUE]
    ELSE IF char = ":" THEN [state EXCEPT !.fields = Append(@, state.buf), !.buf = <<>>]
    ELSE [state EXCEPT !.buf = Append(@, char)]

SplitFields(line) ==
    LET end == FoldLeft(SplitStep, [fields |-> <<>>, buf |-> <<>>, escaped |-> FALSE], line)
    IN Append(end.fields, IF end.escaped THEN Append(end.buf, "\\") ELSE end.buf)

Escaped(char) == IF char \in {":", "\\"} THEN <<"\\", char>> ELSE <<char>>
EscapeField(field) == FlattenSeq([i \in DOMAIN field |-> Escaped(field[i])])
TerseLine(fields) ==
    FlattenSeq([i \in DOMAIN fields |->
                  IF i = 1 THEN EscapeField(fields[i]) ELSE <<":">> \o EscapeField(fields[i])])

(***************************************************************************)
(* _parse_wifi_networks: one row per network name, the connected ones      *)
(* first, then the strongest.                                              *)
(***************************************************************************)
Row(i, now) == [ssid |-> air[i].ssid, signal |-> air[i].signal, active |-> i = now]

\* mutant: the last row of a name is the one kept
KeepLastRow(kept, row) == {k \in kept : k.ssid # row.ssid} \cup {row}

\* a row replaces the one kept for its name when it is active or stronger
KeepRow(kept, row) ==
    IF \E k \in kept : k.ssid = row.ssid /\ ~row.active /\ row.signal <= k.signal THEN kept
    ELSE {k \in kept : k.ssid # row.ssid} \cup {row}

Before(a, b) == (a.active /\ ~b.active) \/ (a.active = b.active /\ a.signal > b.signal)

\* in this order; rows that tie are ordered by their names, here in any order
Sorted(rows) ==
    CHOOSE list \in [1..Cardinality(rows) -> rows] :
      /\ ToSet(list) = rows
      /\ \A i, k \in DOMAIN list : i < k => ~Before(list[k], list[i])

ParseNetworks(now) == Sorted(FoldLeft(KeepRow, {}, [i \in DOMAIN air |-> Row(i, now)]))

\* _wifi_payload; the listing may fail
WifiPayload(asked, arg, success, listed) ==
    LET shown == IF radio' /\ listed THEN ParseNetworks(joined') ELSE <<>>
        active == {i \in DOMAIN shown : shown[i].active}
    IN [asked |-> asked, arg |-> arg, success |-> success, networks |-> shown,
        connected |-> IF active = {} THEN None ELSE shown[Min(active)].ssid]

Failed(asked, arg) == [NoAnswer EXCEPT !.asked = asked, !.arg = arg, !.success = FALSE]

(***************************************************************************)
(* Commands on Wi-Fi.                                                      *)
(***************************************************************************)
\* cmd_wifi_connect: nmcli joins an access point of that name, or fails and
\* leaves the adapter disconnected or as it was
WifiConnect(ssid) ==
    /\ \/ \E i \in DOMAIN air :
            /\ radio /\ air[i].ssid = ssid
            /\ joined' = i
            /\ UNCHANGED radio
            /\ \E listed \in BOOLEAN : answer' = WifiPayload("connect", ssid, TRUE, listed)
       \/ joined' \in {0, joined} /\ answer' = Failed("connect", ssid) /\ UNCHANGED radio
    /\ UNCHANGED <<air, dns, warp>>

\* cmd_wifi_disconnect
WifiDisconnect ==
    /\ \/ /\ joined' = 0 /\ UNCHANGED radio
          /\ \E listed \in BOOLEAN : answer' = WifiPayload("disconnect", None, TRUE, listed)
       \/ UNCHANGED <<radio, joined>> /\ answer' = Failed("disconnect", None)
    /\ UNCHANGED <<air, dns, warp>>

\* cmd_wifi_set_enabled
WifiSetEnabled(on) ==
    /\ \/ /\ radio' = on
          /\ joined' = IF on THEN joined ELSE 0
          /\ \E listed \in BOOLEAN :
               answer' = WifiPayload(IF on THEN "radio_on" ELSE "radio_off", None, TRUE, listed)
       \/ UNCHANGED <<radio, joined>> /\ answer' = Failed("radio", None)
    /\ UNCHANGED <<air, dns, warp>>

(***************************************************************************)
(* Commands on DNS.                                                        *)
(***************************************************************************)
\* cmd_set_dns: the profile is changed, then brought up; None is "auto"
SetDns(servers) ==
    LET profile == IF servers = None THEN {} ELSE servers
        changed == [dns EXCEPT !.profile = profile, !.ignoreAuto = servers # None]
        up == [changed EXCEPT !.live = IF servers = None THEN {"auto"} ELSE servers]
    IN /\ \/ dns' = up /\ answer' = [NoAnswer EXCEPT !.asked = "dns", !.arg = servers]
          \/ dns' \in {dns, changed} /\ answer' = Failed("dns", servers)
       /\ UNCHANGED <<air, radio, joined, warp>>

\* cmd_dns_info: the servers in use, else the profile's, and whether they are automatic
DnsInfo == [dns |-> IF dns.live # {} THEN dns.live ELSE dns.profile, auto |-> ~dns.ignoreAuto]

(***************************************************************************)
(* Commands on WARP.                                                       *)
(***************************************************************************)
\* _systemctl_action: directly, then through pkexec and sudo; a call that is
\* said to have failed may have worked
Service(up, ok) == IF ok THEN {up} ELSE {up, warp.service}

\* warp-cli connect needs the service; without it there is no tunnel
Connected(service, ok) ==
    IF service THEN (IF ok THEN {TRUE} ELSE {warp.tunnel, FALSE}) ELSE {FALSE}

\* cmd_warp_set_enabled("on") and cmd_warp_restart
WarpStart(asked) ==
    \E started, tunnelled \in BOOLEAN :
      /\ \E up \in Service(TRUE, started) :
         \E tunnel \in IF started THEN Connected(up, tunnelled) ELSE {up /\ warp.tunnel} :
           warp' = [service |-> up, tunnel |-> tunnel]
      /\ answer' = [NoAnswer EXCEPT !.asked = asked, !.success = started /\ tunnelled]
      /\ UNCHANGED <<air, radio, joined, dns>>

\* cmd_warp_set_enabled("off"): a failed disconnection is ignored
WarpStop ==
    \E stopped, cut \in BOOLEAN :
      /\ \E up \in Service(FALSE, stopped) :
           warp' = [service |-> up, tunnel |-> up /\ ~cut /\ warp.tunnel]
      /\ answer' = [NoAnswer EXCEPT !.asked = "warp_off", !.success = stopped]
      /\ UNCHANGED <<air, radio, joined, dns>>

\* an access point comes into reach or is lost, and the connection breaks
AirChanges ==
    /\ \/ \E point \in AccessPoints : Len(air) < MaxPoints /\ air' = Append(air, point)
       \/ \E i \in DOMAIN air : air' = RemoveAt(air, i)
    /\ joined' = 0
    /\ answer' = NoAnswer
    /\ UNCHANGED <<radio, dns, warp>>

NetInit ==
    /\ air \in Airs
    /\ radio \in BOOLEAN
    /\ joined = 0
    /\ dns = [profile |-> {}, ignoreAuto |-> FALSE, live |-> {"auto"}]
    /\ warp = [service |-> FALSE, tunnel |-> FALSE]
    /\ answer = NoAnswer

NetNext ==
    \/ \E ssid \in Networks : WifiConnect(ssid)
    \/ WifiDisconnect \/ AirChanges \/ WarpStop
    \/ \E on \in BOOLEAN : WifiSetEnabled(on)
    \/ \E servers \in {None} \cup ((SUBSET Servers) \ {{}}) : SetDns(servers)
    \/ \E asked \in {"warp_on", "warp_restart"} : WarpStart(asked)

NetSpec == NetInit /\ [][NetNext]_netVars

(***************************************************************************)
(* Properties.                                                             *)
(***************************************************************************)
\* A command that answers success left what was asked for, and the answer shows
\* it: the network joined is the one connected, the servers chosen are those
\* reported, the tunnel is up or the service down (cmd_wifi_connect,
\* cmd_set_dns and cmd_dns_info, cmd_warp_set_enabled, cmd_warp_restart).  The
\* connection is not shown when it is outshone: a stronger access point of the
\* same network, listed after the one joined, replaces the row that is active.
Outshone ==
    joined # 0 /\ \E i \in DOMAIN air :
      i > joined /\ air[i].ssid = air[joined].ssid /\ air[i].signal > air[joined].signal
SuccessIsShown ==
    answer.success =>
      CASE answer.asked = "connect" ->
             answer.networks # <<>> /\ ~Outshone => answer.connected = answer.arg
        [] answer.asked = "disconnect" -> answer.connected = None
        [] answer.asked = "radio_off" -> joined = 0 /\ answer.networks = <<>>
        [] answer.asked = "dns" ->
             DnsInfo = [dns |-> IF answer.arg = None THEN {"auto"} ELSE answer.arg,
                        auto |-> answer.arg = None]
        [] answer.asked \in {"warp_on", "warp_restart"} -> warp.service /\ warp.tunnel
        [] answer.asked = "warp_off" -> ~warp.service /\ ~warp.tunnel
        [] OTHER -> TRUE

\* A listing has each network once, in the order the page shows, at the strength of its
\* strongest access point (_parse_wifi_networks, test_manager.py
\* test_parse_wifi_networks_deduplicates_by_strongest_signal).  The network joined is an
\* exception: the access point in use replaces a stronger one that was listed before it, and
\* is itself replaced by the next that is stronger than it.
ListingIsRight ==
    \A i \in DOMAIN answer.networks :
      LET row == answer.networks[i]
          points == {k \in DOMAIN air : air[k].ssid = row.ssid}
      IN /\ \A k \in DOMAIN answer.networks : k > i =>
              answer.networks[k].ssid # row.ssid /\ ~Before(answer.networks[k], row)
         /\ \E k \in points : row = Row(k, joined)
         /\ joined \notin points => \A k \in points : air[k].signal <= row.signal

\* What nmcli prints for any field, colons and backslashes in it included, is
\* read back as that field (_split_nmcli_fields).
FieldsAreReadBack ==
    LET Fields == UNION {[1..n -> Chars] : n \in 0..MaxField}
    IN \A a, b \in Fields : SplitFields(TerseLine(<<a, b>>)) = <<a, b>>

(***************************************************************************)
(* The inductive invariant: every command prints an answer of its own.     *)
(***************************************************************************)
NetTypeOK ==
    /\ air \in Airs
    /\ dns \in [profile : SUBSET Servers, ignoreAuto : BOOLEAN,
                live : SUBSET (Servers \cup {"auto"})]

NetInv == NetTypeOK /\ SuccessIsShown /\ ListingIsRight
=============================================================================
