------------------------------ MODULE HandleIp ------------------------------
(***************************************************************************)
(* Which packets of the tun go out: check_tun and handle_ip                *)
(* (jni/netguard/ip.c) with the policy they ask, isAddressAllowed of       *)
(* FirewallService, and the sessions that the protocol handlers keep.      *)
(*                                                                         *)
(* Addresses and ports are fixed, so that there is at most one session and *)
(* one set of sockets that match (UidCache).  The apps with Internet       *)
(* access change while packets flow.  What the handlers do with a packet   *)
(* is told by TcpSession, UdpSession and IcmpSession; here it matters only *)
(* whether they open a session and whether anything is sent.               *)
(***************************************************************************)
EXTENDS UidCache

CONSTANT
  Links   \* what is fixed: the protocol, the IP version, and how owners are found

ASSUME LinksAssumption ==
  Links \subseteq [proto : {"tcp", "udp", "icmp"}, version : Version, q : BOOLEAN]

VARIABLES
  link,     \* the member of Links; q says that the Android version is above 9
  allowed,  \* the apps with Internet access (mapPackageAllowed)
  session,  \* whether there is a session, and by what right
  last      \* history: what went out in the last step

ipVars == <<link, allowed, session, last>>
allVars == <<ipVars, vars>>

-----------------------------------------------------------------------------
\* History: a session was opened by a packet that an app with Internet access
\* could have sent, or by another one.
SessionKind == {"none", "granted", "ungranted"}

\* Nothing went out, or something did, by the right of an app or of none.
Outcome == {"none", "sent", "leaked"}

\* The tables that can hold a socket of the link: /proc/net/icmp6 is not asked
\* for packets of IPv4.
TablesAsked == IF link.proto = "icmp" THEN {link.version} ELSE {6, link.version}

\* isBlockedUid.  The firewall's own packets do not enter the tun.  Root is let
\* through, and an owner who was not found (negative) is not.
Allowed(uid) == uid = 0 \/ uid \in allowed

\* The apps that the owner of the socket may be taken for.
RecentOwners ==
  IF link.q THEN Owners(tables) ELSE {u \in Uids : owned[u] <= UID_MAX_AGE}

Entitled == \E u \in RecentOwners : Allowed(u)

-----------------------------------------------------------------------------
(* The headers of a packet.                                                *)

Upper == {"tcp", "udp", "icmp"}

\* The types of the headers after that of IP, outermost first.  "ext" is any of
\* the extension headers of is_lower_layer.
Headers ==
  {<<link.proto>>, <<"other">>}
     \union (IF link.version = 6 THEN {<<"ext", link.proto>>, <<"ext", "ext", link.proto>>}
             ELSE {})

\* handle_ip follows the chain as long as the next header is an extension, so
\* that it never arrives at an upper layer, and falls back to the first header.
Protocol(chain) == IF chain[1] \in Upper THEN chain[1] ELSE "unknown"

-----------------------------------------------------------------------------
NoLookup ==
  /\ answer' = NoAnswer
  /\ UNCHANGED cache

\* The owner that is looked up for a packet that is not exempt: get_uid, or
\* getUidQ, which knows TCP and UDP only.
Lookup(uid) ==
  IF ~link.q THEN Asked(link.version, uid)
  ELSE /\ IF link.proto = "icmp" THEN uid = NotFound
          ELSE uid \in Owners(tables) \union (IF Owners(tables) = {} THEN {NotFound} ELSE {})
       /\ NoLookup

CheckTun == UNCHANGED <<link, allowed, tables, owned, settled>>

Refused ==
  /\ last' = "none"
  /\ UNCHANGED session

\* The packet is let through to the handler of its protocol, which may open a
\* session if opens holds; otherwise it sends nothing without one.
Handled(opens) ==
  \/ /\ session = "none" /\ opens
     /\ session' = IF Entitled THEN "granted" ELSE "ungranted"
     /\ last' = IF Entitled THEN "sent" ELSE "leaked"
  \/ /\ session # "none"
     /\ last' = IF Entitled \/ (link.proto # "icmp" /\ session = "granted")
                THEN "sent" ELSE "leaked"
     /\ UNCHANGED session
  \/ Refused

\* Too short, of a wrong length, a fragment or of an unknown version.
TunInvalid ==
  /\ CheckTun /\ NoLookup
  /\ Refused

\* No owner is looked up for an unknown protocol, which is therefore blocked.
TunUnknown ==
  /\ CheckTun /\ NoLookup
  /\ \E chain \in Headers : Protocol(chain) = "unknown"
  /\ Refused

\* A packet of the protocol of the link.
Recognised == CheckTun /\ \E chain \in Headers : Protocol(chain) = link.proto

\* Letting a connection through whose owner is not known (plausible slip).
AdmitsUnknown(uid) == Allowed(uid) \/ uid < 0

\* is_address_allowed, for the owner that was found.
Admits(uid) == Allowed(uid)

TunSyn ==
  /\ Recognised /\ link.proto = "tcp"
  /\ \E uid \in Uids \union {NotFound, ReadError} :
       /\ Lookup(uid)
       /\ IF Admits(uid) THEN Handled(TRUE) ELSE Refused

\* handle_tcp resets a segment that belongs to no session.
Opens == FALSE

\* "assume existing session": any segment but a SYN is let through.
TunSegment ==
  /\ Recognised /\ link.proto = "tcp"
  /\ NoLookup
  /\ Handled(Opens)

\* The owner is looked up for a datagram without session, and not asked for.
TunDatagram ==
  /\ Recognised /\ link.proto = "udp"
  /\ IF session = "none"
     THEN \E uid \in Uids \union {NotFound, ReadError} : Lookup(uid)
     ELSE NoLookup
  /\ Handled(TRUE)

\* Each request is asked for, also those of a session.
TunPing ==
  /\ Recognised /\ link.proto = "icmp"
  /\ \E uid \in Uids \union {NotFound, ReadError} :
       /\ Lookup(uid)
       /\ IF Admits(uid) THEN Handled(TRUE) ELSE Refused

HandleIp == TunInvalid \/ TunUnknown \/ TunSyn \/ TunSegment \/ TunDatagram \/ TunPing

-----------------------------------------------------------------------------
\* The user allows or blocks an app.
EditRule(uid) ==
  /\ allowed' = IF uid \in allowed THEN allowed \ {uid} ELSE allowed \union {uid}
  /\ last' = "none"
  /\ NoLookup
  /\ UNCHANGED <<link, session, tables, owned, settled>>

\* The session ends and is freed.
EndSession ==
  /\ session # "none"
  /\ session' = "none"
  /\ last' = "none"
  /\ NoLookup
  /\ UNCHANGED <<link, allowed, tables, owned, settled>>

Kernel ==
  /\ \/ \E v \in TablesAsked, line \in Line : OpenSocket(v, line)
     \/ \E v \in TablesAsked : CloseSocket(v)
     \/ TimePasses
  /\ last' = "none"
  /\ UNCHANGED <<link, allowed, session>>

Init ==
  /\ UidInit
  /\ link \in Links
  /\ allowed = {}
  /\ session = "none"
  /\ last = "none"

Next ==
  \/ HandleIp
  \/ \E uid \in Uids \ {0} : EditRule(uid)
  \/ EndSession
  \/ Kernel

Spec == Init /\ [][Next]_allVars

-----------------------------------------------------------------------------
(* Properties.                                                             *)

\* Every variable keeps its type.
TypeOK ==
  /\ UidTypeOK
  /\ link \in Links
  /\ allowed \subseteq Uids
  /\ session \in SessionKind
  /\ last \in Outcome

\* Nothing of TCP or ICMP goes out, and no session for it begins, unless an app
\* that owns the socket, or did so within UID_MAX_AGE, has Internet access; only
\* a connection that began like that goes on without being asked again.  Not
\* even if the owner cannot be found.  Assumed is that getUidQ does not throw:
\* get_uid_q (netguard.c:715-718) would clear the exception and use what the call
\* returned, normally 0, which is root, whom isAddressAllowed lets through.
NothingLeaks ==
  link.proto # "udp" => last # "leaked" /\ session # "ungranted"

\* A datagram without a session goes out only by the right of an app: it is let
\* through because it "could be a lingering/blocked session" (ip.c:291), which
\* block_udp would have made of it when it was not allowed.
DatagramsFollowRules == last # "leaked"
=============================================================================
