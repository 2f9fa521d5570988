-------------------------------- MODULE Presence --------------------------------
(***************************************************************************)
(* The presence of one user in one tenant (RealtimeHub,                    *)
(* RedisPresenceService): four kinds of Redis keys that every connection   *)
(* of the user, on any instance of the API, writes and removes with no     *)
(* transaction, and the online and offline events sent to the tenant.      *)
(* A batch of commands is pipelined and taken as one step.  The methods of *)
(* one connection run one after the other (SignalR).                       *)
(***************************************************************************)
EXTENDS FiniteSets

CONSTANTS
  Sockets,   \* the connections, each used once
  Pages,     \* the page contexts
  NoPage

VARIABLES
  socket,        \* how far each connection is
  conn2user,     \* the connections in the tenant's hash: it has no time to live
  userSet,       \* presence:user, shared by the user's connections
  connTenant,    \* the connections with a presence:conn:tenant key
  connPage,      \* presence:connpage, by connection
  pageViewers,   \* presence:page, by page
  announced,     \* the last presence event of the user
  lapsed         \* connections of which a key has expired or a handler was cut off

presenceVars ==
  <<socket, conn2user, userSet, connTenant, connPage, pageViewers, announced, lapsed>>

ASSUME PresenceAssumption == IsFiniteSet(Sockets) /\ NoPage \notin Pages

\* at: "tracked" until UserOnline is sent; "open"; "moving" between two pages;
\* "found" to "last" through OnDisconnectedAsync; "closed".
\* known: the disconnect found the user; page: the page it moves to.
NewSocket == [at |-> "new", known |-> FALSE, page |-> NoPage]

PresenceInit ==
  /\ socket = [c \in Sockets |-> NewSocket]
  /\ conn2user = {} /\ userSet = {} /\ connTenant = {}
  /\ connPage = [c \in Sockets |-> NoPage]
  /\ pageViewers = [p \in Pages |-> {}]
  /\ announced = "nothing" /\ lapsed = {}

At(c, at) == socket' = [socket EXCEPT ![c].at = at]

-----------------------------------------------------------------------------
(* OnConnectedAsync                                                        *)

\* TrackConnectionAsync
TrackConnection(c) ==
  /\ socket[c].at = "new"
  /\ conn2user' = conn2user \cup {c}
  /\ userSet' = userSet \cup {c}
  /\ connTenant' = connTenant \cup {c}
  /\ At(c, "tracked")
  /\ UNCHANGED <<connPage, pageViewers, announced, lapsed>>

AnnounceOnline(c) ==
  /\ socket[c].at = "tracked"
  /\ announced' = "UserOnline"
  /\ At(c, "open")
  /\ UNCHANGED <<conn2user, userSet, connTenant, connPage, pageViewers, lapsed>>

-----------------------------------------------------------------------------
(* UpdatePageContext                                                       *)

\* Mutant: the connection stays among the viewers of the page it leaves.
WithoutOnNone(viewers, c, p) == viewers

\* The viewers of all pages without c on page p.
WithoutOn(viewers, c, p) == [q \in Pages |-> IF q = p THEN viewers[q] \ {c} ELSE viewers[q]]

LeavePage(c, p) ==
  /\ socket[c].at = "open"
  /\ pageViewers' = WithoutOn(pageViewers, c, connPage[c])
  /\ socket' = [socket EXCEPT ![c].at = "moving", ![c].page = p]
  /\ UNCHANGED <<conn2user, userSet, connTenant, connPage, announced, lapsed>>

EnterPage(c) ==
  /\ socket[c].at = "moving"
  /\ connPage' = [connPage EXCEPT ![c] = socket[c].page]
  /\ pageViewers' = [pageViewers EXCEPT ![socket[c].page] = @ \cup {c}]
  /\ socket' = [socket EXCEPT ![c].at = "open", ![c].page = NoPage]
  /\ UNCHANGED <<conn2user, userSet, connTenant, announced, lapsed>>

-----------------------------------------------------------------------------
(* OnDisconnectedAsync                                                     *)

\* The tenant key and the hash entry are read; both must be there.
UserOf(c) == c \in connTenant /\ c \in conn2user

\* GetUserIdByConnectionAsync
FindUser(c) ==
  /\ socket[c].at = "open"
  /\ socket' = [socket EXCEPT ![c].at = "found", ![c].known = UserOf(c)]
  /\ UNCHANGED <<conn2user, userSet, connTenant, connPage, pageViewers, announced, lapsed>>

\* RemoveConnectionAsync
RemoveConnection(c) ==
  /\ socket[c].at = "found"
  /\ \/ /\ UserOf(c)
        /\ conn2user' = conn2user \ {c}
        /\ userSet' = userSet \ {c}
        /\ connTenant' = connTenant \ {c}
        /\ connPage' = [connPage EXCEPT ![c] = NoPage]
        /\ pageViewers' = WithoutOn(pageViewers, c, connPage[c])
     \/ /\ ~UserOf(c)
        /\ UNCHANGED <<conn2user, userSet, connTenant, connPage, pageViewers>>
  /\ At(c, IF socket[c].known THEN "removed" ELSE "closed")
  /\ UNCHANGED <<announced, lapsed>>

\* IsUserOnlineAsync
LookForOthers(c) ==
  /\ socket[c].at = "removed"
  /\ At(c, IF userSet = {} THEN "last" ELSE "closed")
  /\ UNCHANGED <<conn2user, userSet, connTenant, connPage, pageViewers, announced, lapsed>>

AnnounceOffline(c) ==
  /\ socket[c].at = "last"
  /\ announced' = "UserOffline"
  /\ At(c, "closed")
  /\ UNCHANGED <<conn2user, userSet, connTenant, connPage, pageViewers, lapsed>>

\* A host that stops, or an exception: what is left of the handler does not run.
\* SignalR runs no OnDisconnectedAsync when OnConnectedAsync has thrown.
CutOff(c) ==
  /\ socket[c].at \notin {"new", "closed"}
  /\ At(c, "closed")
  /\ lapsed' = lapsed \cup {c}
  /\ UNCHANGED <<conn2user, userSet, connTenant, connPage, pageViewers, announced>>

-----------------------------------------------------------------------------
(* Keys expire after 30 minutes; the sets live on while anyone adds to     *)
(* them.                                                                   *)

TenantKeyExpires(c) ==
  /\ c \in connTenant
  /\ connTenant' = connTenant \ {c}
  /\ lapsed' = lapsed \cup {c}
  /\ UNCHANGED <<socket, conn2user, userSet, connPage, pageViewers, announced>>

UserSetExpires ==
  /\ userSet # {}
  /\ userSet' = {}
  /\ lapsed' = lapsed \cup userSet
  /\ UNCHANGED <<socket, conn2user, connTenant, connPage, pageViewers, announced>>

PageKeyExpires(c) ==
  /\ connPage[c] # NoPage
  /\ connPage' = [connPage EXCEPT ![c] = NoPage]
  /\ lapsed' = lapsed \cup {c}
  /\ UNCHANGED <<socket, conn2user, userSet, connTenant, pageViewers, announced>>

PageViewersExpire(p) ==
  /\ pageViewers[p] # {}
  /\ pageViewers' = [pageViewers EXCEPT ![p] = {}]
  /\ lapsed' = lapsed \cup pageViewers[p]
  /\ UNCHANGED <<socket, conn2user, userSet, connTenant, connPage, announced>>

PresenceNext ==
  \/ \E c \in Sockets :
       \/ TrackConnection(c) \/ AnnounceOnline(c) \/ EnterPage(c)
       \/ FindUser(c) \/ RemoveConnection(c) \/ LookForOthers(c) \/ AnnounceOffline(c)
       \/ CutOff(c) \/ TenantKeyExpires(c) \/ PageKeyExpires(c)
       \/ \E p \in Pages : LeavePage(c, p)
  \/ UserSetExpires
  \/ \E p \in Pages : PageViewersExpire(p)

PresenceSpec == PresenceInit /\ [][PresenceNext]_presenceVars

-----------------------------------------------------------------------------
(* What the tenant's users rely on.                                        *)

\* The type of the state.
PresenceTypeOK ==
  /\ \A c \in Sockets :
       /\ socket[c].at \in {"new", "tracked", "open", "moving", "found", "removed", "last", "closed"}
       /\ socket[c].known \in BOOLEAN /\ socket[c].page \in Pages \cup {NoPage}
  /\ conn2user \subseteq Sockets /\ userSet \subseteq Sockets /\ connTenant \subseteq Sockets
  /\ connPage \in [Sockets -> Pages \cup {NoPage}]
  /\ pageViewers \in [Pages -> SUBSET Sockets]
  /\ announced \in {"nothing", "UserOnline", "UserOffline"}
  /\ lapsed \subseteq Sockets

\* Nobody is listed as online, or as looking at a page, by a connection that is
\* over, if none of its keys has expired and its handlers have run: whatever pages
\* it went through and whoever else came and went.
NoGhosts ==
  \A c \in Sockets \ lapsed :
    socket[c].at = "closed" =>
      c \notin conn2user \cup userSet \cup UNION {pageViewers[p] : p \in Pages}

\* "On disconnect, a UserOffline event is broadcast if the user has no remaining
\* connections": when OnDisconnectedAsync ends and no connection is open, the last
\* event is UserOffline.
OfflineAnnounced ==
  [][\A c \in Sockets :
       /\ RemoveConnection(c) \/ LookForOthers(c) \/ AnnounceOffline(c)
       /\ \A d \in Sockets : socket'[d].at \in {"new", "closed"}
       => announced' = "UserOffline"]_presenceVars
=============================================================================
