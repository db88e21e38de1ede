------------------------------ MODULE Presence ------------------------------
(***************************************************************************)
(* Who is online.  The standalone websocket server counts the open         *)
(* connections of every user in its own memory (connected_users), mirrors  *)
(* "counted at least once" into the users.online column, and tells the     *)
(* browser tabs that watch a user when that changes.  The column outlives  *)
(* the server: the rake task websocket:restart clears it between stopping  *)
(* and starting the server, monit restarts a dead server without clearing. *)
(*                                                                         *)
(* A handler of the server runs to its end before the next one starts, so  *)
(* each is one action.  Events reach a tab in the order they were sent on  *)
(* its connection, so shown[c] is what tab c shows once it has handled the *)
(* events sent so far.                                                     *)
(***************************************************************************)
EXTENDS Integers, FiniteSets

CONSTANTS Users, Conns

ASSUME PresenceAssumption == IsFiniteSet(Conns)

Nobody == "nobody"

VARIABLES
    server,           \* "up" or "down": the websocket server process
    restart,          \* progress of the rake task: "idle", "stopped", "cleared"
    link,             \* link[c]: "closed", "open" (key accepted) or "refused"
    session,          \* session[c]: session[:user_id] of connection c
    connected_users,  \* controller_store[:connected_users]
    online,           \* users whose online column is true
    watched,          \* watched[c]: the keys of c's connection_store
    shown,            \* shown[c]: the users tab c shows as online
    refused,          \* history: users who lost a count to a refused connection
    leftover,         \* history: users already marked online at server start
    hidden            \* history: users cleared while the server counted them

presenceVars == <<server, restart, link, session, connected_users, online, watched,
          shown, refused, leftover, hidden>>

Links(u) == {c \in Conns : link[c] = "open" /\ session[c] = u}

PresenceTypeOK ==
    /\ server \in {"up", "down"}
    /\ restart \in {"idle", "stopped", "cleared"}
    /\ link \in [Conns -> {"closed", "open", "refused"}]
    /\ session \in [Conns -> Users \cup {Nobody}]
    /\ \A c \in Conns : link[c] # "closed" => session[c] \in Users
    /\ connected_users \in [Users -> Nat]
    /\ online \subseteq Users
    /\ watched \in [Conns -> SUBSET Users]
    /\ shown \in [Conns -> SUBSET Users]
    /\ refused \subseteq Users
    /\ leftover \subseteq Users
    /\ hidden \subseteq Users

PresenceInit ==
    /\ server = "down"
    /\ restart = "idle"
    /\ link = [c \in Conns |-> "closed"]
    /\ session = [c \in Conns |-> Nobody]
    /\ connected_users = [u \in Users |-> 0]
    /\ online = {}
    /\ watched = [c \in Conns |-> {}]
    /\ shown = [c \in Conns |-> {}]
    /\ refused = {}
    /\ leftover = {}
    /\ hidden = {}

-----------------------------------------------------------------------------
(* The handlers of the websocket server. *)

get_online_users_ids == {u \in Users : connected_users[u] > 0}

\* The users one of whose connections watches u.
get_users_watching_me(u) ==
    {session[c] : c \in {d \in Conns : link[d] = "open" /\ u \in watched[d]}}

\* An event on the channels of the users in W reaches all their open tabs.
Channel(W) == {c \in Conns : link[c] = "open" /\ session[c] \in W}

SentConnected(u) ==
    [c \in Conns |-> IF c \in Channel(get_users_watching_me(u))
                     THEN shown[c] \cup {u} ELSE shown[c]]

SentDisconnected(u) ==
    [c \in Conns |-> IF c \in Channel(get_users_watching_me(u))
                     THEN shown[c] \ {u} ELSE shown[c]]

\* Lines 198, 221-223 of the controller: one connection more, one less.
CountOnce(u) == 1
CountUp(u) == connected_users[u] + 1

CountDown(u) == IF connected_users[u] - 1 <= 0 THEN 0 ELSE connected_users[u] - 1

\* Whether the connection that closes is the last one counted.
AnyTab(u) == TRUE
IsLast(u) == connected_users[u] - 1 <= 0

\* A tab opened for user param connects; the cookie's session may by now be
\* another user's.  The key it sends is param's.
user_connected(c, cookie, param) ==
    LET me == IF cookie = Nobody THEN param ELSE cookie IN
    /\ server = "up"
    /\ link[c] = "closed"
    /\ session' = [session EXCEPT ![c] = me]
    /\ \/ /\ me = param
          /\ link' = [link EXCEPT ![c] = "open"]
          /\ connected_users' = [connected_users EXCEPT ![me] = CountUp(me)]
          /\ online' = online \cup {me}
          /\ shown' = SentConnected(me)
          /\ leftover' = leftover \ {me}
          /\ hidden' = hidden \ {me}
       \/ /\ me # param
          /\ link' = [link EXCEPT ![c] = "refused"]
          /\ UNCHANGED <<connected_users, online, shown, leftover, hidden>>
    /\ UNCHANGED <<server, restart, watched, refused>>

\* A connection ended: closed by the tab, lost, or closed by the server after
\* it refused the key.  The handler does not tell these apart.
user_disconnected(c) ==
    LET me == session[c] IN
    /\ server = "up"
    /\ link[c] # "closed"
    /\ connected_users' = [connected_users EXCEPT ![me] = CountDown(me)]
    /\ \/ /\ IsLast(me)
          /\ online' = online \ {me}
          /\ shown' = [SentDisconnected(me) EXCEPT ![c] = {}]
          /\ leftover' = leftover \ {me}
          /\ hidden' = hidden \ {me}
       \/ /\ ~IsLast(me)
          /\ shown' = [shown EXCEPT ![c] = {}]
          /\ UNCHANGED <<online, leftover, hidden>>
    /\ refused' = IF link[c] = "refused" THEN refused \cup {me} ELSE refused
    /\ link' = [link EXCEPT ![c] = "closed"]
    /\ session' = [session EXCEPT ![c] = Nobody]
    /\ watched' = [watched EXCEPT ![c] = {}]
    /\ UNCHANGED <<server, restart>>

\* Tab c asks for the status of the users of its conversations.  The answer
\* goes to the user's channel, so to all tabs of that user.
watch_users_status(c, W) ==
    /\ server = "up"
    /\ link[c] = "open"
    /\ watched' = [watched EXCEPT ![c] = W]
    /\ shown' = [d \in Conns |-> IF d \in Channel({session[c]})
                                 THEN W \cap get_online_users_ids ELSE shown[d]]
    /\ UNCHANGED <<server, restart, link, session, connected_users, online,
                   refused, leftover, hidden>>

-----------------------------------------------------------------------------
(* The life of the server process. *)

\* The process ends: no handler runs, the tabs see their connection closed and
\* show everybody offline.
ServerGone ==
    /\ server' = "down"
    /\ link' = [c \in Conns |-> "closed"]
    /\ session' = [c \in Conns |-> Nobody]
    /\ watched' = [c \in Conns |-> {}]
    /\ shown' = [c \in Conns |-> {}]

KeepCounters == connected_users
EmptyCounters == [u \in Users |-> 0]

\* start_server: initialize_session gives the new process empty counters.
initialize_session ==
    /\ server' = "up"
    /\ connected_users' = EmptyCounters
    /\ refused' = {}
    /\ leftover' = online
    /\ hidden' = {}
    /\ UNCHANGED <<link, session, watched, shown, online>>

Crash ==
    /\ server = "up"
    /\ ServerGone
    /\ UNCHANGED <<restart, connected_users, online, refused, leftover, hidden>>

\* monit finds the process dead and starts it.
MonitStart ==
    /\ server = "down"
    /\ initialize_session
    /\ UNCHANGED restart

\* websocket:restart, first part: stop the server; a failure is rescued.
RestartStop ==
    /\ restart = "idle"
    /\ restart' = "stopped"
    /\ \/ server = "up" /\ ServerGone
       \/ UNCHANGED <<server, link, session, watched, shown>>
    /\ UNCHANGED <<connected_users, online, refused, leftover, hidden>>

\* Second part: put everybody offline.
RestartClear ==
    /\ restart = "stopped"
    /\ restart' = "cleared"
    /\ online' = {}
    /\ leftover' = {}
    /\ hidden' = IF server = "up" THEN get_online_users_ids ELSE {}
    /\ UNCHANGED <<server, link, session, connected_users, watched, shown, refused>>

\* Last part: start the server; a failure (the port is taken, or any other) is
\* rescued.
RestartStart ==
    /\ restart = "cleared"
    /\ restart' = "idle"
    /\ \/ server = "down" /\ initialize_session
       \/ UNCHANGED <<server, link, session, connected_users, online, watched,
                      shown, refused, leftover, hidden>>

-----------------------------------------------------------------------------
PresenceNext ==
    \/ \E c \in Conns, cookie \in Users \cup {Nobody}, param \in Users :
          user_connected(c, cookie, param)
    \/ \E c \in Conns : user_disconnected(c)
    \/ \E c \in Conns, W \in SUBSET Users : watch_users_status(c, W)
    \/ Crash
    \/ MonitStart
    \/ RestartStop
    \/ RestartClear
    \/ RestartStart

PresenceSpec == PresenceInit /\ [][PresenceNext]_presenceVars

-----------------------------------------------------------------------------
\* A refused connection takes a count it never gave, but no connection ever
\* leaves one behind: the server never counts a user more often than the user
\* has open connections, so whoever has closed them all is counted as gone.
NeverOvercounted ==
    server = "up" => \A u \in Users : connected_users[u] <= Cardinality(Links(u))

\* The count is exact for every user none of whose connections was refused
\* since the server started.
ExactUnlessRefused ==
    server = "up" =>
        \A u \in Users \ refused : connected_users[u] = Cardinality(Links(u))

\* The column and the counter agree, except for users the column already called
\* online when the server started (nothing clears it after a crash) and for
\* users the restart task cleared while the server it meant to stop was running.
ColumnFollowsCounter ==
    server = "up" =>
        \A u \in Users :
            /\ u \in online \ leftover => connected_users[u] > 0
            /\ connected_users[u] > 0 => u \in online \cup hidden

\* A tab never shows a user it watches as online whom the server counts as gone,
\* whatever other tabs of the same user ask for in between.
ShownAreOnline ==
    \A c \in Conns : link[c] = "open" =>
        shown[c] \cap watched[c] \subseteq get_online_users_ids

\* What the pages and the tabs show of a user follows the counter, but for a
\* start without a clear and a clear without a stop (update_user_online,
\* notify_online_users).
ScreensFollow == ColumnFollowsCounter /\ ShownAreOnline

\* What conversations_socket_controller.rb:9 says of the store: it holds the
\* users that are connected.
ConnectedAreCounted ==
    server = "up" => \A u \in Users : Links(u) # {} => connected_users[u] > 0

=============================================================================
