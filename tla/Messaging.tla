----------------------------- MODULE Messaging ------------------------------
(***************************************************************************)
(* Messages of one conversation, and how its members learn of them.  Four  *)
(* kinds of process share the rows of conversation_users:                  *)
(*   - the websocket server, which handles post_message and                *)
(*     conversation_read one at a time;                                    *)
(*   - web processes that show the conversation and mark it read;          *)
(*   - cron jobs that mail members about what they have not read.          *)
(* A save writes only the columns changed since the row was loaded, and a  *)
(* message is created in a transaction that reads the rows as they were    *)
(* when it began: loading and saving are separate steps.                   *)
(*                                                                         *)
(* post_message finds or creates the conversation of its two users; only   *)
(* this handler creates one, so two users never have two.  The rows of a   *)
(* new conversation are those of Init.  A poster who is not a member is    *)
(* answered not_found and changes nothing.                                 *)
(***************************************************************************)
EXTENDS Integers, Sequences, FiniteSets

CONSTANTS
    Users,        \* the members of the conversation
    Owner,        \* the member whose request the other members may reply to
    Contents,     \* what a member may type
    Web,          \* requests being served by web processes
    Crons,        \* runs of conversations:notify_unread
    MaxMessages,  \* bound on the messages stored
    MaxCrashes    \* bound on the crashes of each mailing process

WS == "ws"
Actors == Crons \cup {WS}
None == "none"
Markup == "<b></b>"
Request == "request"

ASSUME MessagingAssumption ==
    /\ IsFiniteSet(Users)
    /\ Owner \in Users
    /\ WS \notin Crons
    /\ None \notin Users
    /\ Request \notin Contents
    /\ MaxMessages \in Nat
    /\ MaxCrashes \in Nat

VARIABLES
    messages,        \* messages of the conversation, oldest first
    unread,          \* members whose row is unread
    notified,        \* members whose row is notified
    old,             \* members whose last_read_at is over an hour ago
    request_users,   \* users of Owner's request
    comment_count,   \* its comment_count column
    online,          \* members the server counts as connected
    pushed,          \* members with a tab that may acknowledge a message
    at,              \* where the server is in post_message
    me,              \* its current_user
    text,            \* the content posted
    loaded,          \* the rows its transaction reads: who is unread, notified
    left,            \* members it has still to tell
    show,            \* show[w]: step of w in ConversationsController#show
    reader,          \* reader[w]: its current_user
    batch,           \* batch[k]: rows cron run k has still to look at
    saving,          \* saving[a]: the member a has mailed but not marked yet
    crashes,         \* history: crashes of a
    mails,           \* history: mails of a to u since u's unread began
    told,            \* history: number of messages u was shown or pushed
    crossed,         \* history: users whose read crossed a post
    carried          \* history: users whose unread began amid a cron mail

cu == <<unread, notified, old>>
request == <<request_users, comment_count>>
store == <<messages, cu, request>>
server == <<at, me, text, loaded, left>>
history == <<crashes, mails, told, crossed, carried>>
web == <<show, reader>>
vars == <<store, online, pushed, server, web, batch, saving, history>>

Message == [user : Users, content : (Contents \ {Markup}) \cup {Request}]
NoRows == [unread |-> {}, notified |-> {}]

TypeOK ==
    /\ messages \in Seq(Message)
    /\ unread \subseteq Users
    /\ notified \subseteq Users
    /\ old \subseteq Users
    /\ request_users \subseteq Users
    /\ comment_count \in Nat
    /\ online \subseteq Users
    /\ pushed \subseteq online
    /\ at \in {"idle", "system", "reply", "create", "message", "serve", "save"}
    /\ me \in Users \cup {None}
    /\ at # "idle" => me \in Users /\ text \in Contents
    /\ at = "message" => text # Markup
    /\ at = "save" <=> saving[WS] # None
    /\ loaded \in [unread : SUBSET Users, notified : SUBSET Users]
    /\ left \subseteq Users
    /\ show \in [Web -> {"idle", "unread", "read", "saved"}]
    /\ reader \in [Web -> Users \cup {None}]
    /\ \A w \in Web : show[w] # "idle" => reader[w] \in Users
    /\ batch \in [Crons -> SUBSET Users]
    /\ saving \in [Actors -> Users \cup {None}]
    /\ crashes \in [Actors -> 0..MaxCrashes]
    /\ mails \in [Actors -> [Users -> Nat]]
    /\ told \in [Users -> Nat]
    /\ crossed \subseteq Users
    /\ carried \subseteq Users

Init ==
    /\ messages = <<>>
    /\ unread = {}
    /\ notified = {}
    /\ old = {}
    /\ request_users = {Owner}
    /\ comment_count = 0
    /\ online = {}
    /\ pushed = {}
    /\ at = "idle"
    /\ me = None
    /\ text = None
    /\ loaded = NoRows
    /\ left = {}
    /\ show = [w \in Web |-> "idle"]
    /\ reader = [w \in Web |-> None]
    /\ batch = [k \in Crons |-> {}]
    /\ saving = [a \in Actors |-> None]
    /\ crashes = [a \in Actors |-> 0]
    /\ mails = [a \in Actors |-> [u \in Users |-> 0]]
    /\ told = [u \in Users |-> 0]
    /\ crossed = {}
    /\ carried = {}

-----------------------------------------------------------------------------
(* Storing a message. *)

\* sanitize_fields strips the tags; what is then blank is not valid.
Valid(c) == c # Markup

\* The rows as a transaction that begins now reads them.
Rows == [unread |-> unread, notified |-> notified]

\* The members whose row the transaction changes to unread.
UnlessNotified == Users \ ({me} \cup loaded.unread \cup loaded.notified)
Arrivals == Users \ ({me} \cup loaded.unread)

\* The notified rows after the save, which writes false over true only.
NotReset == notified
Notified == notified \ (Arrivals \cap loaded.notified)

update_unread_status ==
    /\ unread' = unread \cup Arrivals
    /\ notified' = Notified
    /\ mails' = [a \in Actors |-> [u \in Users |->
                    IF u \in Arrivals THEN 0 ELSE mails[a][u]]]
    /\ crossed' = crossed \ Arrivals
    /\ carried' = (carried \ Arrivals) \cup
                  {u \in Arrivals : \/ u \in notified \ loaded.notified
                                   \/ \E k \in Crons : saving[k] = u}

\* Message.create commits.
Stored(content) ==
    /\ messages' = Append(messages, [user |-> me, content |-> content])
    /\ update_unread_status
    /\ loaded' = NoRows
    /\ UNCHANGED <<old, online, pushed, me, text, web, batch, saving, crashes, told>>

-----------------------------------------------------------------------------
(* The websocket server. *)

\* The handler returns, or dies with the process: its local state is gone.
Return ==
    /\ at' = "idle"
    /\ me' = None
    /\ text' = None
    /\ loaded' = NoRows
    /\ left' = {}

\* A member posts c, as a reply to the request of the owner or not.
post_message(u, c, reply) ==
    /\ at = "idle"
    /\ reply => u # Owner
    /\ Len(messages) + (IF reply THEN 2 ELSE 1) <= MaxMessages
    /\ me' = u
    /\ text' = c
    /\ at' = IF reply THEN "system" ELSE "create"
    /\ loaded' = IF reply THEN Rows ELSE NoRows
    /\ UNCHANGED <<store, online, pushed, left, web, batch, saving, history>>

\* The system message that names the request; it has the poster as its user.
SystemMessage ==
    /\ at = "system"
    /\ Stored(Request)
    /\ at' = "reply"
    /\ UNCHANGED <<request, left>>

\* The poster joins the users of the request: update_score(:comment).
Reply ==
    /\ at = "reply"
    /\ request_users' = request_users \cup {me}
    /\ comment_count' = Cardinality(request_users') - 1
    /\ at' = "create"
    /\ UNCHANGED <<messages, cu, online, pushed, me, text, loaded, left, web,
                   batch, saving, history>>

\* The poster's last message again, with nothing after it.
Conflict ==
    /\ messages # <<>>
    /\ messages[Len(messages)].user = me
    /\ messages[Len(messages)].content = text

\* A conflict ends the handler.  A message that is not valid is not stored, but
\* the handler goes on: create returns an object in any case.
CreateMessage ==
    /\ at = "create"
    /\ \/ Conflict /\ Return
       \/ /\ ~Conflict /\ ~Valid(text)
          /\ at' = "serve"
          /\ left' = Users
          /\ UNCHANGED <<me, text, loaded>>
       \/ /\ ~Conflict /\ Valid(text)
          /\ at' = "message"
          /\ loaded' = Rows
          /\ UNCHANGED <<me, text, left>>
    /\ UNCHANGED <<store, online, pushed, web, batch, saving, history>>

MessageStored ==
    /\ at = "message"
    /\ Stored(text)
    /\ at' = "serve"
    /\ left' = Users
    /\ UNCHANGED request

\* The poster, and whoever is connected, gets the message pushed.
Push(u) ==
    /\ at = "serve"
    /\ u \in left
    /\ u = me \/ u \in online
    /\ left' = left \ {u}
    /\ pushed' = pushed \cup ({u} \cap online)
    /\ told' = [told EXCEPT ![u] = Len(messages)]
    /\ crossed' = crossed \ {u}
    /\ UNCHANGED <<store, online, at, me, text, loaded, web, batch, saving,
                   crashes, mails, carried>>

AlwaysMail(u) == TRUE
MayMail(u) == u \notin notified

Mail(a, u) ==
    /\ saving' = [saving EXCEPT ![a] = u]
    /\ mails' = [mails EXCEPT ![a][u] = @ + 1]

\* Whoever is not gets a mail, unless already notified.
notify_by_email(u) ==
    /\ at = "serve"
    /\ u \in left
    /\ u # me /\ u \notin online
    /\ left' = left \ {u}
    /\ \/ MayMail(u) /\ Mail(WS, u) /\ at' = "save"
       \/ ~MayMail(u) /\ UNCHANGED <<saving, mails, at>>
    /\ UNCHANGED <<store, online, pushed, me, text, loaded, web, batch, crashes,
                   told, crossed, carried>>

\* The mailer returned: notified is saved.
MarkNotified(a) ==
    /\ notified' = notified \cup {saving[a]}
    /\ saving' = [saving EXCEPT ![a] = None]
    /\ UNCHANGED <<messages, unread, old, request, online, pushed, me, text,
                   loaded, left, web, batch, history>>

ServerMarks ==
    /\ at = "save"
    /\ MarkNotified(WS)
    /\ at' = "serve"

PostDone ==
    /\ at = "serve"
    /\ left = {}
    /\ Return
    /\ UNCHANGED <<store, online, pushed, web, batch, saving, history>>

\* What mark_read saves for u, given the unread column it loaded: a row last
\* read within five minutes need not be touched, and is not old either.
mark_read(u, was_unread) ==
    /\ unread' = IF was_unread THEN unread \ {u} ELSE unread
    /\ old' = old \ {u}
    /\ UNCHANGED <<messages, notified, request>>

\* A tab that shows the conversation acknowledges a message pushed to it.
conversation_read(u) ==
    /\ at = "idle"
    /\ u \in pushed
    /\ mark_read(u, u \in unread)
    /\ pushed' = pushed \ {u}
    /\ UNCHANGED <<online, server, web, batch, saving, history>>

\* Connections come and go between handlers: see Presence.
Connected(u) ==
    /\ at = "idle"
    /\ online' = online \cup {u}
    /\ UNCHANGED <<store, pushed, server, web, batch, saving, history>>

Disconnected(u) ==
    /\ at = "idle"
    /\ online' = online \ {u}
    /\ pushed' = pushed \ {u}
    /\ UNCHANGED <<store, server, web, batch, saving, history>>

\* The server dies; a transaction it was in is rolled back.
ServerCrash ==
    /\ crashes[WS] < MaxCrashes
    /\ crashes' = [crashes EXCEPT ![WS] = @ + 1]
    /\ Return
    /\ online' = {}
    /\ pushed' = {}
    /\ saving' = [saving EXCEPT ![WS] = None]
    /\ UNCHANGED <<store, web, batch, mails, told, crossed, carried>>

-----------------------------------------------------------------------------
(* A web process shows the conversation to u: it marks it read, then renders *)
(* the messages.                                                             *)

ShowLoad(w, u) ==
    /\ show[w] = "idle"
    /\ show' = [show EXCEPT ![w] = IF u \in unread THEN "unread" ELSE "read"]
    /\ reader' = [reader EXCEPT ![w] = u]
    /\ UNCHANGED <<store, online, pushed, server, batch, saving, history>>

ShowSave(w) ==
    /\ show[w] \in {"unread", "read"}
    /\ mark_read(reader[w], show[w] = "unread")
    /\ show' = [show EXCEPT ![w] = "saved"]
    /\ crossed' = IF /\ at \in {"system", "message"}
                     /\ show[w] = "unread" /\ reader[w] \in loaded.unread
                  THEN crossed \cup {reader[w]} ELSE crossed
    /\ UNCHANGED <<reader, online, pushed, server, batch, saving, crashes, mails,
                   told, carried>>

ShowRender(w) ==
    /\ show[w] = "saved"
    /\ show' = [show EXCEPT ![w] = "idle"]
    /\ reader' = [reader EXCEPT ![w] = None]
    /\ told' = [told EXCEPT ![reader[w]] = Len(messages)]
    /\ crossed' = IF at \in {"system", "message"} THEN crossed
                  ELSE crossed \ {reader[w]}
    /\ UNCHANGED <<store, online, pushed, server, batch, saving, crashes, mails,
                   carried>>

-----------------------------------------------------------------------------
(* The cron job. *)

\* The rows the query of notify_about_unread_messages selects.
AlreadyNotified == unread \cap notified \cap old
Due == (unread \cap old) \ notified

CronQuery(k) ==
    /\ batch[k] = {}
    /\ saving[k] = None
    /\ batch' = [batch EXCEPT ![k] = Due]
    /\ UNCHANGED <<store, online, pushed, server, web, saving, history>>

\* A message to mail u about: not a system message, and not u's own.
HasMessage(u) ==
    \E i \in DOMAIN messages : messages[i].user # u /\ messages[i].content # Request

\* The row is the one the query loaded, whatever has happened to it since.
CronMail(k, u) ==
    /\ saving[k] = None
    /\ u \in batch[k]
    /\ batch' = [batch EXCEPT ![k] = @ \ {u}]
    /\ \/ HasMessage(u) /\ Mail(k, u)
       \/ ~HasMessage(u) /\ UNCHANGED <<saving, mails>>
    /\ UNCHANGED <<store, online, pushed, server, web, crashes, told, crossed,
                   carried>>

CronMarks(k) ==
    /\ saving[k] # None
    /\ MarkNotified(k)
    /\ UNCHANGED at

CronCrash(k) ==
    /\ crashes[k] < MaxCrashes
    /\ crashes' = [crashes EXCEPT ![k] = @ + 1]
    /\ batch' = [batch EXCEPT ![k] = {}]
    /\ saving' = [saving EXCEPT ![k] = None]
    /\ UNCHANGED <<store, online, pushed, server, web, mails, told, crossed,
                   carried>>

\* An hour has passed since u last read.
Tick(u) ==
    /\ old' = old \cup {u}
    /\ UNCHANGED <<messages, unread, notified, request, online, pushed, server,
                   web, batch, saving, history>>

-----------------------------------------------------------------------------
Next ==
    \/ \E u \in Users, c \in Contents, reply \in BOOLEAN : post_message(u, c, reply)
    \/ SystemMessage
    \/ Reply
    \/ CreateMessage
    \/ MessageStored
    \/ ServerMarks
    \/ PostDone
    \/ ServerCrash
    \/ \E u \in Users :
          \/ Push(u)
          \/ notify_by_email(u)
          \/ conversation_read(u)
          \/ Connected(u)
          \/ Disconnected(u)
          \/ Tick(u)
    \/ \E w \in Web : ShowSave(w) \/ ShowRender(w)
    \/ \E w \in Web, u \in Users : ShowLoad(w, u)
    \/ \E k \in Crons : CronQuery(k) \/ CronMarks(k) \/ CronCrash(k)
    \/ \E k \in Crons, u \in Users : CronMail(k, u)

Spec == Init /\ [][Next]_vars

\* Cron keeps running the task, a run that is not killed goes on, time passes.
CronStep(k) == CronQuery(k) \/ CronMarks(k) \/ \E u \in Users : CronMail(k, u)
Fairness ==
    /\ \A k \in Crons : WF_vars(CronStep(k))
    /\ \A u \in Users : WF_vars(Tick(u))
FairSpec == Spec /\ Fairness

-----------------------------------------------------------------------------
\* A process that is never killed mails a member at most once about the same
\* stretch of unread messages, however the steps of the server, of overlapping
\* cron runs and of the readers interleave; each kill can repeat one mail.
MailedOnce ==
    \A a \in Actors, u \in Users : mails[a][u] <= 1 + crashes[a]

\* A message from another member that u has been neither shown nor pushed
\* leaves u's row unread, unless u's read crossed the post, or u is being shown
\* the conversation right now.
Missed(u) == \E i \in (told[u] + 1)..Len(messages) : messages[i].user # u
Opening(u) == \E w \in Web : show[w] = "saved" /\ reader[w] = u
UnreadUnlessCrossed ==
    \A u \in Users : Missed(u) => u \in unread \cup crossed \/ Opening(u)

\* A row that is unread and marked notified had a mail since it became unread,
\* so no mail is withheld in vain, unless it became unread while a cron run was
\* between mailing the member and marking the row.
NotifiedWasMailed ==
    \A u \in (unread \cap notified) \ carried : \E a \in Actors : mails[a][u] > 0

\* Who leaves a message unread is mailed about it in the end.
EventuallyNotified ==
    \A u \in Users : u \in unread /\ HasMessage(u) ~> u \notin unread \ notified

\* message.rb:48: notified is set to false only by a non-system message.
SystemKeepsNotified ==
    [][SystemMessage => notified \subseteq notified']_vars

=============================================================================
