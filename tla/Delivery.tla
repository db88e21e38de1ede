------------------------------ MODULE Delivery ------------------------------
(***************************************************************************)
(* How a tab gets what its user types into the conversation.  The tab      *)
(* sends over the websocket and keeps the text until it is answered.  A    *)
(* connection that closes takes with it what is under way in both          *)
(* directions; after a reconnect the tab reloads its list of conversations *)
(* and, when the list comes, sends again what has not been answered.  The  *)
(* server refuses a text that equals the last message of the conversation  *)
(* and has the same user.                                                  *)
(*                                                                         *)
(* The server side is the part of Messaging that the tab can see: one      *)
(* message after the other is stored or refused, and answered.             *)
(***************************************************************************)
EXTENDS Integers, Sequences, FiniteSets

CONSTANTS
    NumTexts,     \* the user types the texts 1..NumTexts, in this order
    MaxOthers,    \* bound on the messages of the other member
    MaxDrops,     \* bound on connections lost or not established
    MaxReloads,   \* bound on reloads that no reconnect asks for
    MaxFailures   \* bound on list requests and handlers that fail

\* What the model asks of its constants.
DeliveryConstants ==
    {NumTexts, MaxOthers, MaxDrops, MaxReloads, MaxFailures} \subseteq Nat

Texts == 1..NumTexts
None == 0
Other == NumTexts + 1   \* any message of the other member

VARIABLES
    log,        \* the messages of the conversation
    conn,       \* state of the tab's dispatcher
    toServer,   \* texts under way to the server
    toTab,      \* texts answered, the answers under way to the tab
    box,        \* messageReply: what the text area holds
    isPosting,  \* a text is being posted: the text area is disabled
    toSend,     \* conversationDataToSend
    loading,    \* requests for the list of conversations under way
    typed,      \* history: how many texts were typed
    misled,     \* history: texts cleared by the answer to another one
    others, drops, reloads, failures   \* counters for the bounds

bounds == <<others, drops, reloads, failures>>
network == <<conn, toServer, toTab>>
tab == <<box, isPosting, toSend>>
vars == <<log, network, tab, loading, typed, misled, bounds>>

Stored == {log[i] : i \in DOMAIN log} \cap Texts

TypeOK ==
    /\ log \in Seq(Texts \cup {Other})
    /\ conn \in {"closed", "connecting", "open"}
    /\ toServer \in Seq(Texts)
    /\ toTab \in Seq(Texts)
    /\ box \in Texts \cup {None}
    /\ isPosting \in BOOLEAN
    /\ toSend \in Texts \cup {None}
    /\ isPosting <=> toSend # None
    /\ loading \in Nat
    /\ typed \in 0..NumTexts
    /\ misled \subseteq Texts

Init ==
    /\ log = <<>>
    /\ conn = "closed"
    /\ toServer = <<>>
    /\ toTab = <<>>
    /\ box = None
    /\ isPosting = FALSE
    /\ toSend = None
    /\ loading = 0
    /\ typed = 0
    /\ misled = {}
    /\ others = 0
    /\ drops = 0
    /\ reloads = 0
    /\ failures = 0

-----------------------------------------------------------------------------
(* The connection. *)

\* connectToWebSocket makes a new dispatcher, by timer or by the retry link.
connect ==
    /\ conn = "closed"
    /\ conn' = "connecting"
    /\ UNCHANGED <<log, toServer, toTab, tab, loading, typed, misled, bounds>>

\* on_open: the tab reloads its conversations.
on_open ==
    /\ conn = "connecting"
    /\ conn' = "open"
    /\ loading' = loading + 1
    /\ UNCHANGED <<log, toServer, toTab, tab, typed, misled, bounds>>

\* connection_closed: what was queued or under way is lost.
connection_closed ==
    /\ conn # "closed"
    /\ drops < MaxDrops
    /\ drops' = drops + 1
    /\ conn' = "closed"
    /\ toServer' = <<>>
    /\ toTab' = <<>>
    /\ UNCHANGED <<log, tab, loading, typed, misled, others, reloads, failures>>

-----------------------------------------------------------------------------
(* The tab. *)

\* The text area is enabled while nothing is being posted on an open connection.
Type ==
    /\ conn = "open" /\ ~isPosting
    /\ box = None
    /\ typed < NumTexts
    /\ typed' = typed + 1
    /\ box' = typed'
    /\ UNCHANGED <<log, network, isPosting, toSend, loading, misled, bounds>>

\* A dispatcher that is connecting queues; one that is closed never sends.
Trigger(text) ==
    toServer' = IF conn = "closed" THEN toServer ELSE Append(toServer, text)

addMessage ==
    /\ conn = "open" /\ ~isPosting
    /\ box # None
    /\ isPosting' = TRUE
    /\ toSend' = box
    /\ Trigger(box)
    /\ UNCHANGED <<log, conn, toTab, box, loading, typed, misled, bounds>>

\* The answer, created or conflict: the tab does not look for which text.
Posting == FALSE
Answered ==
    /\ conn = "open"
    /\ toTab # <<>>
    /\ toTab' = Tail(toTab)
    /\ toSend' = None
    /\ box' = None
    /\ isPosting' = Posting
    /\ misled' = IF box \in {None, Head(toTab)} THEN misled ELSE misled \cup {box}
    /\ UNCHANGED <<log, conn, toServer, loading, typed, bounds>>

\* Another reason to reload: a conversation was begun with the user.
newConversationHandler ==
    /\ conn = "open"
    /\ reloads < MaxReloads
    /\ reloads' = reloads + 1
    /\ loading' = loading + 1
    /\ UNCHANGED <<log, network, tab, typed, misled, others, drops, failures>>

\* The list came: reloadSelectedConversation sends again what is being posted,
\* answered or not on the way.
NoResend == UNCHANGED toServer
Resend ==
    IF isPosting /\ toSend # None THEN Trigger(toSend) ELSE UNCHANGED toServer

loadConversations ==
    /\ loading > 0
    /\ loading' = loading - 1
    /\ Resend
    /\ UNCHANGED <<log, conn, toTab, tab, typed, misled, bounds>>

\* The list did not come: nothing asks again.
LoadFails ==
    /\ loading > 0
    /\ failures < MaxFailures
    /\ failures' = failures + 1
    /\ loading' = loading - 1
    /\ UNCHANGED <<log, network, tab, typed, misled, others, drops, reloads>>

-----------------------------------------------------------------------------
(* The server. *)

Never(text) == FALSE
Conflict(text) == log # <<>> /\ log[Len(log)] = text

Receive(text) ==
    /\ conn = "open"
    /\ toServer # <<>>
    /\ text = Head(toServer)
    /\ toServer' = Tail(toServer)

Store(text) == log' = IF Conflict(text) THEN log ELSE Append(log, text)

post_message(text) ==
    /\ Receive(text)
    /\ Store(text)
    /\ toTab' = Append(toTab, text)
    /\ UNCHANGED <<conn, tab, loading, typed, misled, bounds>>

\* The handler raises, before or after storing: rescued, and never answered.
PostFails(text) ==
    /\ Receive(text)
    /\ failures < MaxFailures
    /\ failures' = failures + 1
    /\ Store(text) \/ UNCHANGED log
    /\ UNCHANGED <<conn, toTab, tab, loading, typed, misled, others, drops, reloads>>

\* The other member posts something.
OtherPosts ==
    /\ others < MaxOthers
    /\ others' = others + 1
    /\ log' = Append(log, Other)
    /\ UNCHANGED <<network, tab, loading, typed, misled, drops, reloads, failures>>

-----------------------------------------------------------------------------
Next ==
    \/ connect
    \/ on_open
    \/ connection_closed
    \/ Type
    \/ addMessage
    \/ Answered
    \/ newConversationHandler
    \/ loadConversations
    \/ LoadFails
    \/ \E text \in Texts : post_message(text) \/ PostFails(text)
    \/ OtherPosts

Spec == Init /\ [][Next]_vars

\* The tab reconnects by itself, the server handles what it receives, answers
\* and lists arrive.
Fairness ==
    /\ WF_vars(connect)
    /\ WF_vars(on_open)
    /\ WF_vars(loadConversations)
    /\ WF_vars(Answered)
    /\ WF_vars(\E text \in Texts : post_message(text))
FairSpec == Spec /\ Fairness

-----------------------------------------------------------------------------
\* However often a text is sent again, the user's messages are stored in the
\* order they were typed, and a text is stored a second time only if a message of
\* the other member came between.
StoredInOrder ==
    \A i, j \in DOMAIN log :
        i < j /\ log[i] \in Texts /\ log[j] \in Texts
        => \/ log[i] < log[j]
           \/ log[i] = log[j] /\ \E k \in (i + 1)..(j - 1) : log[k] = Other

\* The tab gives a text up only when it is stored, unless it took the answer to
\* a second copy of the text before for the answer to this one.
KeptUntilStored ==
    \A t \in 1..typed : t \in Stored \cup misled \/ t = box

\* Every text sent is stored in the end, if no list request or handler fails:
\* lost connections and answers are made up for by sending again.
Delivered ==
    \A t \in Texts : toSend = t ~> t \in Stored \cup misled \/ failures > 0

\* The text area is enabled again in the end, if no list request or handler
\* fails.
Released == isPosting ~> ~isPosting \/ failures > 0

=============================================================================
