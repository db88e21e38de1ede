-------------------------------- MODULE Tabs --------------------------------
(***************************************************************************)
(* What the tabs of a user send, side by side: a behaviour is one of         *)
(* MailSettings (profiles saved from several tabs) or of Delivery (a tab     *)
(* sends its texts over a connection that closes), and the other part stays  *)
(* as it starts.                                                             *)
(***************************************************************************)
EXTENDS MailSettings

CONSTANTS NumTexts, MaxOthers, MaxDrops, MaxReloads, MaxFailures

VARIABLES
    part,                                           \* the part that moves
    log, conn, toServer, toTab, box, isPosting, toSend, loading, typed, misled,
    others, drops, reloads, failures

dVars == <<log, conn, toServer, toTab, box, isPosting, toSend, loading, typed,
           misled, others, drops, reloads, failures>>
allVars == <<part, vars, dVars>>

D == INSTANCE Delivery

ASSUME TabsAssumption == D!DeliveryConstants

TabsInit == part \in {"profiles", "texts"} /\ Init /\ D!Init

TabsNext ==
    /\ UNCHANGED part
    /\ \/ /\ part = "profiles"
          /\ Next
          /\ UNCHANGED dVars
       \/ /\ part = "texts"
          /\ D!Next
          /\ UNCHANGED vars

\* The fairness of Delivery, for the behaviours that are its own.
Texting == part = "texts" /\ UNCHANGED <<part, vars>>

TabsSpec ==
    /\ TabsInit
    /\ [][TabsNext]_allVars
    /\ WF_allVars(Texting /\ D!connect)
    /\ WF_allVars(Texting /\ D!on_open)
    /\ WF_allVars(Texting /\ D!loadConversations)
    /\ WF_allVars(Texting /\ D!Answered)
    /\ WF_allVars(Texting /\ \E t \in D!Texts : D!post_message(t))

-----------------------------------------------------------------------------
(* The properties of Delivery.                                              *)

\* However often a text is sent again, texts are stored in the order they were
\* typed, and the tab gives a text up only when it is stored (post_message's
\* conflict check, reloadSelectedConversation, the answers of addMessage).
TextsAreKept == D!TypeOK /\ D!StoredInOrder /\ D!KeptUntilStored

\* If no list request or handler fails, every text sent is stored in the end
\* and the text area is enabled again (loadConversations, post_message).
TextsArrive == D!Delivered /\ D!Released
=============================================================================
