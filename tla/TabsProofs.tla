----------------------------- MODULE TabsProofs -----------------------------
(***************************************************************************)
(* What the browser's tabs rely on.  For any tabs, processes, texts and       *)
(* bounds: the settings are as the user chose them (MailSettings), texts are  *)
(* stored in order and not given up before that (Delivery), and the counters  *)
(* of connections, the online column and what the tabs show of it agree but   *)
(* for the exceptions their invariants name (Presence).                       *)
(***************************************************************************)
EXTENDS Tabs, Presence, Integers, Sequences, TLAPS

\* A process that is about to store a new row has built it from the defaults.
BuiltFromDefaults ==
    \A w \in Workers : at[w] = "write" /\ w \notin found => loaded[w] = Settings

\* A process that saves a profile has one.
SavesForATab == \A w \in Workers : at[w] # "idle" => source[w] \in Tabs

IInv == TypeOK /\ BuiltFromDefaults /\ SavesForATab /\ AsChosen

\* Setting by setting, an overlay is what it lays over in part, and is what it
\* was elsewhere (the columns a save writes and those it leaves).
LEMMA OverlayIs ==
    ASSUME NEW X, NEW values, NEW some, NEW s
    PROVE  s \in Overlay(X, values, some) <=>
              IF s \in some THEN s \in values ELSE s \in X
  BY DEF Overlay

\* The initial state: no row, everything allowed and wanted.
LEMMA InitHolds == Init => IInv
<1> SUFFICES ASSUME Init PROVE IInv
  OBVIOUS
<1>1. TypeOK
  <2>1. saves \in 0..MaxSaves
    BY MailSettingsAssumption DEF Init
  <2>2. given \in [Workers -> SUBSET Settings] /\ loaded \in [Workers -> SUBSET Settings]
    BY DEF Init
  <2> QED
    BY Zenon, <2>1, <2>2 DEF Init, TypeOK
<1>2. BuiltFromDefaults /\ SavesForATab
  BY DEF Init, BuiltFromDefaults, SavesForATab
<1>3. AsChosen
  BY Zenon DEF Init, AsChosen, Differing
<1> QED
  BY <1>1, <1>2, <1>3 DEF IInv

\* The type invariant and what it takes to build a row are kept by every step.
LEMMA TypesKept == IInv /\ [Next]_vars => TypeOK' /\ BuiltFromDefaults' /\ SavesForATab'
<1> SUFFICES ASSUME IInv, [Next]_vars
             PROVE  TypeOK' /\ BuiltFromDefaults' /\ SavesForATab'
  OBVIOUS
<1> USE MailSettingsAssumption DEF IInv, TypeOK, BuiltFromDefaults, SavesForATab, row, worker
<1>1. ASSUME NEW t \in Tabs, getData(t)
      PROVE  TypeOK' /\ BuiltFromDefaults' /\ SavesForATab'
  BY <1>1 DEF getData
<1>2. ASSUME NEW t \in Tabs, NEW s \in Changed, Toggle(t, s)
      PROVE  TypeOK' /\ BuiltFromDefaults' /\ SavesForATab'
  <2>1. Differing(form[t], {s}) \subseteq Settings
    BY DEF Differing
  <2> QED
    BY Zenon, <1>2, <2>1 DEF Toggle
<1>3. ASSUME NEW t \in Tabs, NEW w \in Workers, saveProfile(t, w)
      PROVE  TypeOK' /\ BuiltFromDefaults' /\ SavesForATab'
  BY <1>3 DEF saveProfile
<1>4. ASSUME NEW w \in Workers, Load(w)
      PROVE  TypeOK' /\ BuiltFromDefaults' /\ SavesForATab'
  <2>1. wanted' \subseteq Settings /\ outdated' \subseteq Settings
    BY <1>4 DEF Load, Overlay
  <2>2. ~stored => loaded'[w] = Settings
    BY <1>4 DEF Load
  <2>3. stored => w \in found'
    BY <1>4 DEF Load
  <2> QED
    BY Zenon, <1>4, <2>1, <2>2, <2>3 DEF Load
<1>5. ASSUME NEW w \in Workers, Write(w)
      PROVE  TypeOK' /\ BuiltFromDefaults' /\ SavesForATab'
  <2>1. wanted' \subseteq Settings /\ outdated' \subseteq Settings
    BY <1>5 DEF Write, Overlay, Differing
  <2>2. stored' = TRUE /\ setting' \subseteq Settings
    BY <1>5 DEF Write, Overlay, Stored
  <2> QED
    BY Zenon, <1>5, <2>1, <2>2 DEF Write, Return
<1>6. ASSUME NEW w \in Workers, Refused(w)
      PROVE  TypeOK' /\ BuiltFromDefaults' /\ SavesForATab'
  BY <1>6 DEF Refused, Return
<1>7. ASSUME NEW m \in Sent, Send(m) \/ unsubscribe(m)
      PROVE  TypeOK' /\ BuiltFromDefaults' /\ SavesForATab'
  BY <1>7 DEF Send, unsubscribe
<1>8. CASE UNCHANGED vars
  BY <1>8 DEF vars
<1> QED
  BY Zenon, <1>1, <1>2, <1>3, <1>4, <1>5, <1>6, <1>7, <1>8 DEF Next

\* Only loading and writing a row can part the settings from the choices.
LEMMA ChoicesKept == IInv /\ [Next]_vars => AsChosen'
<1> SUFFICES ASSUME IInv, [Next]_vars PROVE AsChosen'
  OBVIOUS
<1> USE DEF IInv, TypeOK, row, worker
<1>1. ASSUME NEW w \in Workers, Load(w) PROVE AsChosen'
  <2>1. PICK made : /\ made = IF stored THEN Chosen(w) \ Differing(given[w], setting) ELSE {}
                    /\ wanted' = Overlay(wanted, given[w], made)
                    /\ outdated' = outdated \ made
                    /\ setting' = setting
    BY <1>1 DEF Load
  <2>2. ASSUME NEW s, s \in made PROVE s \in setting <=> s \in given[w]
    BY <2>1, <2>2 DEF Differing
  <2>3. ASSUME NEW s, s \in Differing(setting, wanted'), s \in made PROVE FALSE
    BY <2>1, <2>2, <2>3, OverlayIs DEF Differing
  <2>4. ASSUME NEW s, s \in Differing(setting, wanted'), s \notin made
        PROVE  s \in outdated'
    BY <2>1, <2>4, OverlayIs DEF Differing, AsChosen
  <2> QED
    BY Zenon, <2>1, <2>3, <2>4 DEF AsChosen
<1>2. ASSUME NEW w \in Workers, Write(w) PROVE AsChosen'
  <2>1. PICK d, made : /\ d = Differing(given[w], loaded[w])
                       /\ made = Chosen(w) \cap d
                       /\ setting' = Overlay(setting, given[w], Written(w))
                       /\ wanted' = Overlay(wanted, given[w], made)
                       /\ outdated' = (outdated \ made) \cup (d \ made)
    BY <1>2 DEF Write
  <2> SUFFICES ASSUME NEW s, s \in Differing(setting', wanted') PROVE s \in outdated'
    BY DEF AsChosen
  <2>2. CASE s \in d \ made
    BY <2>1, <2>2
  <2>3. CASE s \in made
    <3>1. s \in Written(w)
      BY <2>1, <2>3 DEF Written, Differing
    <3> QED
      BY <2>1, <2>3, <3>1, OverlayIs DEF Differing
  <2>4. CASE s \notin d
    <3>1. s \in wanted' <=> s \in wanted
      BY <2>1, <2>4, OverlayIs
    <3>2. s \in setting' <=> s \in setting
      <4>1. CASE w \in found
        BY <2>1, <2>4, <4>1, OverlayIs DEF Written
      <4>2. CASE w \notin found
        <5>1. setting = Settings /\ loaded[w] = Settings
          BY <1>2, <4>2 DEF Write, BuiltFromDefaults
        <5>2. s \in given[w] <=> s \in Settings
          BY <2>1, <2>4, <5>1 DEF Differing
        <5> QED
          BY <2>1, <4>2, <5>1, <5>2, OverlayIs DEF Written
      <4> QED
        BY <4>1, <4>2
    <3>3. s \in outdated
      BY <3>1, <3>2 DEF AsChosen, Differing
    <3> QED
      BY <2>1, <2>4, <3>3
  <2> QED
    BY <2>2, <2>3, <2>4
<1>3. CASE UNCHANGED <<setting, wanted, outdated>>
  BY <1>3 DEF AsChosen
<1>4. ASSUME NEW t \in Tabs, getData(t) \/ \E s \in Changed : Toggle(t, s)
      PROVE  AsChosen'
  BY Zenon, <1>3, <1>4 DEF getData, Toggle
<1>5. ASSUME NEW t \in Tabs, NEW w \in Workers, saveProfile(t, w) PROVE AsChosen'
  BY <1>3, <1>5 DEF saveProfile
<1>6. ASSUME NEW w \in Workers, Refused(w) PROVE AsChosen'
  BY <1>3, <1>6 DEF Refused
<1>7. ASSUME NEW m \in Sent, Send(m) \/ unsubscribe(m) PROVE AsChosen'
  BY <1>3, <1>7 DEF Send, unsubscribe
<1>8. CASE UNCHANGED vars
  BY <1>3, <1>8 DEF vars
<1> QED
  BY <1>1, <1>2, <1>4, <1>5, <1>6, <1>7, <1>8 DEF Next

\* The inductive invariant.
THEOREM Inductive == Spec => []IInv
<1>1. IInv /\ [Next]_vars => IInv'
  BY TypesKept, ChoicesKept DEF IInv
<1> QED
  BY InitHolds, <1>1, PTL DEF Spec

\* The state is of its type; without a row every setting is on (update).
THEOREM Typed == Spec => []TypeOK
<1>1. IInv => TypeOK
  BY DEF IInv
<1> QED
  BY Inductive, <1>1, PTL

\* Every setting is as the user chose it last, unless an older tab sent its old
\* value along, for any number of tabs and overlapping updates.
THEOREM ChoicesStand == Spec => []AsChosen
<1>1. IInv => AsChosen
  BY DEF IInv
<1> QED
  BY Inductive, <1>1, PTL

-----------------------------------------------------------------------------
\* The text area holds the text typed last, and that is the one being posted.
LatestOnly == box \in {D!None, typed} /\ toSend \in {D!None, box}

\* Texts reach the server in the order they were typed, after those stored.
SentInOrder ==
    /\ \A i \in DOMAIN toServer : toServer[i] <= typed
    /\ \A i, j \in DOMAIN toServer : i < j => toServer[i] <= toServer[j]
    /\ \A i \in DOMAIN log : log[i] \in D!Texts => log[i] <= typed
    /\ \A i \in DOMAIN log, j \in DOMAIN toServer : log[i] \in D!Texts => log[i] <= toServer[j]

\* Only what is stored is answered.
AnsweredStored == \A i \in DOMAIN toTab : toTab[i] \in D!Stored

TextsInv ==
    /\ D!TypeOK /\ D!StoredInOrder /\ D!KeptUntilStored
    /\ LatestOnly /\ SentInOrder /\ AnsweredStored

\* The texts are numbers, and told apart from none and from the messages of others.
LEMMA Numbers ==
    ASSUME D!DeliveryConstants
    PROVE  /\ NumTexts \in Nat /\ D!Texts \subseteq Nat /\ D!Other \in Nat
           /\ D!None \notin D!Texts /\ D!Other \notin D!Texts
    BY DEF D!DeliveryConstants, D!None, D!Texts, D!Other

\* An empty conversation and no connection.
LEMMA TextsInit ==
    ASSUME D!DeliveryConstants, D!Init
    PROVE  TextsInv
<1>1. D!TypeOK /\ LatestOnly
    <2>1. 0 \in 0..NumTexts /\ D!None \notin D!Texts
        BY Numbers
    <2>2. <<>> \in Seq(D!Texts) /\ <<>> \in Seq(D!Texts \cup {D!Other})
        OBVIOUS
    <2> QED
        BY Zenon, <2>1, <2>2 DEF D!Init, D!TypeOK, LatestOnly
<1>2. D!StoredInOrder /\ SentInOrder /\ AnsweredStored /\ D!KeptUntilStored
    BY DEF D!Init, D!StoredInOrder, SentInOrder, AnsweredStored, D!KeptUntilStored
<1> QED
    BY <1>1, <1>2 DEF TextsInv

\* A handler stores a text after all that was typed before, and not twice in a row.
LEMMA StoreKeeps ==
    ASSUME D!DeliveryConstants, TextsInv, NEW text \in D!Texts, toServer # <<>>,
           text = Head(toServer), D!Store(text)
    PROVE  /\ log' \in Seq(D!Texts \cup {D!Other}) /\ D!StoredInOrder'
           /\ D!Stored \cup {text} \subseteq D!Stored'
           /\ \A i \in DOMAIN log' : log'[i] \in D!Texts =>
                 log'[i] <= typed /\ \A j \in DOMAIN toServer : log'[i] <= toServer[j]
<1>0. /\ D!Texts \subseteq Nat /\ D!Other \notin D!Texts
      /\ log \in Seq(D!Texts \cup {D!Other}) /\ toServer \in Seq(D!Texts)
    BY Numbers DEF TextsInv, D!TypeOK
<1>1. /\ 1 \in DOMAIN toServer /\ text = toServer[1] /\ text <= typed
      /\ \A j \in DOMAIN toServer : text <= toServer[j]
    <2>1. Len(toServer) \in Nat \ {0} /\ DOMAIN toServer = 1..Len(toServer) /\ text = toServer[1]
        BY <1>0
    <2>2. \A j \in DOMAIN toServer : toServer[j] \in Nat
        <3>1. \A j \in 1..Len(toServer) : toServer[j] \in D!Texts
            BY <1>0
        <3> QED
            BY Zenon, <1>0, <2>1, <3>1
    <2>3. ASSUME NEW j \in DOMAIN toServer PROVE text <= toServer[j]
        <3>1. CASE j = 1
            BY <2>1, <2>2, <3>1
        <3>2. CASE j # 1
            BY <2>1, <3>2 DEF TextsInv, SentInOrder
        <3> QED
            BY <3>1, <3>2
    <2> QED
        BY <2>1, <2>3 DEF TextsInv, SentInOrder
<1>2. CASE D!Conflict(text)
    <2>1. log' = log /\ Len(log) \in DOMAIN log /\ log[Len(log)] = text
        BY <1>0, <1>2 DEF D!Store, D!Conflict
    <2> QED
        BY <1>0, <2>1 DEF TextsInv, SentInOrder, D!StoredInOrder, D!Stored, D!TypeOK
<1>3. CASE ~D!Conflict(text)
    <2>1. log' = Append(log, text)
        BY <1>3 DEF D!Store
    <2>2. /\ log' \in Seq(D!Texts \cup {D!Other}) /\ Len(log') = Len(log) + 1 /\ Len(log) \in Nat
          /\ \A i \in DOMAIN log : log'[i] = log[i]
          /\ log'[Len(log) + 1] = text
          /\ DOMAIN log' = 1..(Len(log) + 1) /\ DOMAIN log = 1..Len(log)
        BY <1>0, <2>1
    <2>3. \A i \in DOMAIN log' : log'[i] \in D!Texts =>
              log'[i] <= typed /\ \A j \in DOMAIN toServer : log'[i] <= toServer[j]
        BY <1>1, <2>2 DEF TextsInv, SentInOrder
    <2>4. D!Stored \cup {text} \subseteq D!Stored'
        BY <2>2 DEF D!Stored
    <2>5. ASSUME NEW i \in 1..Len(log), log[i] \in D!Texts
          PROVE  \/ log[i] < text
                 \/ log[i] = text /\ i < Len(log) /\ log[Len(log)] = D!Other
        <3>1. log[i] \in Nat /\ text \in Nat /\ log[i] <= text
            BY Zenon, <1>0, <1>1, <2>2, <2>5 DEF TextsInv, SentInOrder
        <3>2. Len(log) \in 1..Len(log) /\ log[Len(log)] # text
            BY <1>3, <2>2 DEF D!Conflict
        <3>3. CASE log[i] = text
            <4>1. i < Len(log)
                BY <3>2, <3>3, <2>2
            <4>2. CASE log[Len(log)] \in D!Texts
                <5>1. \/ log[i] < log[Len(log)]
                      \/ log[i] = log[Len(log)]
                    BY <2>2, <2>5, <3>2, <4>1, <4>2 DEF TextsInv, D!StoredInOrder
                <5>2. log[Len(log)] <= text /\ log[Len(log)] \in Nat
                    BY Zenon, <1>0, <1>1, <2>2, <3>2, <4>2 DEF TextsInv, SentInOrder
                <5> QED
                    BY <3>1, <3>2, <3>3, <5>1, <5>2
            <4>3. CASE log[Len(log)] \notin D!Texts
                BY <1>0, <2>2, <3>2, <3>3, <4>1, <4>3
            <4> QED
                BY <4>2, <4>3
        <3> QED
            BY <3>1, <3>3
    <2>6. ASSUME NEW i \in DOMAIN log', NEW j \in DOMAIN log', i < j,
                 log'[i] \in D!Texts, log'[j] \in D!Texts
          PROVE  \/ log'[i] < log'[j]
                 \/ log'[i] = log'[j] /\ \E k \in (i + 1)..(j - 1) : log'[k] = D!Other
        <3>1. CASE j \in DOMAIN log
            <4>1. i \in DOMAIN log /\ log'[i] = log[i] /\ log'[j] = log[j]
                BY <2>2, <2>6, <3>1
            <4>2. \/ log[i] < log[j]
                  \/ log[i] = log[j] /\ \E k \in (i + 1)..(j - 1) : log[k] = D!Other
                BY <2>6, <3>1, <4>1 DEF TextsInv, D!StoredInOrder
            <4>3. \A k \in (i + 1)..(j - 1) : log'[k] = log[k]
                BY <2>2, <3>1, <4>1
            <4> QED
                BY <4>1, <4>2, <4>3
        <3>2. CASE j \notin DOMAIN log
            <4>1. j = Len(log) + 1 /\ i \in 1..Len(log) /\ log'[j] = text /\ log'[i] = log[i]
                BY <2>2, <2>6, <3>2
            <4>2. CASE log[i] < text
                BY <4>1, <4>2
            <4>3. CASE log[i] = text /\ i < Len(log) /\ log[Len(log)] = D!Other
                <5>1. Len(log) \in (i + 1)..(j - 1) /\ log'[Len(log)] = D!Other
                    BY <2>2, <4>1, <4>3
                <5> QED
                    BY <4>1, <4>3, <5>1
            <4> QED
                BY Zenon, <2>5, <2>6, <4>1, <4>2, <4>3
        <3> QED
            BY <3>1, <3>2
    <2>7. D!StoredInOrder'
        BY <2>6 DEF D!StoredInOrder
    <2> QED
        BY <2>2, <2>3, <2>4, <2>7
<1> QED
    BY <1>2, <1>3

\* What a text sent at the end of the queue is: the last one typed.
LEMMA SendKeeps ==
    ASSUME D!DeliveryConstants, TextsInv, NEW text \in D!Texts, text = typed,
           toServer' = toServer \/ toServer' = Append(toServer, text), UNCHANGED <<log, typed>>
    PROVE  toServer' \in Seq(D!Texts) /\ SentInOrder'
<1>0. D!Texts \subseteq Nat /\ toServer \in Seq(D!Texts) /\ log \in Seq(D!Texts \cup {D!Other})
    BY Numbers DEF TextsInv, D!TypeOK
<1>1. CASE toServer' = toServer
    BY <1>0, <1>1 DEF TextsInv, SentInOrder
<1>2. CASE toServer' = Append(toServer, text)
    <2>1. /\ toServer' \in Seq(D!Texts) /\ DOMAIN toServer = 1..Len(toServer)
          /\ Len(toServer) \in Nat
          /\ DOMAIN toServer' = 1..(Len(toServer) + 1) /\ toServer'[Len(toServer) + 1] = text
          /\ \A i \in DOMAIN toServer : toServer'[i] = toServer[i]
        BY <1>0, <1>2
    <2>2. \A i \in DOMAIN toServer' : toServer'[i] <= typed'
        BY <1>0, <2>1 DEF TextsInv, SentInOrder
    <2>3. \A i, j \in DOMAIN toServer' : i < j => toServer'[i] <= toServer'[j]
        BY <1>0, <2>1 DEF TextsInv, SentInOrder
    <2>4. \A i \in DOMAIN log', j \in DOMAIN toServer' :
              log'[i] \in D!Texts => log'[i] <= toServer'[j]
        BY <1>0, <2>1 DEF TextsInv, SentInOrder
    <2> QED
        BY <2>1, <2>2, <2>3, <2>4 DEF TextsInv, SentInOrder
<1> QED
    BY <1>1, <1>2

\* What remains of the queue is still in order.
LEMMA RestKeeps ==
    ASSUME D!DeliveryConstants, TextsInv, toServer # <<>>, toServer' = Tail(toServer),
           UNCHANGED typed,
           \A i \in DOMAIN log' : log'[i] \in D!Texts =>
               log'[i] <= typed /\ \A j \in DOMAIN toServer : log'[i] <= toServer[j]
    PROVE  toServer' \in Seq(D!Texts) /\ SentInOrder'
<1>0. D!Texts \subseteq Nat /\ toServer \in Seq(D!Texts)
    BY Numbers DEF TextsInv, D!TypeOK
<1>1. /\ toServer' \in Seq(D!Texts) /\ DOMAIN toServer = 1..Len(toServer)
      /\ Len(toServer) \in Nat \ {0}
      /\ DOMAIN toServer' = 1..(Len(toServer) - 1)
      /\ \A i \in DOMAIN toServer' : toServer'[i] = toServer[i + 1]
    BY <1>0
<1>2. \A i \in DOMAIN toServer' : i + 1 \in DOMAIN toServer
    BY <1>1
<1>3. \A i, j \in DOMAIN toServer' : i < j => toServer'[i] <= toServer'[j]
    BY <1>1, <1>2 DEF TextsInv, SentInOrder
<1> QED
    BY <1>1, <1>2, <1>3 DEF TextsInv, SentInOrder

\* Every action of the tab, the connection and the server keeps the invariant.
LEMMA TextsNext ==
    ASSUME D!DeliveryConstants, TextsInv, [D!Next]_(D!vars)
    PROVE  TextsInv'
<1> USE DEF D!network, D!tab, D!bounds
<1>0. /\ NumTexts \in Nat /\ D!None \notin D!Texts /\ D!Other \notin D!Texts
      /\ D!Texts \subseteq Nat /\ D!Texts = 1..NumTexts
      /\ D!None = 0 /\ D!TypeOK
    BY Zenon, Numbers DEF TextsInv, D!Texts, D!None
<1>1. CASE /\ UNCHANGED <<log, toServer, toTab, box, isPosting, toSend, typed, misled>>
           /\ conn' \in {"closed", "connecting", "open"} /\ loading' \in Nat
    BY <1>1 DEF TextsInv, D!TypeOK, D!StoredInOrder, D!KeptUntilStored, LatestOnly, SentInOrder,
           AnsweredStored, D!Stored
<1>2. CASE D!connect \/ D!on_open \/ D!newConversationHandler \/ D!LoadFails
    BY <1>0, <1>1, <1>2 DEF D!TypeOK, D!connect, D!on_open, D!newConversationHandler, D!LoadFails
<1>3. CASE D!connection_closed
    <2>1. /\ UNCHANGED <<log, box, isPosting, toSend, typed, misled, loading>> /\ conn' = "closed"
          /\ toServer' = <<>> /\ toTab' = <<>>
        BY <1>3 DEF D!connection_closed
    <2> QED
        BY <2>1 DEF TextsInv, D!TypeOK, D!StoredInOrder, D!KeptUntilStored, LatestOnly,
               SentInOrder, AnsweredStored, D!Stored
<1>4. CASE D!Type
    <2>1. /\ UNCHANGED <<log, conn, toServer, toTab, isPosting, toSend, loading, misled>>
          /\ box = D!None /\ ~isPosting /\ typed \in 0..(NumTexts - 1) /\ typed' = typed + 1
          /\ box' = typed + 1
        BY <1>0, <1>4 DEF D!Type, D!TypeOK
    <2>2. D!TypeOK' /\ D!StoredInOrder' /\ AnsweredStored'
        BY <1>0, <2>1 DEF TextsInv, D!TypeOK, D!StoredInOrder, AnsweredStored, D!Stored
    <2>3. LatestOnly'
        BY <1>0, <2>1 DEF D!TypeOK, LatestOnly
    <2>4. D!KeptUntilStored'
        BY <1>0, <2>1 DEF TextsInv, D!KeptUntilStored, D!Stored
    <2>5. SentInOrder'
        <3>1. /\ \A i \in DOMAIN toServer : toServer[i] \in Nat
              /\ \A i \in DOMAIN log : log[i] \in D!Texts => log[i] \in Nat
            BY <1>0 DEF D!TypeOK
        <3> QED
            BY <1>0, <2>1, <3>1 DEF TextsInv, SentInOrder
    <2> QED
        BY <2>2, <2>3, <2>4, <2>5 DEF TextsInv
<1>5. CASE D!addMessage
    <2>1. /\ UNCHANGED <<log, conn, toTab, box, loading, typed, misled>> /\ isPosting' = TRUE
          /\ toSend' = box
          /\ box \in D!Texts /\ box = typed
          /\ toServer' = toServer \/ toServer' = Append(toServer, box)
        BY <1>0, <1>5 DEF TextsInv, D!TypeOK, LatestOnly, D!addMessage, D!Trigger
    <2>2. toServer' \in Seq(D!Texts) /\ SentInOrder'
        BY <2>1, SendKeeps
    <2>3. D!TypeOK' /\ LatestOnly'
        BY Zenon, <1>0, <2>1, <2>2 DEF D!TypeOK, LatestOnly
    <2> QED
        BY <2>1, <2>2, <2>3 DEF TextsInv, D!StoredInOrder, D!KeptUntilStored, AnsweredStored,
               D!Stored
<1>6. CASE D!Answered
    <2>1. /\ UNCHANGED <<log, conn, toServer, loading, typed>> /\ toTab # <<>>
          /\ toTab' = Tail(toTab)
          /\ toSend' = D!None /\ box' = D!None /\ isPosting' = FALSE
          /\ misled' = IF box \in {D!None, Head(toTab)} THEN misled ELSE misled \cup {box}
        BY <1>6 DEF D!Answered, D!Posting
    <2>2. /\ toTab' \in Seq(D!Texts) /\ Head(toTab) \in D!Stored
          /\ \A i \in DOMAIN toTab' : toTab'[i] \in D!Stored
        <3>1. /\ toTab \in Seq(D!Texts) /\ 1 \in DOMAIN toTab /\ Head(toTab) = toTab[1]
              /\ toTab' \in Seq(D!Texts)
              /\ \A i \in DOMAIN toTab' : i + 1 \in DOMAIN toTab /\ toTab'[i] = toTab[i + 1]
            BY <1>0, <2>1 DEF D!TypeOK
        <3> QED
            BY <3>1 DEF TextsInv, AnsweredStored
    <2>3. /\ misled \subseteq misled' /\ misled' \subseteq D!Texts
          /\ box # D!None => box \in D!Stored \cup misled'
        BY Zenon, <1>0, <2>1, <2>2 DEF D!TypeOK
    <2>4. D!TypeOK' /\ LatestOnly'
        BY Zenon, <1>0, <2>1, <2>2, <2>3 DEF D!TypeOK, LatestOnly
    <2>5. D!KeptUntilStored'
        BY Zenon, <1>0, <2>1, <2>3 DEF TextsInv, D!KeptUntilStored, D!Stored
    <2> QED
        BY <2>1, <2>2, <2>4, <2>5 DEF TextsInv, D!StoredInOrder, SentInOrder, AnsweredStored,
               D!Stored
<1>7. CASE D!loadConversations
    <2>1. /\ UNCHANGED <<log, conn, toTab, box, isPosting, toSend, typed, misled>>
          /\ loading' \in Nat
          /\ \/ toServer' = toServer
             \/ toSend # D!None /\ toServer' = Append(toServer, toSend)
        BY <1>0, <1>7 DEF D!loadConversations, D!Resend, D!Trigger, D!TypeOK
    <2>2. toSend # D!None => toSend \in D!Texts /\ toSend = typed
        BY <1>0 DEF TextsInv, D!TypeOK, LatestOnly
    <2>3. toServer' \in Seq(D!Texts) /\ SentInOrder'
        <3>1. CASE toServer' = toServer
            BY <1>0, <2>1, <3>1 DEF TextsInv, D!TypeOK, SentInOrder
        <3>2. CASE toSend # D!None /\ toServer' = Append(toServer, toSend)
            BY <2>1, <2>2, <3>2, SendKeeps
        <3> QED
            BY Zenon, <2>1, <3>1, <3>2
    <2> QED
        BY <2>1, <2>3 DEF TextsInv, D!TypeOK, D!StoredInOrder, D!KeptUntilStored, LatestOnly,
               AnsweredStored, D!Stored
<1>8. ASSUME NEW text \in D!Texts, D!post_message(text) \/ D!PostFails(text)
      PROVE  TextsInv'
    <2>1. /\ UNCHANGED <<conn, box, isPosting, toSend, loading, typed, misled>> /\ toServer # <<>>
          /\ text = Head(toServer) /\ toServer' = Tail(toServer)
          /\ \/ D!Store(text) /\ toTab' \in {toTab, Append(toTab, text)}
             \/ log' = log /\ toTab' = toTab
        BY Zenon, <1>8 DEF D!post_message, D!PostFails, D!Receive
    <2>2. /\ log' \in Seq(D!Texts \cup {D!Other}) /\ D!StoredInOrder'
          /\ D!Stored \subseteq D!Stored'
          /\ \A i \in DOMAIN log' : log'[i] \in D!Texts =>
                 log'[i] <= typed /\ \A j \in DOMAIN toServer : log'[i] <= toServer[j]
        <3>1. CASE D!Store(text)
            BY Zenon, <2>1, <3>1, StoreKeeps
        <3>2. CASE log' = log
            BY <1>0, <3>2 DEF TextsInv, D!TypeOK, D!StoredInOrder, SentInOrder, D!Stored
        <3> QED
            BY Zenon, <2>1, <3>1, <3>2
    <2>3. toServer' \in Seq(D!Texts) /\ SentInOrder'
        BY <2>1, <2>2, RestKeeps
    <2>4. toTab' \in Seq(D!Texts) /\ AnsweredStored'
        <3>1. CASE toTab' = toTab
            BY Zenon, <1>0, <2>2, <3>1 DEF TextsInv, D!TypeOK, AnsweredStored
        <3>2. CASE D!Store(text) /\ toTab' = Append(toTab, text)
            <4>1. text \in D!Stored'
                BY Zenon, <2>1, <3>2, StoreKeeps
            <4>2. /\ toTab \in Seq(D!Texts) /\ toTab' \in Seq(D!Texts)
                  /\ \A i \in DOMAIN toTab' :
                       toTab'[i] = text \/ (i \in DOMAIN toTab /\ toTab'[i] = toTab[i])
                BY <1>0, <3>2 DEF D!TypeOK
            <4> QED
                BY <2>2, <4>1, <4>2 DEF TextsInv, AnsweredStored
        <3> QED
            BY Zenon, <2>1, <3>1, <3>2
    <2>5. D!KeptUntilStored'
        BY Zenon, <2>1, <2>2 DEF TextsInv, D!KeptUntilStored
    <2> QED
        BY Zenon, <1>0, <2>1, <2>2, <2>3, <2>4, <2>5 DEF TextsInv, D!TypeOK, LatestOnly
<1>9. CASE D!OtherPosts
    <2>1. /\ UNCHANGED <<conn, toServer, toTab, box, isPosting, toSend, loading, typed, misled>>
          /\ log' = Append(log, D!Other)
        BY <1>9 DEF D!OtherPosts
    <2>2. /\ log' \in Seq(D!Texts \cup {D!Other}) /\ Len(log) \in Nat
          /\ DOMAIN log = 1..Len(log) /\ DOMAIN log' = 1..(Len(log) + 1)
          /\ \A i \in DOMAIN log : log'[i] = log[i]
          /\ log'[Len(log) + 1] \notin D!Texts
        BY <1>0, <2>1 DEF D!TypeOK
    <2>3. D!Stored \subseteq D!Stored'
        BY Zenon, <2>2 DEF D!Stored
    <2>4. D!StoredInOrder'
        <3> SUFFICES ASSUME NEW i \in DOMAIN log', NEW j \in DOMAIN log', i < j,
                            log'[i] \in D!Texts, log'[j] \in D!Texts
                     PROVE  \/ log'[i] < log'[j]
                            \/ log'[i] = log'[j] /\ \E k \in (i + 1)..(j - 1) : log'[k] = D!Other
            BY DEF D!StoredInOrder
        <3>1. i \in DOMAIN log /\ j \in DOMAIN log
            BY <2>2
        <3>2. \/ log[i] < log[j]
              \/ log[i] = log[j] /\ \E k \in (i + 1)..(j - 1) : log[k] = D!Other
            BY Zenon, <2>2, <3>1 DEF TextsInv, D!StoredInOrder
        <3>3. \A k \in (i + 1)..(j - 1) : log'[k] = log[k]
            BY <2>2, <3>1
        <3> QED
            BY <2>2, <3>1, <3>2, <3>3
    <2>5. SentInOrder'
        BY <2>1, <2>2 DEF TextsInv, SentInOrder
    <2> QED
        BY <2>1, <2>2, <2>3, <2>4, <2>5 DEF TextsInv, D!TypeOK, D!KeptUntilStored, LatestOnly,
               AnsweredStored
<1>10. CASE UNCHANGED D!vars
    BY <1>0, <1>1, <1>10 DEF D!vars, D!TypeOK
<1> QED
    BY <1>2, <1>3, <1>4, <1>5, <1>6, <1>7, <1>8, <1>9, <1>10 DEF D!Next

\* Texts are stored in the order they were typed and kept by the tab until they
\* are, however often connections close and texts are sent again.
THEOREM TextsStay == D!Spec => []TextsAreKept
<1>1. D!Init => TextsInv
    BY TabsAssumption, TextsInit
<1>2. TextsInv /\ [D!Next]_(D!vars) => TextsInv'
    BY TabsAssumption, TextsNext
<1>3. TextsInv => TextsAreKept
    BY DEF TextsInv, TextsAreKept
<1> QED
    BY <1>1, <1>2, <1>3, PTL DEF D!Spec

\* Both parts of the tabs, side by side.
THEOREM TabsAreSafe == TabsSpec => []AsChosen /\ []TextsAreKept
<1>1. TabsInit => Init /\ D!Init
    BY Zenon DEF TabsInit
<1>2. [TabsNext]_allVars => [Next]_vars /\ [D!Next]_(D!vars)
    BY Zenon DEF TabsNext, allVars, dVars, D!vars, D!network, D!tab, D!bounds
<1> QED
    BY <1>1, <1>2, ChoicesStand, TextsStay, PTL DEF TabsSpec, Spec, D!Spec

-----------------------------------------------------------------------------
(* Who is online, for any users and any finite set of connections.           *)

\* What the proofs use about the sizes of finite sets.
Sizes ==
    /\ Cardinality({}) = 0
    /\ \A S : IsFiniteSet(S) => Cardinality(S) \in Nat /\ (Cardinality(S) = 0 <=> S = {})
    /\ \A S, T : IsFiniteSet(T) /\ S \subseteq T => IsFiniteSet(S)
    /\ \A S, x : IsFiniteSet(S) /\ x \notin S =>
          Cardinality(S \cup {x}) = Cardinality(S) + 1
    /\ \A S, x : IsFiniteSet(S) /\ x \in S => Cardinality(S \ {x}) = Cardinality(S) - 1

\* Only an open connection watches anybody, and a server that is down has none.
Quiet ==
    /\ \A c \in Conns : link[c] # "open" => watched[c] = {}
    /\ server = "down" => \A c \in Conns : link[c] = "closed"

\* What the handlers of the websocket server keep together.
PresenceInv ==
    /\ PresenceTypeOK
    /\ Quiet
    /\ NeverOvercounted
    /\ ExactUnlessRefused
    /\ ColumnFollowsCounter
    /\ ShownAreOnline

\* Every handler and every part of the restart keeps the variables typed: in
\* particular the clamp of user_disconnected keeps the counters natural.
LEMMA PresenceTypes ==
    PresenceTypeOK /\ [PresenceNext]_presenceVars => PresenceTypeOK'
<1> SUFFICES ASSUME PresenceTypeOK, [PresenceNext]_presenceVars PROVE PresenceTypeOK'
    BY Zenon
<1> USE DEF PresenceTypeOK
<1>1. ASSUME NEW c \in Conns, NEW cookie \in Users \cup {Nobody},
             NEW param \in Users, user_connected(c, cookie, param)
      PROVE  PresenceTypeOK'
    BY <1>1 DEF user_connected, CountUp, SentConnected, Channel
<1>2. ASSUME NEW c \in Conns, user_disconnected(c)
      PROVE  PresenceTypeOK'
    <2> DEFINE me == session[c]
    <2>0. me \in Users
        BY <1>2 DEF user_disconnected
    <2>1. connected_users' \in [Users -> Nat]
        <3>1. CountDown(me) \in Nat
            BY <2>0 DEF CountDown
        <3> HIDE DEF me
        <3>2. connected_users' = [connected_users EXCEPT ![me] = CountDown(me)]
            BY <1>2 DEF user_disconnected, me
        <3> QED
            BY <2>0, <3>1, <3>2
    <2>2. shown' \in [Conns -> SUBSET Users]
        <3>1. SentDisconnected(me) \in [Conns -> SUBSET Users]
            BY Zenon DEF SentDisconnected
        <3>2. \/ shown' = [SentDisconnected(me) EXCEPT ![c] = {}]
              \/ shown' = [shown EXCEPT ![c] = {}]
            BY Zenon, <1>2 DEF user_disconnected
        <3> QED
            BY Zenon, <3>1, <3>2
    <2>3. /\ online' \subseteq Users
          /\ leftover' \subseteq Users
          /\ hidden' \subseteq Users
        BY Zenon, <1>2 DEF user_disconnected
    <2>4. refused' \subseteq Users
        BY Zenon, <1>2, <2>0 DEF user_disconnected
    <2> QED
        BY Zenon, <1>2, <2>1, <2>2, <2>3, <2>4 DEF user_disconnected
<1>3. ASSUME NEW c \in Conns, NEW W \in SUBSET Users, watch_users_status(c, W)
      PROVE  PresenceTypeOK'
    BY Zenon, <1>3 DEF watch_users_status, Channel
<1>4. CASE Crash
    BY Zenon, <1>4 DEF Crash, ServerGone
<1>5. CASE MonitStart
    BY Zenon, <1>5 DEF MonitStart, initialize_session, EmptyCounters
<1>6. CASE RestartStop
    BY Zenon, <1>6 DEF RestartStop, ServerGone
<1>7. CASE RestartClear
    BY Zenon, <1>7 DEF RestartClear, get_online_users_ids
<1>8. CASE RestartStart
    BY <1>8 DEF RestartStart, initialize_session, EmptyCounters
<1>9. CASE UNCHANGED presenceVars
    BY Zenon, <1>9 DEF presenceVars
<1> QED
    BY Zenon, <1>1, <1>2, <1>3, <1>4, <1>5, <1>6, <1>7, <1>8, <1>9 DEF PresenceNext

\* The number of open connections of a user is a natural number, since there are
\* finitely many connections.
LEMMA LinksFinite ==
    ASSUME Sizes, IsFiniteSet(Conns), NEW u
    PROVE  IsFiniteSet(Links(u)) /\ Cardinality(Links(u)) \in Nat
BY Zenon DEF Links, Sizes

\* A connection whose key user_connected accepts is one link more for its user
\* and changes nobody else's links; a refused one changes no links at all.
LEMMA LinksConnected ==
    ASSUME Sizes, IsFiniteSet(Conns), PresenceTypeOK, NEW c \in Conns, NEW cookie \in Users \cup {Nobody},
           NEW param \in Users, user_connected(c, cookie, param),
           NEW u \in Users
    PROVE  Cardinality(Links(u))' =
             IF link'[c] = "open" /\ session'[c] = u
             THEN Cardinality(Links(u)) + 1 ELSE Cardinality(Links(u))
<1>1. c \notin Links(u)
    BY Zenon DEF user_connected, Links
<1>2. Links(u)' = IF link'[c] = "open" /\ session'[c] = u
                  THEN Links(u) \cup {c} ELSE Links(u)
    BY DEF user_connected, Links, PresenceTypeOK
<1> QED
    BY Zenon, <1>1, <1>2, LinksFinite DEF Sizes

\* An open connection that ends is one link less for its user and changes
\* nobody else's links; the end of a refused one changes no links at all.
LEMMA LinksDisconnected ==
    ASSUME Sizes, IsFiniteSet(Conns), PresenceTypeOK, NEW c \in Conns, user_disconnected(c), NEW u \in Users
    PROVE  Cardinality(Links(u))' =
             IF link[c] = "open" /\ session[c] = u
             THEN Cardinality(Links(u)) - 1 ELSE Cardinality(Links(u))
<1>1. Links(u)' = Links(u) \ {c}
    BY DEF user_disconnected, Links, PresenceTypeOK
<1>2. c \in Links(u) <=> link[c] = "open" /\ session[c] = u
    BY DEF Links
<1>3. c \notin Links(u) => Links(u) \ {c} = Links(u)
    OBVIOUS
<1> QED
    BY Zenon, <1>1, <1>2, <1>3, LinksFinite DEF Sizes

\* Quiet is kept: watch_users_status is for open connections only, and whatever
\* ends a connection, or the server, drops its store.
LEMMA QuietStep ==
    PresenceTypeOK /\ Quiet /\ [PresenceNext]_presenceVars => Quiet'
<1> SUFFICES ASSUME PresenceTypeOK, Quiet, [PresenceNext]_presenceVars PROVE Quiet'
    BY Zenon
<1> USE DEF PresenceTypeOK, Quiet
<1>1. ASSUME NEW c \in Conns, NEW cookie \in Users \cup {Nobody},
             NEW param \in Users, user_connected(c, cookie, param)
      PROVE  Quiet'
    BY Zenon, <1>1 DEF user_connected
<1>2. ASSUME NEW c \in Conns, user_disconnected(c) PROVE Quiet'
    BY Zenon, <1>2 DEF user_disconnected
<1>3. ASSUME NEW c \in Conns, NEW W \in SUBSET Users, watch_users_status(c, W)
      PROVE  Quiet'
    BY <1>3 DEF watch_users_status
<1>4. CASE Crash
    BY <1>4 DEF Crash, ServerGone
<1>5. CASE MonitStart
    BY <1>5 DEF MonitStart, initialize_session
<1>6. CASE RestartStop
    BY Zenon, <1>6 DEF RestartStop, ServerGone
<1>7. CASE RestartClear
    BY Zenon, <1>7 DEF RestartClear
<1>8. CASE RestartStart
    BY Zenon, <1>8 DEF RestartStart, initialize_session
<1>9. CASE UNCHANGED presenceVars
    BY Zenon, <1>9 DEF presenceVars
<1> QED
    BY Zenon, <1>1, <1>2, <1>3, <1>4, <1>5, <1>6, <1>7, <1>8, <1>9 DEF PresenceNext

\* The two bounds on the counters are kept.  A connection accepted adds one to
\* both sides; one that ends takes one from both, unless it was refused: then
\* only the counter drops, and the user joins the set refused.
LEMMA CountStep ==
    ASSUME Sizes, IsFiniteSet(Conns)
    PROVE  PresenceTypeOK /\ Quiet /\ NeverOvercounted /\ ExactUnlessRefused /\ [PresenceNext]_presenceVars
           => (NeverOvercounted /\ ExactUnlessRefused)'
<1> SUFFICES ASSUME PresenceTypeOK, Quiet, NeverOvercounted, ExactUnlessRefused,
                    [PresenceNext]_presenceVars
             PROVE  (NeverOvercounted /\ ExactUnlessRefused)'
    OBVIOUS
<1> DEFINE Good(u) == /\ connected_users[u] <= Cardinality(Links(u))
                      /\ u \notin refused =>
                            connected_users[u] = Cardinality(Links(u))
<1>0. server = "up" => \A u \in Users : Good(u)
    BY Zenon DEF NeverOvercounted, ExactUnlessRefused
<1> SUFFICES ASSUME server' = "up", NEW u \in Users PROVE Good(u)'
    BY DEF NeverOvercounted, ExactUnlessRefused
<1>N. Cardinality(Links(u)) \in Nat /\ connected_users[u] \in Nat
    BY Zenon, LinksFinite DEF PresenceTypeOK
<1>1. ASSUME NEW c \in Conns, NEW cookie \in Users \cup {Nobody},
             NEW param \in Users, user_connected(c, cookie, param)
      PROVE  Good(u)'
    <2>1. connected_users'[u] = IF link'[c] = "open" /\ session'[c] = u
                                THEN connected_users[u] + 1
                                ELSE connected_users[u]
        BY <1>1 DEF user_connected, CountUp, PresenceTypeOK
    <2>2. server = "up" /\ refused' = refused
        BY Zenon, <1>1 DEF user_connected
    <2>3. Cardinality(Links(u))' =
             IF link'[c] = "open" /\ session'[c] = u
             THEN Cardinality(Links(u)) + 1 ELSE Cardinality(Links(u))
        BY Zenon, <1>1, LinksConnected
    <2> QED
        BY <1>0, <1>N, <2>1, <2>2, <2>3
<1>2. ASSUME NEW c \in Conns, user_disconnected(c)
      PROVE  Good(u)'
    <2>1. connected_users'[u] = IF session[c] = u THEN CountDown(u)
                                ELSE connected_users[u]
        BY Zenon, <1>2 DEF user_disconnected, PresenceTypeOK
    <2>2. refused' = IF link[c] = "refused" THEN refused \cup {session[c]}
                     ELSE refused
        BY Zenon, <1>2 DEF user_disconnected
    <2>3. link[c] \in {"open", "refused"} /\ server = "up"
        BY Zenon, <1>2 DEF user_disconnected, PresenceTypeOK
    <2>4. link[c] = "open" /\ session[c] = u => Cardinality(Links(u)) > 0
        <3> SUFFICES ASSUME c \in Links(u) PROVE Cardinality(Links(u)) > 0
            BY Zenon DEF Links
        <3> QED
            BY <1>N, LinksFinite DEF Sizes
    <2>5. Cardinality(Links(u))' =
             IF link[c] = "open" /\ session[c] = u
             THEN Cardinality(Links(u)) - 1 ELSE Cardinality(Links(u))
        BY Zenon, <1>2, LinksDisconnected
    <2> QED
        BY <1>0, <1>N, <2>1, <2>2, <2>3, <2>4, <2>5 DEF CountDown
<1>3. ASSUME NEW c \in Conns, NEW W \in SUBSET Users, watch_users_status(c, W)
      PROVE  Good(u)'
    BY Zenon, <1>0, <1>3 DEF watch_users_status, Links
<1>4. ASSUME server = "down", initialize_session PROVE Good(u)'
    <2>1. Links(u)' = {}
        BY <1>4 DEF initialize_session, Links, Quiet
    <2>2. connected_users'[u] = 0
        BY <1>4 DEF initialize_session, EmptyCounters
    <2> QED
        BY <2>1, <2>2 DEF Sizes
<1>5. CASE Crash
    BY Zenon, <1>5 DEF Crash, ServerGone
<1>6. CASE RestartStop
    BY Zenon, <1>0, <1>6 DEF RestartStop, ServerGone, Links
<1>7. CASE RestartClear
    BY <1>0, <1>7 DEF RestartClear, Links
<1>8. CASE RestartStart
    BY Zenon, <1>0, <1>4, <1>8 DEF RestartStart, Links
<1>9. CASE UNCHANGED presenceVars
    BY Zenon, <1>0, <1>9 DEF presenceVars, Links
<1> HIDE DEF Good
<1> QED
    BY Zenon, <1>1, <1>2, <1>3, <1>4, <1>5, <1>6, <1>7, <1>8, <1>9 DEF PresenceNext, MonitStart

\* Every update of the online column goes with the update of the counter, or is
\* recorded in leftover (server start) or hidden (the restart task).
LEMMA ColumnStep ==
    PresenceTypeOK /\ ColumnFollowsCounter /\ [PresenceNext]_presenceVars => ColumnFollowsCounter'
<1> SUFFICES ASSUME PresenceTypeOK, ColumnFollowsCounter, [PresenceNext]_presenceVars
             PROVE  ColumnFollowsCounter'
    OBVIOUS
<1> DEFINE Good(u) == /\ u \in online \ leftover => connected_users[u] > 0
                      /\ connected_users[u] > 0 => u \in online \cup hidden
<1>0. server = "up" => \A u \in Users : Good(u)
    BY Zenon DEF ColumnFollowsCounter
<1> SUFFICES ASSUME server' = "up", NEW u \in Users PROVE Good(u)'
    BY DEF ColumnFollowsCounter
<1>N. connected_users[u] \in Nat
    BY Zenon DEF PresenceTypeOK
<1>1. ASSUME NEW c \in Conns, NEW cookie \in Users \cup {Nobody},
             NEW param \in Users, user_connected(c, cookie, param)
      PROVE  Good(u)'
    BY <1>0, <1>1, <1>N DEF user_connected, CountUp, PresenceTypeOK
<1>2. ASSUME NEW c \in Conns, user_disconnected(c)
      PROVE  Good(u)'
    <2>1. server = "up" /\ session[c] \in Users
        BY Zenon, <1>2 DEF user_disconnected, PresenceTypeOK
    <2>2. CASE session[c] = u
        <3>1. connected_users'[u] = CountDown(u)
            BY Zenon, <1>2, <2>2 DEF user_disconnected, PresenceTypeOK
        <3>2. CASE IsLast(u)
            BY <1>2, <1>N, <2>2, <3>1, <3>2
               DEF user_disconnected, CountDown, IsLast
        <3>3. CASE ~IsLast(u)
            BY <1>0, <1>2, <1>N, <2>1, <2>2, <3>1, <3>3
               DEF user_disconnected, CountDown, IsLast
        <3> QED
            BY Zenon, <3>2, <3>3
    <2>3. CASE session[c] # u
        <3>1. connected_users'[u] = connected_users[u]
            BY Zenon, <1>2, <2>3 DEF user_disconnected, PresenceTypeOK
        <3>2. /\ u \in online' <=> u \in online
              /\ u \in leftover' <=> u \in leftover
              /\ u \in hidden' <=> u \in hidden
            BY Zenon, <1>2, <2>3 DEF user_disconnected
        <3> QED
            BY Zenon, <1>0, <2>1, <3>1, <3>2
    <2> QED
        BY Zenon, <2>2, <2>3
<1>3. ASSUME NEW c \in Conns, NEW W \in SUBSET Users, watch_users_status(c, W)
      PROVE  Good(u)'
    BY Zenon, <1>0, <1>3 DEF watch_users_status
<1>4. ASSUME initialize_session PROVE Good(u)'
    BY <1>4 DEF initialize_session, EmptyCounters
<1>5. CASE Crash
    BY Zenon, <1>5 DEF Crash, ServerGone
<1>6. CASE RestartStop
    BY Zenon, <1>0, <1>6 DEF RestartStop, ServerGone
<1>7. CASE RestartClear
    BY Zenon, <1>0, <1>7 DEF RestartClear, get_online_users_ids
<1>8. CASE RestartStart
    BY Zenon, <1>0, <1>4, <1>8 DEF RestartStart
<1>9. CASE UNCHANGED presenceVars
    BY Zenon, <1>0, <1>9 DEF presenceVars
<1> HIDE DEF Good
<1> QED
    BY Zenon, <1>1, <1>2, <1>3, <1>4, <1>5, <1>6, <1>7, <1>8, <1>9 DEF PresenceNext, MonitStart

\* What a tab shows is kept in step with the counters: when the counter of a
\* user drops to zero, every open tab that watches the user is told, being a
\* tab of a user that watches them.
LEMMA ShownStep ==
    PresenceTypeOK /\ Quiet /\ ShownAreOnline /\ [PresenceNext]_presenceVars => ShownAreOnline'
<1> SUFFICES ASSUME PresenceTypeOK, Quiet, ShownAreOnline, [PresenceNext]_presenceVars
             PROVE  ShownAreOnline'
    OBVIOUS
<1>T. PresenceTypeOK'
    BY Zenon, PresenceTypes
<1> SUFFICES ASSUME NEW d \in Conns, link'[d] = "open",
                    NEW u \in Users, u \in shown'[d], u \in watched'[d]
             PROVE  connected_users'[u] > 0
    BY Zenon, <1>T DEF ShownAreOnline, get_online_users_ids, PresenceTypeOK
<1>0. ASSUME link[d] = "open", u \in shown[d], u \in watched[d]
      PROVE  connected_users[u] > 0
    BY Zenon, <1>0 DEF ShownAreOnline, get_online_users_ids
<1>N. connected_users[u] \in Nat
    BY Zenon DEF PresenceTypeOK
<1>1. ASSUME NEW c \in Conns, NEW cookie \in Users \cup {Nobody},
             NEW param \in Users, user_connected(c, cookie, param)
      PROVE  connected_users'[u] > 0
    <2>1. link[d] = "open" /\ u \in watched[d] /\ watched' = watched
        BY Zenon, <1>1 DEF user_connected, Quiet, PresenceTypeOK
    <2>2. \/ u \in shown[d] /\ connected_users'[u] >= connected_users[u]
          \/ connected_users'[u] = connected_users[u] + 1
        BY <1>1, <1>N, <2>1
           DEF user_connected, SentConnected, CountUp, PresenceTypeOK
    <2> QED
        BY <1>0, <1>N, <1>1, <2>1, <2>2 DEF user_connected, CountUp, PresenceTypeOK
<1>2. ASSUME NEW c \in Conns, user_disconnected(c)
      PROVE  connected_users'[u] > 0
    <2>1. d # c
        BY Zenon, <1>2 DEF user_disconnected, PresenceTypeOK
    <2>2. link[d] = "open" /\ u \in watched[d]
        BY Zenon, <1>2, <2>1 DEF user_disconnected, PresenceTypeOK
    <2>3. u \in shown[d]
        <3>1. shown' = [SentDisconnected(session[c]) EXCEPT ![c] = {}] \/ shown' = [shown EXCEPT ![c] = {}]
            BY Zenon, <1>2 DEF user_disconnected
        <3>2. SentDisconnected(session[c])[d] \subseteq shown[d]
            BY Zenon DEF SentDisconnected
        <3>3. \A x : d \in DOMAIN x => [x EXCEPT ![c] = {}][d] = x[d]
            BY Zenon, <2>1
        <3>4. d \in DOMAIN shown /\ d \in DOMAIN SentDisconnected(session[c])
            BY Zenon DEF PresenceTypeOK, SentDisconnected
        <3> QED
            BY Zenon, <3>1, <3>2, <3>3, <3>4
    <2>4. connected_users[u] > 0
        BY Zenon, <1>0, <2>2, <2>3
    <2>5. CASE session[c] = u /\ IsLast(u)
        <3>1. d \in Channel(get_users_watching_me(u))
            BY Zenon, <2>2 DEF Channel, get_users_watching_me
        <3>2. shown' = [SentDisconnected(u) EXCEPT ![c] = {}]
            BY Zenon, <1>2, <2>5 DEF user_disconnected
        <3>3. u \notin shown'[d]
            BY Zenon, <2>1, <3>1, <3>2 DEF SentDisconnected
        <3> QED
            BY Zenon, <3>3
    <2>6. CASE session[c] = u /\ ~IsLast(u)
        BY <1>2, <1>N, <2>6 DEF user_disconnected, CountDown, IsLast, PresenceTypeOK
    <2>7. CASE session[c] # u
        BY Zenon, <1>2, <2>4, <2>7 DEF user_disconnected, PresenceTypeOK
    <2> QED
        BY Zenon, <2>5, <2>6, <2>7
<1>3. ASSUME NEW c \in Conns, NEW W \in SUBSET Users, watch_users_status(c, W)
      PROVE  connected_users'[u] > 0
    <2>1. connected_users' = connected_users /\ link' = link
        BY Zenon, <1>3 DEF watch_users_status
    <2>2. CASE d \in Channel({session[c]})
        BY Zenon, <1>3, <2>1, <2>2
           DEF watch_users_status, get_online_users_ids
    <2>3. CASE d \notin Channel({session[c]})
        <3>1. d # c
            BY Zenon, <1>3, <2>3 DEF Channel, watch_users_status
        <3> QED
            BY Zenon, <1>0, <1>3, <2>1, <2>3, <3>1 DEF watch_users_status, PresenceTypeOK
    <2> QED
        BY Zenon, <2>2, <2>3
<1>4. ASSUME server = "down", initialize_session
      PROVE  connected_users'[u] > 0
    BY Zenon, <1>4 DEF initialize_session, Quiet
<1>5. CASE Crash
    BY Zenon, <1>5 DEF Crash, ServerGone
<1>6. CASE RestartStop
    BY Zenon, <1>0, <1>6 DEF RestartStop, ServerGone
<1>7. CASE RestartClear
    BY Zenon, <1>0, <1>7 DEF RestartClear
<1>8. CASE RestartStart
    BY Zenon, <1>0, <1>4, <1>8 DEF RestartStart
<1>9. CASE UNCHANGED presenceVars
    BY Zenon, <1>0, <1>9 DEF presenceVars
<1> QED
    BY Zenon, <1>1, <1>2, <1>3, <1>4, <1>5, <1>6, <1>7, <1>8, <1>9 DEF PresenceNext, MonitStart

FS == INSTANCE FiniteSetTheorems

\* These facts hold.
LEMMA Sized == Sizes
<1>1. \A S : FS!IsFiniteSet(S) <=> IsFiniteSet(S)
    BY Zenon DEF FS!IsFiniteSet, IsFiniteSet
<1> USE <1>1
<1>2. \A S : FS!Cardinality(S) = Cardinality(S)
    BY Zenon DEF FS!Cardinality, Cardinality, FS!IsFiniteSet, IsFiniteSet
<1> USE <1>2
<1>3. Cardinality({}) = 0
    BY Zenon, FS!FS_EmptySet
<1>4. \A S : IsFiniteSet(S) => Cardinality(S) \in Nat /\ (Cardinality(S) = 0 <=> S = {})
    BY Zenon, FS!FS_EmptySet, FS!FS_CardinalityType
<1>5. \A S, T : IsFiniteSet(T) /\ S \subseteq T => IsFiniteSet(S)
    BY Zenon, FS!FS_Subset
<1>6. \A S, x : IsFiniteSet(S) /\ x \notin S => Cardinality(S \cup {x}) = Cardinality(S) + 1
    BY Zenon, FS!FS_AddElement
<1>7. \A S, x : IsFiniteSet(S) /\ x \in S => Cardinality(S \ {x}) = Cardinality(S) - 1
    BY Zenon, FS!FS_RemoveElement
<1> QED
    BY Zenon, <1>3, <1>4, <1>5, <1>6, <1>7 DEF Sizes

\* The invariant holds of every run of the websocket server: connections that
\* open, are refused and end, watch requests, crashes and restarts.
THEOREM PresenceInductive == PresenceSpec => []PresenceInv
<1>1. PresenceInit => PresenceInv
    <2> SUFFICES ASSUME PresenceInit PROVE PresenceInv
        BY Zenon
    <2>1. PresenceTypeOK
        BY Zenon DEF PresenceInit, PresenceTypeOK
    <2>2. Quiet /\ ShownAreOnline
        BY Zenon DEF PresenceInit, Quiet, ShownAreOnline
    <2>3. NeverOvercounted /\ ExactUnlessRefused /\ ColumnFollowsCounter
        BY Zenon DEF PresenceInit, NeverOvercounted, ExactUnlessRefused, ColumnFollowsCounter
    <2> QED
        BY Zenon, <2>1, <2>2, <2>3 DEF PresenceInv
<1>2. PresenceInv /\ [PresenceNext]_presenceVars => PresenceInv'
    BY Zenon, PresenceAssumption, Sized, PresenceTypes, QuietStep, CountStep, ColumnStep, ShownStep
        DEF PresenceInv
<1> QED
    BY <1>1, <1>2, PTL DEF PresenceSpec

\* Presence is type correct; the counters stay natural numbers although a
\* disconnect may be handled for a connection that was never counted.
THEOREM PresenceTyped == PresenceSpec => []PresenceTypeOK
BY PresenceInductive, PTL DEF PresenceInv

\* No connection leaves a count behind in connected_users.
THEOREM NoGhosts == PresenceSpec => []NeverOvercounted
BY PresenceInductive, PTL DEF PresenceInv

\* Only a refused connection makes connected_users inexact.
THEOREM Exact == PresenceSpec => []ExactUnlessRefused
BY PresenceInductive, PTL DEF PresenceInv

\* users.online agrees with the counters but for a start without a clear and a
\* clear without a stop, and no tab goes on showing as online a watched user
\* whose last counted connection has ended.
THEOREM ScreensAgree == PresenceSpec => []ScreensFollow
<1>1. PresenceInv => ScreensFollow
    BY DEF PresenceInv, ScreensFollow
<1> QED
    BY <1>1, PresenceInductive, PTL
=============================================================================
