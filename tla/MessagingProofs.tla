-------------------------- MODULE MessagingProofs ---------------------------
(***************************************************************************)
(* The safety properties of Messaging, for any members, texts, shows and   *)
(* cron runs, and any bounds.                                              *)
(***************************************************************************)
EXTENDS Messaging, FiniteSetTheorems, TLAPS

\* A mail is noted in the row of its process, and counted.
LEMMA MailTyped ==
    ASSUME saving \in [Actors -> Users \cup {None}],
           mails \in [Actors -> [Users -> Nat]],
           NEW a \in Actors, NEW u \in Users, Mail(a, u)
    PROVE  /\ saving' \in [Actors -> Users \cup {None}]
           /\ mails' \in [Actors -> [Users -> Nat]]
           /\ \A b \in Actors, v \in Users :
                 /\ mails[b][v] \in Nat /\ mails'[b][v] \in Nat
                 /\ mails'[b][v] >= mails[b][v]
           /\ mails'[a][u] = mails[a][u] + 1
<1>1. ASSUME NEW b \in Actors, NEW v \in Users
      PROVE  /\ mails[b][v] \in Nat
             /\ mails'[b][v] = IF b = a /\ v = u THEN mails[b][v] + 1 ELSE mails[b][v]
    BY DEF Mail
<1>2. saving' \in [Actors -> Users \cup {None}]
    BY DEF Mail
<1>3. mails' \in [Actors -> [Users -> Nat]]
    BY DEF Mail
<1> QED
    BY <1>1, <1>2, <1>3

\* A kill is counted up to its bound.
LEMMA CrashTyped ==
    ASSUME MaxCrashes \in Nat, crashes \in [Actors -> 0..MaxCrashes],
           NEW a \in Actors, crashes[a] < MaxCrashes
    PROVE  [crashes EXCEPT ![a] = @ + 1] \in [Actors -> 0..MaxCrashes]
OBVIOUS

\* A message that is appended leaves the messages before it in their places.
LEMMA AppendKeeps ==
    ASSUME messages \in Seq(Message), NEW m
    PROVE  /\ Len(messages) \in Nat
           /\ Len(Append(messages, m)) = Len(messages) + 1
           /\ Append(messages, m)[Len(messages) + 1] = m
           /\ Append(messages, m) # <<>>
           /\ \A j \in 1..Len(messages) : Append(messages, m)[j] = messages[j]
OBVIOUS

\* The steps of the handlers, of show and of the cron run keep the types: rows
\* stay rows whatever columns a save writes, and a message that is stored has
\* passed the validation.
LEMMA TypeStep ==
    TypeOK /\ [Next]_vars => TypeOK'
<1> SUFFICES ASSUME TypeOK, [Next]_vars PROVE TypeOK'
    OBVIOUS
<1> USE MessagingAssumption
<1> USE DEF TypeOK, store, cu, request, server, web, history
<1>1. ASSUME NEW u \in Users, NEW c \in Contents, NEW reply \in BOOLEAN,
             post_message(u, c, reply)
      PROVE  TypeOK'
    BY Zenon, <1>1 DEF post_message, Rows, NoRows
<1>2. ASSUME NEW c \in (Contents \ {Markup}) \cup {Request}, Stored(c),
             at # "idle"
      PROVE  /\ messages' \in Seq(Message)
             /\ unread' \subseteq Users
             /\ notified' \subseteq Users
             /\ mails' \in [Actors -> [Users -> Nat]]
             /\ crossed' \subseteq Users
             /\ carried' \subseteq Users
             /\ loaded' \in [unread : SUBSET Users, notified : SUBSET Users]
    BY <1>2 DEF Stored, Message, update_unread_status, Notified, Arrivals, NoRows
<1>3. CASE SystemMessage
    BY Zenon, <1>2, <1>3 DEF SystemMessage, Stored
<1>4. CASE Reply
    <2>1. request_users' \subseteq Users /\ request_users' # {}
        BY <1>4 DEF Reply
    <2>2. /\ IsFiniteSet(request_users')
          /\ Cardinality(request_users') \in Nat
          /\ Cardinality(request_users') # 0
        BY Zenon, <2>1, FS_Subset, FS_CardinalityType, FS_EmptySet
    <2>3. comment_count' \in Nat
        BY <1>4, <2>2 DEF Reply
    <2> QED
        BY Zenon, <1>4, <2>1, <2>3 DEF Reply
<1>5. CASE CreateMessage
    BY <1>5 DEF CreateMessage, Return, Rows, NoRows, Valid
<1>6. CASE MessageStored
    BY <1>2, <1>6 DEF MessageStored, Stored
<1>7. ASSUME NEW a \in Actors, MarkNotified(a), saving[a] # None
      PROVE  notified' \subseteq Users /\ saving' \in [Actors -> Users \cup {None}]
    BY Zenon, <1>7 DEF MarkNotified
<1>8. CASE ServerMarks
    BY Zenon, <1>7, <1>8 DEF ServerMarks, MarkNotified, Actors
<1>9. CASE PostDone
    BY Zenon, <1>9 DEF PostDone, Return, NoRows
<1>10. CASE ServerCrash
    <2>1. WS \in Actors
        BY DEF Actors
    <2>2. crashes' \in [Actors -> 0..MaxCrashes]
        BY <1>10, <2>1, CrashTyped DEF ServerCrash
    <2>3. saving' \in [Actors -> Users \cup {None}] /\ saving'[WS] = None
        BY Zenon, <1>10, <2>1 DEF ServerCrash
    <2> QED
        BY Zenon, <1>10, <2>2, <2>3 DEF ServerCrash, Return, NoRows
<1>11. ASSUME NEW u \in Users, Push(u) PROVE TypeOK'
    BY <1>11 DEF Push
<1>12. ASSUME NEW a \in Actors, NEW u \in Users, Mail(a, u)
       PROVE  /\ saving' \in [Actors -> Users \cup {None}]
              /\ mails' \in [Actors -> [Users -> Nat]]
    BY <1>12, MailTyped
<1>13. ASSUME NEW u \in Users, notify_by_email(u) PROVE TypeOK'
    <2>1. WS \in Actors
        BY DEF Actors
    <2>2. CASE MayMail(u)
        <3>1. Mail(WS, u) /\ at' = "save"
            BY <1>13, <2>2 DEF notify_by_email
        <3>2. saving'[WS] = u
            BY <2>1, <3>1 DEF Mail
        <3> QED
            BY Zenon, <1>12, <1>13, <2>1, <3>1, <3>2 DEF notify_by_email
    <2> QED
        BY Zenon, <1>13, <2>2 DEF notify_by_email
<1>14. ASSUME NEW u \in Users, conversation_read(u) PROVE TypeOK'
    BY Zenon, <1>14 DEF conversation_read, mark_read
<1>15. ASSUME NEW u \in Users, Connected(u) \/ Disconnected(u) PROVE TypeOK'
    BY Zenon, <1>15 DEF Connected, Disconnected
<1>16. ASSUME NEW u \in Users, Tick(u) PROVE TypeOK'
    BY Zenon, <1>16 DEF Tick
<1>17. ASSUME NEW w \in Web, NEW u \in Users, ShowLoad(w, u) PROVE TypeOK'
    BY Zenon, <1>17 DEF ShowLoad
<1>18. ASSUME NEW w \in Web, ShowSave(w) PROVE TypeOK'
    BY Zenon, <1>18 DEF ShowSave, mark_read
<1>19. ASSUME NEW w \in Web, ShowRender(w) PROVE TypeOK'
    BY <1>19 DEF ShowRender
<1>20. ASSUME NEW k \in Crons, CronQuery(k) PROVE TypeOK'
    BY Zenon, <1>20 DEF CronQuery, Due
<1>21. ASSUME NEW k \in Crons, NEW u \in Users, CronMail(k, u) PROVE TypeOK'
    <2>1. k \in Actors /\ k # WS
        BY DEF Actors
    <2>2. saving'[WS] = saving[WS]
        BY <1>21, <2>1 DEF CronMail, Mail, Actors
    <2>3. mails' \in [Actors -> [Users -> Nat]]
          /\ saving' \in [Actors -> Users \cup {None}]
        BY Zenon, <1>12, <1>21, <2>1 DEF CronMail
    <2> QED
        BY Zenon, <1>21, <2>2, <2>3 DEF CronMail
<1>22. ASSUME NEW k \in Crons, CronMarks(k) PROVE TypeOK'
    BY Zenon, <1>7, <1>22 DEF CronMarks, MarkNotified, Actors
<1>23. ASSUME NEW k \in Crons, CronCrash(k) PROVE TypeOK'
    <2>1. k \in Actors /\ k # WS /\ WS \in Actors
        BY DEF Actors
    <2>2. /\ saving'[WS] = saving[WS]
          /\ saving' \in [Actors -> Users \cup {None}]
        BY Zenon, <1>23, <2>1 DEF CronCrash
    <2>3. crashes' \in [Actors -> 0..MaxCrashes]
        BY Zenon, <1>23, <2>1, CrashTyped DEF CronCrash
    <2> QED
        BY Zenon, <1>23, <2>2, <2>3 DEF CronCrash
<1>24. CASE UNCHANGED vars
    BY <1>24 DEF vars
<1> HIDE DEF TypeOK
<1> QED
    BY Zenon, <1>1, <1>3, <1>4, <1>5, <1>6, <1>8, <1>9, <1>10, <1>11, <1>13, <1>14,
       <1>15, <1>16, <1>17, <1>18, <1>19, <1>20, <1>21, <1>22, <1>23, <1>24
       DEF Next

-----------------------------------------------------------------------------
(* Mails. *)

\* A process that has used up its mails to u has marked u's row, or is about to;
\* one that holds u's row in its batch has a mail to u left.
MailsCovered ==
    /\ \A a \in Actors, u \in Users :
          mails[a][u] > crashes[a] => u \in notified \/ saving[a] = u
    /\ \A k \in Crons : \A u \in batch[k] : mails[k][u] <= crashes[k]

\* NotifiedWasMailed, and the same of rows about to be marked.
MarkedWasMailed ==
    \A u \in unread \ carried :
        u \in notified \/ (\E a \in Actors : saving[a] = u)
        => \E a \in Actors : mails[a][u] > 0

mailing == <<notified, saving, batch, crashes, mails, carried>>

\* All other steps leave what concerns mails alone; no row becomes unread.
LEMMA MailFrame ==
    ASSUME [Next]_vars
    PROVE  \/ UNCHANGED mailing /\ unread' \subseteq unread
           \/ SystemMessage \/ MessageStored
           \/ ServerMarks \/ (\E u \in Users : notify_by_email(u)) \/ ServerCrash
           \/ \E k \in Crons : CronQuery(k) \/ CronMarks(k) \/ CronCrash(k)
           \/ \E k \in Crons, u \in Users : CronMail(k, u)
<1> USE DEF mailing, store, cu, history
<1>1. ASSUME NEW u \in Users, NEW c \in Contents, NEW reply \in BOOLEAN,
             post_message(u, c, reply)
      PROVE  UNCHANGED mailing /\ unread' \subseteq unread
    BY <1>1 DEF post_message
<1>2. Reply \/ CreateMessage \/ PostDone \/ UNCHANGED vars
      => UNCHANGED mailing /\ unread' \subseteq unread
    BY DEF Reply, CreateMessage, PostDone, vars
<1>3. ASSUME NEW u \in Users,
             Push(u) \/ conversation_read(u) \/ Connected(u) \/ Disconnected(u)
                \/ Tick(u)
      PROVE  UNCHANGED mailing /\ unread' \subseteq unread
    BY Zenon, <1>3 DEF Push, conversation_read, mark_read, Connected, Disconnected, Tick
<1>4. ASSUME NEW w \in Web, ShowSave(w) \/ ShowRender(w)
      PROVE  UNCHANGED mailing /\ unread' \subseteq unread
    BY <1>4 DEF ShowSave, ShowRender, mark_read
<1>5. ASSUME NEW w \in Web, NEW u \in Users, ShowLoad(w, u)
      PROVE  UNCHANGED mailing /\ unread' \subseteq unread
    BY <1>5 DEF ShowLoad
<1> HIDE DEF mailing
<1> QED
    BY <1>1, <1>2, <1>3, <1>4, <1>5 DEF Next

\* MailedOnce is inductive together with MailsCovered: only a new stretch of
\* unread messages clears notified, and it clears the counts as well.
LEMMA MailStep ==
    TypeOK /\ MailedOnce /\ MailsCovered /\ [Next]_vars
    => (MailedOnce /\ MailsCovered)'
<1> SUFFICES ASSUME TypeOK, MailedOnce, MailsCovered, [Next]_vars
             PROVE  (MailedOnce /\ MailsCovered)'
    OBVIOUS
<1> DEFINE Good(a, u) ==
       /\ mails[a][u] <= 1 + crashes[a]
       /\ mails[a][u] > crashes[a] => u \in notified \/ saving[a] = u
       /\ a \in Crons /\ u \in batch[a] => mails[a][u] <= crashes[a]
<1>T. TypeOK'
    BY Zenon, TypeStep
<1>0. \A a \in Actors, u \in Users : Good(a, u)
    BY Zenon DEF MailedOnce, MailsCovered
<1> SUFFICES ASSUME NEW a \in Actors, NEW u \in Users PROVE Good(a, u)'
    BY Zenon, <1>T DEF MailedOnce, MailsCovered, TypeOK, Actors
<1>N. mails[a][u] \in Nat /\ crashes[a] \in Nat
    BY MessagingAssumption DEF TypeOK
<1>G. Good(a, u)
    BY <1>0
<1>1. CASE UNCHANGED mailing
    BY <1>1, <1>G DEF mailing
<1>2. ASSUME update_unread_status, UNCHANGED <<saving, batch, crashes>>
      PROVE  Good(a, u)'
    <2>1. CASE u \in Arrivals
        <3>1. mails'[a][u] = 0
            BY <1>2, <2>1 DEF update_unread_status
        <3> QED
            BY <1>2, <1>N, <3>1
    <2>2. CASE u \notin Arrivals
        <3>1. mails'[a][u] = mails[a][u] /\ (u \in notified => u \in notified')
            BY Zenon, <1>2, <2>2 DEF update_unread_status, Notified
        <3> QED
            BY <1>2, <1>G, <3>1
    <2> QED
        BY <2>1, <2>2
<1>3. CASE SystemMessage \/ MessageStored
    BY Zenon, <1>2, <1>3 DEF SystemMessage, MessageStored, Stored
<1>4. ASSUME NEW b \in Actors, MarkNotified(b) PROVE Good(a, u)'
    <2>1. UNCHANGED <<batch, crashes, mails>>
        BY Zenon, <1>4 DEF MarkNotified, history
    <2>2. saving[a] = u => u \in notified' \/ saving'[a] = u
        BY <1>4 DEF MarkNotified, TypeOK
    <2>3. u \in notified => u \in notified'
        BY Zenon, <1>4 DEF MarkNotified
    <2> QED
        BY <1>G, <2>1, <2>2, <2>3
<1>5. CASE ServerMarks
    BY Zenon, <1>4, <1>5 DEF ServerMarks, Actors
<1>6. ASSUME NEW b \in Actors, NEW v \in Users, Mail(b, v), saving[b] = None,
             mails[b][v] <= crashes[b],
             UNCHANGED <<notified, crashes>>,
             \/ b \notin Crons /\ UNCHANGED batch
             \/ b \in Crons /\ batch' = [batch EXCEPT ![b] = @ \ {v}]
      PROVE  Good(a, u)'
    <2>1. CASE a = b /\ u = v
        BY <1>6, <1>N, <2>1 DEF Mail, TypeOK
    <2>2. CASE a = b /\ u # v
        <3>1. mails'[a][u] = mails[a][u]
            BY Zenon, <1>6, <2>2 DEF Mail, TypeOK
        <3>2. saving[a] # u
            BY Zenon, <1>6, <2>2, MessagingAssumption
        <3>3. a \in Crons => (u \in batch'[a] <=> u \in batch[a])
            BY <1>6, <2>2 DEF TypeOK
        <3> QED
            BY Zenon, <1>6, <1>G, <3>1, <3>2, <3>3
    <2>3. CASE a # b
        <3>1. mails'[a][u] = mails[a][u] /\ saving'[a] = saving[a]
            BY Zenon, <1>6, <2>3 DEF Mail, TypeOK
        <3>2. a \in Crons => batch'[a] = batch[a]
            BY Zenon, <1>6, <2>3 DEF TypeOK
        <3> QED
            BY Zenon, <1>6, <1>G, <3>1, <3>2
    <2> QED
        BY Zenon, <2>1, <2>2, <2>3
<1>7. ASSUME NEW v \in Users, notify_by_email(v) PROVE Good(a, u)'
    <2>1. UNCHANGED <<notified, crashes, batch>> /\ saving[WS] = None
        BY Zenon, <1>7 DEF notify_by_email, store, cu, TypeOK
    <2>2. CASE MayMail(v)
        <3>1. Mail(WS, v)
            BY <1>7, <2>2 DEF notify_by_email
        <3>2. WS \in Actors /\ WS \notin Crons
            BY Zenon, MessagingAssumption DEF Actors
        <3>3. mails[WS][v] \in Nat /\ crashes[WS] \in Nat
            BY <3>2, MessagingAssumption DEF TypeOK
        <3>4. mails[WS][v] <= crashes[WS]
            <4>1. Good(WS, v)
                BY <1>0, <3>2
            <4>2. v \notin notified /\ saving[WS] # v
                BY Zenon, <2>1, <2>2, MessagingAssumption DEF MayMail
            <4> QED
                BY <3>3, <4>1, <4>2
        <3> QED
            BY Zenon, <1>6, <2>1, <3>1, <3>2, <3>4
    <2>3. CASE ~MayMail(v)
        BY Zenon, <1>7, <1>G, <2>1, <2>3 DEF notify_by_email
    <2> QED
        BY Zenon, <2>2, <2>3
<1>8. ASSUME NEW k \in Crons, NEW v \in Users, CronMail(k, v) PROVE Good(a, u)'
    <2>1. /\ UNCHANGED <<notified, crashes>>
          /\ saving[k] = None
          /\ v \in batch[k]
          /\ batch' = [batch EXCEPT ![k] = @ \ {v}]
        BY <1>8 DEF CronMail, store, cu
    <2>2. k \in Actors
        BY Zenon DEF Actors
    <2>3. CASE HasMessage(v)
        BY Zenon, <1>0, <1>6, <1>8, <2>1, <2>2, <2>3 DEF CronMail
    <2>4. CASE ~HasMessage(v)
        <3>1. UNCHANGED <<saving, mails>>
            BY <1>8, <2>4 DEF CronMail
        <3>2. a \in Crons /\ u \in batch'[a] => u \in batch[a]
            BY Zenon, <2>1 DEF TypeOK
        <3> QED
            BY <1>G, <2>1, <3>1, <3>2
    <2> QED
        BY Zenon, <2>3, <2>4
<1>9. ASSUME NEW k \in Crons, CronQuery(k) PROVE Good(a, u)'
    <2>1. UNCHANGED <<notified, saving, crashes, mails>> /\ saving[k] = None
        BY Zenon, <1>9 DEF CronQuery, store, cu, history
    <2>2. a \in Crons /\ u \in batch'[a] =>
             u \in batch[a] \/ (a = k /\ u \notin notified)
        BY Zenon, <1>9 DEF CronQuery, Due, TypeOK
    <2> QED
        BY <1>G, <1>N, <2>1, <2>2, MessagingAssumption
<1>10. ASSUME NEW k \in Crons, CronMarks(k) PROVE Good(a, u)'
    BY Zenon, <1>4, <1>10 DEF CronMarks, Actors
<1>11. ASSUME NEW b \in Actors, crashes' = [crashes EXCEPT ![b] = @ + 1],
              saving' = [saving EXCEPT ![b] = None], UNCHANGED <<notified, mails>>,
              a \in Crons => batch'[a] \subseteq batch[a]
       PROVE  Good(a, u)'
    <2>1. CASE a = b
        <3>1. crashes'[a] = crashes[a] + 1
            BY Zenon, <1>11, <2>1 DEF TypeOK
        <3>2. ~(mails'[a][u] > crashes'[a]) /\ mails'[a][u] <= crashes'[a]
            BY <1>G, <1>N, <1>11, <3>1
        <3> QED
            BY <1>11, <1>N, <3>1, <3>2
    <2>2. CASE a # b
        BY Zenon, <1>G, <1>11, <2>2 DEF TypeOK
    <2> QED
        BY Zenon, <2>1, <2>2
<1>12. CASE ServerCrash
    BY Zenon, <1>11, <1>12 DEF ServerCrash, store, cu, Actors
<1>13. ASSUME NEW k \in Crons, CronCrash(k) PROVE Good(a, u)'
    BY Zenon, <1>11, <1>13 DEF CronCrash, store, cu, Actors, TypeOK
<1> HIDE DEF Good
<1> QED
    BY Zenon, <1>1, <1>3, <1>5, <1>7, <1>8, <1>9, <1>10, <1>12, <1>13, MailFrame

\* A row becomes unread with notified cleared and nobody about to set it, or the
\* member is recorded in carried; from then on it is marked only after a mail.
LEMMA MarkedStep ==
    TypeOK /\ MarkedWasMailed /\ [Next]_vars => MarkedWasMailed'
<1> SUFFICES ASSUME TypeOK, MarkedWasMailed, [Next]_vars
             PROVE  MarkedWasMailed'
    OBVIOUS
<1> DEFINE Mailed(u) == \E a \in Actors : mails[a][u] > 0
           Marking(u) == u \in notified \/ \E a \in Actors : saving[a] = u
<1>0. \A u \in unread \ carried : Marking(u) => Mailed(u)
    BY DEF MarkedWasMailed
<1>T. TypeOK'
    BY Zenon, TypeStep
<1> SUFFICES ASSUME NEW u \in Users, u \in unread', u \notin carried', Marking(u)'
             PROVE  Mailed(u)'
    BY Zenon, <1>T DEF MarkedWasMailed, TypeOK
<1>1. CASE UNCHANGED mailing /\ unread' \subseteq unread
    BY Zenon, <1>0, <1>1 DEF mailing
<1>2. CASE SystemMessage \/ MessageStored
    <2>1. update_unread_status /\ saving' = saving /\ saving[WS] = None
        BY Zenon, <1>2 DEF SystemMessage, MessageStored, Stored, TypeOK
    <2>2. CASE u \in Arrivals
        <3>1. u \notin notified' /\ \A k \in Crons : saving[k] # u
            BY Zenon, <2>1, <2>2 DEF update_unread_status, Notified
        <3> QED
            BY Zenon, <2>1, <3>1, MessagingAssumption DEF Actors
    <2>3. CASE u \notin Arrivals
        <3>1. u \in unread /\ u \notin carried /\ Marking(u)
            BY Zenon, <2>1, <2>3 DEF update_unread_status, Notified
        <3>2. PICK a \in Actors : mails[a][u] > 0
            BY Zenon, <1>0, <3>1
        <3>3. mails'[a][u] = mails[a][u]
            BY Zenon, <2>1, <2>3 DEF update_unread_status
        <3> QED
            BY Zenon, <3>2, <3>3
    <2> QED
        BY Zenon, <2>2, <2>3
<1>3. ASSUME NEW b \in Actors, MarkNotified(b), saving[b] # None PROVE Mailed(u)'
    <2>1. UNCHANGED <<unread, mails, carried>>
        BY Zenon, <1>3 DEF MarkNotified, history
    <2>2. Marking(u)
        <3>1. u \in notified' => u \in notified \/ saving[b] = u
            BY Zenon, <1>3 DEF MarkNotified
        <3>2. ASSUME NEW a \in Actors, saving'[a] = u PROVE saving[a] = u
            BY Zenon, <1>3, <3>2, MessagingAssumption DEF MarkNotified, TypeOK
        <3> QED
            BY Zenon, <3>1, <3>2
    <2> QED
        BY Zenon, <1>0, <2>1, <2>2
<1>4. CASE ServerMarks
    BY Zenon, <1>3, <1>4 DEF ServerMarks, Actors, TypeOK
<1>5. ASSUME NEW b \in Actors, NEW v \in Users, Mail(b, v),
             UNCHANGED <<unread, notified, carried>>
      PROVE  Mailed(u)'
    <2>0. /\ saving \in [Actors -> Users \cup {None}]
          /\ mails \in [Actors -> [Users -> Nat]]
        BY Zenon DEF TypeOK
    <2>1. \A a \in Actors : /\ mails'[a][u] >= mails[a][u]
                             /\ mails[a][u] \in Nat /\ mails'[a][u] \in Nat
        BY Zenon, <1>5, <2>0, MailTyped
    <2>2. CASE u = v
        <3>1. mails'[b][u] = mails[b][u] + 1
            BY Zenon, <1>5, <2>0, <2>2, MailTyped
        <3> QED
            BY <2>1, <3>1
    <2>3. CASE u # v
        <3>1. Marking(u)
            BY Zenon, <1>5, <2>3 DEF Mail, TypeOK
        <3>2. CASE u \in unread /\ u \notin carried
            <4>1. PICK a \in Actors : mails[a][u] > 0
                BY Zenon, <1>0, <3>1, <3>2
            <4>2. mails'[a][u] > 0
                BY <2>1, <4>1
            <4> QED
                BY Zenon, <4>2
        <3> QED
            BY Zenon, <1>5, <3>2
    <2> QED
        BY Zenon, <2>2, <2>3
<1>6. ASSUME NEW v \in Users, notify_by_email(v) PROVE Mailed(u)'
    <2>1. UNCHANGED <<unread, notified, carried>>
        BY Zenon, <1>6 DEF notify_by_email, store, cu
    <2>2. Mail(WS, v) \/ UNCHANGED <<saving, mails>>
        BY Zenon, <1>6 DEF notify_by_email
    <2> QED
        BY Zenon, <1>0, <1>5, <2>1, <2>2 DEF Actors
<1>7. ASSUME NEW k \in Crons, NEW v \in Users, CronMail(k, v) PROVE Mailed(u)'
    <2>1. UNCHANGED <<unread, notified, carried>>
        BY Zenon, <1>7 DEF CronMail, store, cu
    <2>2. Mail(k, v) \/ UNCHANGED <<saving, mails>>
        BY Zenon, <1>7 DEF CronMail
    <2> QED
        BY Zenon, <1>0, <1>5, <2>1, <2>2 DEF Actors
<1>8. ASSUME NEW k \in Crons, CronQuery(k) PROVE Mailed(u)'
    BY Zenon, <1>0, <1>8 DEF CronQuery, store, cu, history
<1>9. ASSUME NEW k \in Crons, CronMarks(k) PROVE Mailed(u)'
    BY Zenon, <1>3, <1>9 DEF CronMarks, Actors
<1>10. ASSUME NEW b \in Actors, saving' = [saving EXCEPT ![b] = None],
              UNCHANGED <<unread, notified, mails, carried>>
       PROVE  Mailed(u)'
    <2>1. Marking(u)
        BY Zenon, <1>10, MessagingAssumption DEF TypeOK
    <2> QED
        BY Zenon, <1>0, <1>10, <2>1
<1>11. CASE ServerCrash
    BY Zenon, <1>10, <1>11 DEF ServerCrash, store, cu, Actors
<1>12. ASSUME NEW k \in Crons, CronCrash(k) PROVE Mailed(u)'
    BY Zenon, <1>10, <1>12 DEF CronCrash, store, cu, Actors
<1> HIDE DEF Mailed, Marking
<1> QED
    BY <1>1, <1>2, <1>4, <1>6, <1>7, <1>8, <1>9, <1>11, <1>12, MailFrame

-----------------------------------------------------------------------------
(* Unread rows. *)

\* A row the transaction has loaded as unread is still unread, or was marked
\* read across it.
LoadedStaysUnread ==
    at \in {"system", "message"} => loaded.unread \subseteq unread \cup crossed

ReadsCovered == LoadedStaysUnread /\ UnreadUnlessCrossed

\* A member with a push to acknowledge has been told of every message, unless
\* the server will still push to them before it handles the acknowledgement.
Unserved(u) ==
    \/ at \in {"reply", "message"}
    \/ at = "create" /\ ~Conflict
    \/ at \in {"serve", "save"} /\ u \in left
PushedAreTold ==
    /\ \A u \in pushed : told[u] = Len(messages) \/ Unserved(u)
    /\ at = "reply" => /\ messages # <<>>
                       /\ messages[Len(messages)].content = Request

\* After the system message of a reply there is no conflict, so a reply that is
\* begun is served.
LEMMA PushedStep ==
    TypeOK /\ PushedAreTold /\ [Next]_vars => PushedAreTold'
<1> SUFFICES ASSUME TypeOK, PushedAreTold, [Next]_vars PROVE PushedAreTold'
    OBVIOUS
<1> USE MessagingAssumption
<1> USE DEF TypeOK, PushedAreTold, Unserved
<1>1. ASSUME UNCHANGED <<messages, at, me, text, left, told>>, pushed' \subseteq pushed
      PROVE  PushedAreTold'
    BY Zenon, <1>1 DEF Conflict
<1>2. ASSUME NEW u \in Users, NEW c \in Contents, NEW reply \in BOOLEAN,
             post_message(u, c, reply)
      PROVE  PushedAreTold'
    BY Zenon, <1>2 DEF post_message, store, history
<1>3. CASE SystemMessage
    <2>1. /\ messages' = Append(messages, [user |-> me, content |-> Request])
          /\ at' = "reply" /\ at = "system"
          /\ UNCHANGED <<pushed, me, text, left, told>>
        BY Zenon, <1>3 DEF SystemMessage, Stored
    <2>2. /\ Len(messages') = Len(messages) + 1
          /\ messages'[Len(messages')] = [user |-> me, content |-> Request]
          /\ messages' # <<>>
        BY Zenon, <2>1, AppendKeeps
    <2> QED
        BY <2>1, <2>2
<1>4. CASE Reply
    BY <1>4 DEF Reply, Conflict, history
<1>5. CASE CreateMessage
    BY <1>5 DEF CreateMessage, Return, store, history
<1>6. CASE MessageStored
    BY Zenon, <1>6 DEF MessageStored, Stored
<1>7. CASE ServerMarks
    BY Zenon, <1>7 DEF ServerMarks, MarkNotified, history
<1>8. CASE PostDone
    BY Zenon, <1>8 DEF PostDone, Return, store, history
<1>9. CASE ServerCrash
    BY Zenon, <1>9 DEF ServerCrash, Return
<1>10. ASSUME NEW u \in Users, Push(u) PROVE PushedAreTold'
    BY Zenon, <1>10 DEF Push, store
<1>11. ASSUME NEW u \in Users, notify_by_email(u) PROVE PushedAreTold'
    BY Zenon, <1>11 DEF notify_by_email, store
<1>12. ASSUME NEW u \in Users,
              conversation_read(u) \/ Connected(u) \/ Disconnected(u) \/ Tick(u)
       PROVE  PushedAreTold'
    BY Zenon, <1>1, <1>12 DEF conversation_read, mark_read, Connected, Disconnected, Tick,
                       store, server, history
<1>13. ASSUME NEW w \in Web, NEW u \in Users, ShowLoad(w, u) PROVE PushedAreTold'
    BY Zenon, <1>1, <1>13 DEF ShowLoad, store, server, history
<1>14. ASSUME NEW w \in Web, ShowSave(w) PROVE PushedAreTold'
    BY Zenon, <1>1, <1>14 DEF ShowSave, mark_read, server
<1>15. ASSUME NEW w \in Web, ShowRender(w) PROVE PushedAreTold'
    <2>1. UNCHANGED <<messages, at, me, text, left, pushed>>
        BY Zenon, <1>15 DEF ShowRender, store, server
    <2>2. \A u \in pushed : told'[u] \in {told[u], Len(messages)}
        BY Zenon, <1>15 DEF ShowRender
    <2> QED
        BY Zenon, <2>1, <2>2 DEF Conflict
<1>16. ASSUME NEW k \in Crons, CronQuery(k) \/ CronMarks(k) \/ CronCrash(k)
       PROVE  PushedAreTold'
    BY Zenon, <1>1, <1>16 DEF CronQuery, CronMarks, MarkNotified, CronCrash, store, server,
                       history
<1>17. ASSUME NEW k \in Crons, NEW u \in Users, CronMail(k, u) PROVE PushedAreTold'
    BY Zenon, <1>1, <1>17 DEF CronMail, store, server
<1>18. CASE UNCHANGED vars
    BY Zenon, <1>1, <1>18 DEF vars, store, server, history
<1> HIDE MessagingAssumption DEF TypeOK, PushedAreTold, Unserved
<1> QED
    BY <1>2, <1>3, <1>4, <1>5, <1>6, <1>7, <1>8, <1>9, <1>10, <1>11, <1>12, <1>13,
       <1>14, <1>15, <1>16, <1>17, <1>18 DEF Next

\* Whatever marks a row read has shown the messages, is about to, or crossed a
\* transaction that had loaded the row.
LEMMA ReadStep ==
    TypeOK /\ PushedAreTold /\ ReadsCovered /\ [Next]_vars => ReadsCovered'
<1> SUFFICES ASSUME TypeOK, PushedAreTold, ReadsCovered, [Next]_vars
             PROVE  ReadsCovered'
    BY Zenon
<1> USE DEF ReadsCovered
<1> DEFINE txn == {"system", "message"}
<1>1. ASSUME UNCHANGED <<messages, unread, web, told, crossed>>,
             at' \in txn => \/ at \in txn /\ loaded' = loaded
                            \/ loaded'.unread \subseteq unread
      PROVE  ReadsCovered'
    BY Zenon, <1>1 DEF LoadedStaysUnread, UnreadUnlessCrossed, Missed, Opening, web
<1>2. ASSUME NEW u \in Users, NEW c \in Contents, NEW reply \in BOOLEAN,
             post_message(u, c, reply)
      PROVE  ReadsCovered'
    BY <1>1, <1>2 DEF post_message, Rows, store, cu, history
<1>3. ASSUME NEW c, Stored(c), at \in txn, at' \notin txn
      PROVE  ReadsCovered'
    <2>1. LoadedStaysUnread'
        BY Zenon, <1>3 DEF LoadedStaysUnread
    <2>2. ASSUME NEW u \in Users, Missed(u)'
          PROVE  u \in unread' \cup crossed' \/ Opening(u)'
        <3>1. PICK i \in (told'[u] + 1)..Len(messages') : messages'[i].user # u
            BY Zenon, <2>2 DEF Missed
        <3>2. /\ told' = told
              /\ messages' = Append(messages, [user |-> me, content |-> c])
              /\ Opening(u)' <=> Opening(u)
              /\ unread' = unread \cup Arrivals
              /\ crossed' = crossed \ Arrivals
            BY Zenon, <1>3 DEF Stored, update_unread_status, web, Opening
        <3>3. CASE i = Len(messages) + 1
            <4>1. u # me
                BY <3>1, <3>2, <3>3 DEF TypeOK
            <4>2. u \in Arrivals \/ u \in loaded.unread
                BY Zenon, <4>1 DEF Arrivals
            <4> QED
                BY Zenon, <1>3, <3>2, <4>2 DEF LoadedStaysUnread
        <3>4. CASE i # Len(messages) + 1
            <4>0. /\ told[u] \in Nat /\ Len(messages) \in Nat
                  /\ Len(messages') = Len(messages) + 1
                  /\ \A j \in 1..Len(messages) : messages'[j] = messages[j]
                BY Zenon, <3>2, AppendKeeps DEF TypeOK
            <4>1. i \in (told[u] + 1)..Len(messages) /\ messages[i].user # u
                <5>1. i \in (told[u] + 1)..(Len(messages) + 1)
                    BY Zenon, <3>1, <3>2, <4>0
                <5>2. i \in (told[u] + 1)..Len(messages) /\ i \in 1..Len(messages)
                    BY <3>4, <4>0, <5>1
                <5> QED
                    BY Zenon, <3>1, <4>0, <5>2
            <4>2. u \in unread \cup crossed \/ Opening(u)
                BY <4>1 DEF UnreadUnlessCrossed, Missed
            <4> QED
                BY Zenon, <3>2, <4>2
        <3> QED
            BY Zenon, <3>3, <3>4
    <2> QED
        BY Zenon, <2>1, <2>2 DEF UnreadUnlessCrossed
<1>4. CASE SystemMessage
    BY <1>3, <1>4 DEF SystemMessage
<1>5. CASE MessageStored
    BY <1>3, <1>5 DEF MessageStored
<1>6. CASE Reply \/ CreateMessage \/ ServerMarks \/ PostDone
    <2>1. CASE Reply
        BY Zenon, <1>1, <2>1 DEF Reply, cu, history
    <2>2. CASE CreateMessage
        BY <1>1, <2>2 DEF CreateMessage, Return, Rows, store, cu, history
    <2>3. CASE ServerMarks
        BY Zenon, <1>1, <2>3 DEF ServerMarks, MarkNotified, history
    <2>4. CASE PostDone
        BY Zenon, <1>1, <2>4 DEF PostDone, Return, store, cu, history
    <2> QED
        BY Zenon, <1>6, <2>1, <2>2, <2>3, <2>4
<1>7. CASE ServerCrash
    BY Zenon, <1>1, <1>7 DEF ServerCrash, Return, store, cu
<1>8. ASSUME NEW u \in Users, UNCHANGED <<messages, unread>>,
             told' = [told EXCEPT ![u] = Len(messages)],
             crossed' \in {crossed, crossed \ {u}}
      PROVE  /\ ~Missed(u)'
             /\ \A v \in Users \ {u} : Missed(v)' => Missed(v)
             /\ \A v \in Users \ {u} : v \in crossed => v \in crossed'
    BY <1>8 DEF Missed, TypeOK
<1>9. ASSUME NEW u \in Users, Push(u) PROVE ReadsCovered'
    <2>1. UNCHANGED <<messages, unread, web>> /\ at' \notin txn
        BY <1>9 DEF Push, store, cu
    <2>2. \A v \in Users : Opening(v)' <=> Opening(v)
        BY <2>1 DEF Opening, web
    <2>3. /\ told' = [told EXCEPT ![u] = Len(messages)]
          /\ crossed' = crossed \ {u}
        BY <1>9 DEF Push
    <2> QED
        BY Zenon, <1>8, <2>1, <2>2, <2>3 DEF LoadedStaysUnread, UnreadUnlessCrossed
<1>10. ASSUME NEW u \in Users, notify_by_email(u) PROVE ReadsCovered'
    BY <1>1, <1>10 DEF notify_by_email, store, cu
<1>11. ASSUME NEW u \in Users, conversation_read(u) PROVE ReadsCovered'
    <2>1. /\ UNCHANGED <<messages, web, told, crossed>>
          /\ unread' \in {unread, unread \ {u}}
          /\ at' \notin txn
          /\ u \in pushed
        BY Zenon, <1>11 DEF conversation_read, mark_read, server, history
    <2>2. told[u] = Len(messages)
        BY Zenon, <1>11, <2>1 DEF conversation_read, PushedAreTold, Unserved
    <2>a. Len(messages) \in Nat
        BY DEF TypeOK
    <2>3. ~Missed(u)
        <3>1. (told[u] + 1)..Len(messages) = {}
            BY <2>2, <2>a
        <3> QED
            BY Zenon, <3>1 DEF Missed
    <2>4. \A v \in Users : (Opening(v)' <=> Opening(v)) /\ (Missed(v)' <=> Missed(v))
        BY Zenon, <2>1 DEF Opening, Missed, web
    <2> QED
        BY Zenon, <2>1, <2>3, <2>4 DEF LoadedStaysUnread, UnreadUnlessCrossed
<1>12. ASSUME NEW u \in Users, Connected(u) \/ Disconnected(u) \/ Tick(u)
       PROVE  ReadsCovered'
    BY Zenon, <1>1, <1>12 DEF Connected, Disconnected, Tick, store, cu, server, history
<1>13. ASSUME NEW w \in Web, NEW u \in Users, ShowLoad(w, u) PROVE ReadsCovered'
    <2>1. UNCHANGED <<messages, unread, at, loaded, told, crossed>>
        BY Zenon, <1>13 DEF ShowLoad, store, cu, server, history
    <2>2. \A v \in Users : Opening(v) => Opening(v)'
        BY <1>13 DEF ShowLoad, Opening, TypeOK
    <2> QED
        BY Zenon, <2>1, <2>2 DEF LoadedStaysUnread, UnreadUnlessCrossed, Missed
<1>14. ASSUME NEW w \in Web, ShowSave(w) PROVE ReadsCovered'
    <2>0. PICK u \in Users : u = reader[w]
        BY Zenon, <1>14 DEF ShowSave, TypeOK
    <2>1. /\ UNCHANGED <<messages, at, loaded, told>>
          /\ crossed \subseteq crossed'
          /\ unread \ {u} \subseteq unread'
        BY Zenon, <1>14, <2>0 DEF ShowSave, mark_read, server
    <2>2. \A v \in Users : Opening(v) => Opening(v)'
        BY Zenon, <1>14, <2>0 DEF ShowSave, Opening, TypeOK
    <2>3. Opening(u)'
        BY Zenon, <1>14, <2>0 DEF ShowSave, Opening, TypeOK
    <2>4. at \in txn /\ u \in loaded.unread => u \in crossed' \/ unread' = unread
        BY Zenon, <1>14, <2>0 DEF ShowSave, mark_read
    <2>5. LoadedStaysUnread'
        BY Zenon, <2>1, <2>4 DEF LoadedStaysUnread
    <2>6. UnreadUnlessCrossed'
        BY Zenon, <2>1, <2>2, <2>3 DEF UnreadUnlessCrossed, Missed
    <2> QED
        BY Zenon, <2>5, <2>6
<1>15. ASSUME NEW w \in Web, ShowRender(w) PROVE ReadsCovered'
    <2>0. PICK u \in Users : u = reader[w]
        BY Zenon, <1>15 DEF ShowRender, TypeOK
    <2>1. /\ UNCHANGED <<messages, unread, at, loaded>>
          /\ told' = [told EXCEPT ![u] = Len(messages)]
          /\ crossed' = IF at \in txn THEN crossed ELSE crossed \ {u}
        BY Zenon, <1>15, <2>0 DEF ShowRender, store, cu, server
    <2>2. \A v \in Users \ {u} : Opening(v) => Opening(v)'
        BY Zenon, <1>15, <2>0 DEF ShowRender, Opening, TypeOK
    <2>3. /\ ~Missed(u)'
          /\ \A v \in Users \ {u} : Missed(v)' => Missed(v)
          /\ \A v \in Users \ {u} : v \in crossed => v \in crossed'
        BY Zenon, <1>8, <2>1
    <2>4. LoadedStaysUnread'
        BY <2>1 DEF LoadedStaysUnread
    <2>5. UnreadUnlessCrossed'
        BY <2>1, <2>2, <2>3 DEF UnreadUnlessCrossed
    <2> QED
        BY <2>4, <2>5
<1>16. ASSUME NEW k \in Crons, CronQuery(k) \/ CronMarks(k) \/ CronCrash(k)
       PROVE  ReadsCovered'
    <2>1. UNCHANGED <<messages, unread, web, told, crossed, at, loaded>>
        BY Zenon, <1>16 DEF CronQuery, CronMarks, MarkNotified, CronCrash, store, cu,
                     server, history
    <2> QED
        BY <1>1, <2>1
<1>17. ASSUME NEW k \in Crons, NEW u \in Users, CronMail(k, u) PROVE ReadsCovered'
    <2>1. UNCHANGED <<messages, unread, web, told, crossed, at, loaded>>
        BY Zenon, <1>17 DEF CronMail, store, cu, server
    <2> QED
        BY Zenon, <1>1, <2>1
<1>18. CASE UNCHANGED vars
    BY <1>1, <1>18 DEF vars, store, cu, server, history
<1> HIDE DEF ReadsCovered
<1> QED
    BY Zenon, <1>2, <1>4, <1>5, <1>6, <1>7, <1>9, <1>10, <1>11, <1>12, <1>13, <1>14,
       <1>15, <1>16, <1>17, <1>18 DEF Next

-----------------------------------------------------------------------------
IInv ==
    /\ TypeOK
    /\ MailedOnce
    /\ MailsCovered
    /\ MarkedWasMailed
    /\ PushedAreTold
    /\ ReadsCovered

\* The invariant behind the theorems below.
THEOREM Inductive == Spec => []IInv
<1>1. Init => IInv
    <2> SUFFICES ASSUME Init PROVE IInv
        BY Zenon
    <2>0. /\ messages \in Seq(Message)
          /\ comment_count \in Nat
          /\ WS \in Actors
        BY DEF Init, Actors
    <2>a. /\ show \in [Web -> {"idle", "unread", "read", "saved"}]
          /\ reader \in [Web -> Users \cup {None}]
          /\ \A w \in Web : show[w] = "idle"
          /\ batch \in [Crons -> SUBSET Users]
        BY Zenon DEF Init
    <2>b. /\ saving \in [Actors -> Users \cup {None}]
          /\ saving[WS] = None
          /\ crashes \in [Actors -> 0..MaxCrashes]
        BY <2>0, MessagingAssumption DEF Init
    <2>c. /\ mails \in [Actors -> [Users -> Nat]]
          /\ told \in [Users -> Nat]
        BY Zenon DEF Init
    <2>1. TypeOK
        BY Zenon, <2>0, <2>a, <2>b, <2>c, MessagingAssumption DEF Init, TypeOK, NoRows
    <2>2. MailedOnce /\ MailsCovered
        BY MessagingAssumption DEF Init, MailedOnce, MailsCovered
    <2>3. MarkedWasMailed /\ PushedAreTold /\ LoadedStaysUnread
        BY Zenon DEF Init, MarkedWasMailed, PushedAreTold, LoadedStaysUnread
    <2>4. UnreadUnlessCrossed
        BY DEF Init, UnreadUnlessCrossed, Missed
    <2> QED
        BY <2>1, <2>2, <2>3, <2>4 DEF IInv, ReadsCovered
<1>2. IInv /\ [Next]_vars => IInv'
    BY TypeStep, MailStep, MarkedStep, PushedStep, ReadStep DEF IInv
<1> QED
    BY <1>1, <1>2, PTL DEF Spec

\* Messaging is type correct; in particular no invalid message is ever stored.
THEOREM Typed == Spec => []TypeOK
BY Inductive, PTL DEF IInv

\* No mailing process mails a member twice about one stretch of unread messages
\* unless it was killed, for any number of overlapping cron runs.
THEOREM NoRepeatedMail == Spec => []MailedOnce
BY Inductive, PTL DEF IInv

\* A mail is withheld only where one was sent, or a cron run carried one over.
THEOREM NoMailWithheld == Spec => []NotifiedWasMailed
<1>1. IInv => NotifiedWasMailed
    BY DEF IInv, MarkedWasMailed, NotifiedWasMailed
<1> QED
    BY <1>1, Inductive, PTL

\* Only a read that crosses a post can leave a message in a row not unread.
THEOREM NoMessageLost == Spec => []UnreadUnlessCrossed
BY Inductive, PTL DEF IInv, ReadsCovered
=============================================================================
