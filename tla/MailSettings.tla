---------------------------- MODULE MailSettings ----------------------------
(***************************************************************************)
(* Which mails a user gets.  email_settings has at most one row per        *)
(* address, with a column per setting; without a row everything is         *)
(* allowed.  A tab holds the settings as they were when it loaded its user *)
(* and sends all of them when the profile is saved; a web process then     *)
(* loads the row and writes the columns that differ from it.  Every mail   *)
(* names one setting to be allowed by and one in its unsubscribe link.     *)
(***************************************************************************)
EXTENDS Naturals, FiniteSets

CONSTANTS
    Tabs,
    Workers,   \* web processes
    Sent,      \* the mails that are sent: a subset of Mails
    Changed,   \* the settings the user changes: a subset of Settings
    MaxSaves   \* bound on the profiles saved

Settings == {"invitations", "conversations", "comments", "recomments", "newfollowers",
             "newsletters"}
Mails == {"invitation", "conversation_reply", "new_comment_my_request",
          "new_comment_commented_request", "new_follower", "fresh_new_posts", "newsletter"}
NoTab == "no tab"

ASSUME MailSettingsAssumption ==
    /\ Sent \subseteq Mails
    /\ Changed \subseteq Settings
    /\ NoTab \notin Tabs
    /\ MaxSaves \in Nat

VARIABLES
    stored,        \* there is a row for the address
    setting,       \* the settings the row allows
    form,          \* form[t]: the settings checked in the profile of t
    base,          \* base[t]: the settings as t got them
    at,            \* at[w]: step of w
    source,        \* source[w]: the tab whose profile w saves
    given,         \* given[w]: the settings as sent
    loaded,        \* loaded[w]: the settings of the row w found
    found,         \* the workers that found a row
    inbox,         \* mails received and not dealt with
    saves,         \* number of profiles saved
    wanted,        \* history: the settings as the user chose them last
    outdated,      \* history: settings overwritten by a tab that did not know them
    unsubscribed   \* history: mails the user has unsubscribed from

row == <<stored, setting>>
worker == <<at, source, given, loaded, found>>
vars == <<row, form, base, worker, inbox, saves, wanted, outdated, unsubscribed>>

TypeOK ==
    /\ stored \in BOOLEAN
    /\ setting \subseteq Settings
    /\ ~stored => setting = Settings
    /\ form \in [Tabs -> SUBSET Settings]
    /\ base \in [Tabs -> SUBSET Settings]
    /\ at \in [Workers -> {"idle", "load", "write"}]
    /\ source \in [Workers -> Tabs \cup {NoTab}]
    /\ given \in [Workers -> SUBSET Settings]
    /\ loaded \in [Workers -> SUBSET Settings]
    /\ found \subseteq Workers
    /\ inbox \subseteq Sent
    /\ saves \in 0..MaxSaves
    /\ wanted \subseteq Settings
    /\ outdated \subseteq Settings
    /\ unsubscribed \subseteq Sent

Init ==
    /\ stored = FALSE
    /\ setting = Settings
    /\ form = [t \in Tabs |-> Settings]
    /\ base = [t \in Tabs |-> Settings]
    /\ at = [w \in Workers |-> "idle"]
    /\ source = [w \in Workers |-> NoTab]
    /\ given = [w \in Workers |-> {}]
    /\ loaded = [w \in Workers |-> {}]
    /\ found = {}
    /\ inbox = {}
    /\ saves = 0
    /\ wanted = Settings
    /\ outdated = {}
    /\ unsubscribed = {}

-----------------------------------------------------------------------------
Differing(a, b) == (a \ b) \cup (b \ a)
\* The settings X, but as in values for those in part.
Overlay(X, values, part) == (X \ part) \cup (values \cap part)

(* Tabs. *)

\* The tab gets its user: UserMeSerializer, which makes up for a missing row.
getData(t) ==
    /\ t \notin {source[w] : w \in Workers}
    /\ form' = [form EXCEPT ![t] = setting]
    /\ base' = [base EXCEPT ![t] = setting]
    /\ UNCHANGED <<row, worker, inbox, saves, wanted, outdated, unsubscribed>>

Toggle(t, s) ==
    /\ t \notin {source[w] : w \in Workers}
    /\ form' = [form EXCEPT ![t] = Differing(@, {s})]
    /\ UNCHANGED <<row, base, worker, inbox, saves, wanted, outdated, unsubscribed>>

\* saveProfile sends all settings, and w gets the request.
saveProfile(t, w) ==
    /\ t \notin {source[v] : v \in Workers}
    /\ at[w] = "idle"
    /\ saves < MaxSaves
    /\ saves' = saves + 1
    /\ at' = [at EXCEPT ![w] = "load"]
    /\ source' = [source EXCEPT ![w] = t]
    /\ given' = [given EXCEPT ![w] = form[t]]
    /\ UNCHANGED <<row, form, base, loaded, found, inbox, wanted, outdated, unsubscribed>>

-----------------------------------------------------------------------------
(* update, in a web process. *)

\* What the user of the tab has changed.
Chosen(w) == Differing(given[w], base[source[w]])

\* The row is loaded, or a new one built.  A choice that it holds already is made.
Load(w) ==
    /\ at[w] = "load"
    /\ at' = [at EXCEPT ![w] = "write"]
    /\ loaded' = [loaded EXCEPT ![w] = setting]
    /\ found' = IF stored THEN found \cup {w} ELSE found
    /\ LET made == IF stored THEN Chosen(w) \ Differing(given[w], setting) ELSE {}
       IN /\ wanted' = Overlay(wanted, given[w], made)
          /\ outdated' = outdated \ made
    /\ UNCHANGED <<row, form, base, source, given, inbox, saves, unsubscribed>>

\* The columns the process writes: all of a new row, else what differs.
Everything(w) == Settings
Written(w) == IF w \in found THEN Differing(given[w], loaded[w]) ELSE Settings

Return(w) ==
    /\ at' = [at EXCEPT ![w] = "idle"]
    /\ source' = [source EXCEPT ![w] = NoTab]
    /\ given' = [given EXCEPT ![w] = {}]
    /\ loaded' = [loaded EXCEPT ![w] = {}]
    /\ found' = found \ {w}

\* A built row is stored with its user.
Stored == TRUE

\* The answer, which replaces the user of the tab, has the settings as given.
Write(w) ==
    LET made == Chosen(w) \cap Differing(given[w], loaded[w])
    IN /\ at[w] = "write"
       /\ w \in found \/ ~stored
       /\ stored' = Stored
       /\ setting' = Overlay(setting, given[w], Written(w))
       /\ wanted' = Overlay(wanted, given[w], made)
       /\ outdated' = (outdated \ made) \cup (Differing(given[w], loaded[w]) \ made)
       /\ form' = [form EXCEPT ![source[w]] = given[w]]
       /\ base' = [base EXCEPT ![source[w]] = given[w]]
       /\ unsubscribed' = {}
       /\ Return(w)
       /\ UNCHANGED <<inbox, saves>>

\* Another process has stored a row: the unique index refuses this one.
Refused(w) ==
    /\ at[w] = "write"
    /\ w \notin found /\ stored
    /\ Return(w)
    /\ UNCHANGED <<row, form, base, inbox, saves, wanted, outdated, unsubscribed>>

-----------------------------------------------------------------------------
(* Mails. *)

\* The setting that allows a mail.
Checked(m) ==
    CASE m = "invitation" -> "invitations"
      [] m = "conversation_reply" -> "conversations"
      [] m \in {"new_comment_my_request", "new_comment_commented_request"} -> "comments"
      [] m = "new_follower" -> "newfollowers"
      [] m \in {"fresh_new_posts", "newsletter"} -> "newsletters"

\* The setting of its unsubscribe link, which is the one the profile lists for it.
Token(m) == IF m = "new_comment_commented_request" THEN "recomments" ELSE Checked(m)

Send(m) ==
    /\ Checked(m) \in setting
    /\ inbox' = inbox \cup {m}
    /\ UNCHANGED <<row, form, base, worker, saves, wanted, outdated, unsubscribed>>

\* The link leads to a page that says it is done.  Nothing reads the token.
unsubscribe(m) ==
    /\ m \in inbox
    /\ inbox' = inbox \ {m}
    /\ unsubscribed' = unsubscribed \cup {m}
    /\ UNCHANGED <<row, form, base, worker, saves, wanted, outdated>>

-----------------------------------------------------------------------------
Next ==
    \/ \E t \in Tabs :
          \/ getData(t)
          \/ \E s \in Changed : Toggle(t, s)
          \/ \E w \in Workers : saveProfile(t, w)
    \/ \E w \in Workers : Load(w) \/ Write(w) \/ Refused(w)
    \/ \E m \in Sent : Send(m) \/ unsubscribe(m)

Spec == Init /\ [][Next]_vars

-----------------------------------------------------------------------------
\* However profiles are saved at the same time, every setting is as the user
\* chose it last, unless a tab that had got its settings before that choice sent
\* its old value along.
AsChosen == Differing(setting, wanted) \subseteq outdated

\* config/locales/en.yml:154: who follows the unsubscribe link of a mail gets no
\* such mail until a profile is saved again.
UnsubscribeStops == [][\A m \in unsubscribed : ~Send(m)]_vars

\* config/locales/en.yml:170 and 174: a mail is sent only if the profile setting
\* that is listed for it is on.
ListedSettingRules == [][\A m \in Sent : Send(m) => Token(m) \in setting]_vars

=============================================================================
