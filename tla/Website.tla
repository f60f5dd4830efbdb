-------------------------------- MODULE Website -------------------------------
(***************************************************************************)
(* The administrators' website (control/web.py): signing in through        *)
(* Discord, the settings form, and the actions and role changes that are   *)
(* queued for the worker, which checks again and writes to Discord.        *)
(* Handlers await Discord between their steps, and an answer may be lost   *)
(* on its way to the page (static/app.js), which then sends again.         *)
(***************************************************************************)
EXTENDS Naturals, FiniteSets, Sequences

CONSTANTS
  Admin,             \* people who administer the server, each with a browser
  Moderated,            \* members whose roles are changed, or one is moderated
  MaxLogins,         \* BOUND: sign-ins begun
  MaxSaves,          \* BOUND: settings saved
  MaxClicks,         \* BOUND: actions thought of
  MaxEndings,        \* BOUND: administrators who stop being one, sessions that end
  MaxWebFaults       \* BOUND: lost answers, and processes that die

ASSUME WebBounds ==
  /\ IsFiniteSet(Admin) /\ IsFiniteSet(Moderated)
  /\ {MaxLogins, MaxSaves, MaxClicks, MaxEndings, MaxWebFaults} \subseteq Nat

VARIABLES
  visitKind,        \* what this behaviour's administrators do
  admins,           \* who is an administrator at Discord
  loginCookie,      \* [Admin -> the state of the browser's last sign-in]
  oauthStates,      \* oauth_states
  webSessions,      \* [token -> the user], for those that have not ended
  cookie,           \* [Admin -> token]
  logins,           \* ADMIN_LOGIN events, by token
  revisionNow,      \* the revision of the saved settings
  settingsSaved,    \* SETTINGS_CHANGED: [revision -> what it was saved over]
  settingsPage,     \* [Admin -> revision it would send, and what it shows]
  actionForm,       \* [Admin -> the click whose answer the form awaits]
  handler,          \* [Admin -> the handler at work for this browser]
  webJobs,          \* [job -> its state and actor], the jobs of [id, member]
  actionWorker,     \* the worker's job: [job, stage]
  webEffects,       \* history: writes made at Discord, by job
  clicksAnswered,   \* history: clicks that were answered
  webCounts         \* [logins, clicks, endings, faults] so far

webVars == <<visitKind, admins, loginCookie, oauthStates, webSessions, cookie, logins,
             revisionNow, settingsSaved, settingsPage, actionForm, handler, webJobs,
             actionWorker, webEffects, clicksAnswered, webCounts>>

signingIn == <<loginCookie, oauthStates, webSessions, cookie, logins>>
settingVars == <<revisionNow, settingsSaved>>
workQueue == <<webJobs, actionWorker, webEffects>>

WebJob == [id : 1..MaxClicks, member : Moderated]
NoClick == [id |-> 0, members |-> {}]
NoHandler == [kind |-> "none"]
NotAtWork == [stage |-> "idle"]

WebTypeOK ==
  /\ admins \subseteq Admin /\ oauthStates \subseteq 1..MaxLogins /\ logins \subseteq 1..MaxLogins
  /\ loginCookie \in [Admin -> 0..MaxLogins] /\ cookie \in [Admin -> 0..MaxLogins]
  /\ DOMAIN webSessions \subseteq 1..MaxLogins
  /\ revisionNow \in 0..MaxSaves /\ Len(settingsSaved) = revisionNow
  /\ \A p \in Admin : actionForm[p].id \in 0..MaxClicks
  /\ DOMAIN webJobs \subseteq WebJob

FirstToken == CHOOSE f \in [Admin -> 1..Cardinality(Admin)] :
                \A p, q \in Admin : f[p] = f[q] => p = q

(* Signing in, saving settings and asking for actions meet only in the     *)
(* session they need: a behaviour is about one of them, the latter two by  *)
(* administrators who have signed in.                                      *)
WebInit ==
  /\ visitKind \in {"login", "settings", "actions"}
  /\ admins = Admin /\ loginCookie = [p \in Admin |-> 0] /\ oauthStates = {}
  /\ cookie = IF visitKind = "login" THEN [p \in Admin |-> 0] ELSE FirstToken
  /\ logins = {cookie[p] : p \in Admin} \ {0}
  /\ webSessions = [t \in logins |-> CHOOSE p \in Admin : cookie[p] = t]
  /\ revisionNow = 0 /\ settingsSaved = <<>>
  /\ settingsPage = [p \in Admin |-> [sent |-> 0, shows |-> {}]]
  /\ actionForm = [p \in Admin |-> NoClick] /\ handler = [p \in Admin |-> NoHandler]
  /\ webJobs = <<>> /\ actionWorker = NotAtWork
  /\ webEffects = [j \in WebJob |-> 0] /\ clicksAnswered = {}
  /\ webCounts = [logins |-> 0, clicks |-> 0, endings |-> 0, faults |-> 0]

WebCounted(k, max) == webCounts[k] < max /\ webCounts' = [webCounts EXCEPT ![k] = @ + 1]
WebFault == WebCounted("faults", MaxWebFaults)
IdleBrowser(p) == handler[p] = NoHandler
Handles(p, r) == handler' = [handler EXCEPT ![p] = r]
SignedIn(p) == cookie[p] \in DOMAIN webSessions
WithKey(f, k, v) == [x \in DOMAIN f \cup {k} |-> IF x = k THEN v ELSE f[x]]

-----------------------------------------------------------------------------
(* Discord, and processes                                                 *)

Demoted(p) ==
  /\ p \in admins /\ WebCounted("endings", MaxEndings) /\ admins' = admins \ {p}
  /\ UNCHANGED <<visitKind, signingIn, settingVars, settingsPage, actionForm, handler,
                 workQueue, clicksAnswered>>

(* The website's process dies with the requests it was serving.           *)
WebsiteDies ==
  /\ WebFault /\ handler' = [p \in Admin |-> NoHandler]
  /\ UNCHANGED <<visitKind, admins, signingIn, settingVars, settingsPage, actionForm,
                 workQueue, clicksAnswered>>

-----------------------------------------------------------------------------
(* Signing in                                                             *)

(* A second sign-in in the browser replaces the first one's cookie.       *)
Login(p) ==
  /\ visitKind = "login" /\ IdleBrowser(p) /\ WebCounted("logins", MaxLogins)
  /\ oauthStates' = oauthStates \cup {webCounts'.logins}
  /\ loginCookie' = [loginCookie EXCEPT ![p] = webCounts'.logins]
  /\ UNCHANGED <<visitKind, admins, webSessions, cookie, logins, settingVars,
                 settingsPage, actionForm, handler, workQueue, clicksAnswered>>

(* The state is used up before Discord is asked who it is; an answer that  *)
(* is loaded a second time finds it gone.                                  *)
Callback(p) ==
  /\ IdleBrowser(p) /\ loginCookie[p] \in oauthStates
  /\ oauthStates' = oauthStates \ {loginCookie[p]}
  /\ Handles(p, [kind |-> "login", token |-> loginCookie[p], stage |-> "identity"])
  /\ UNCHANGED <<visitKind, admins, loginCookie, webSessions, cookie, logins,
                 settingVars, settingsPage, actionForm, workQueue, webCounts,
                 clicksAnswered>>

(* The session and the ADMIN_LOGIN event are two transactions.            *)
OpensSession(p) ==
  LET r == handler[p] IN
  /\ r.kind = "login" /\ r.stage = "identity"
  /\ IF p \in admins
     THEN /\ Handles(p, [r EXCEPT !.stage = "opened"])
          /\ webSessions' = WithKey(webSessions, r.token, p)
     ELSE Handles(p, NoHandler) /\ UNCHANGED webSessions
  /\ UNCHANGED <<visitKind, admins, loginCookie, oauthStates, cookie, logins,
                 settingVars, settingsPage, actionForm, workQueue, webCounts,
                 clicksAnswered>>

RecordsLogin(p) ==
  LET r == handler[p] IN
  /\ r.kind = "login" /\ r.stage = "opened"
  /\ logins' = logins \cup {r.token} /\ Handles(p, [r EXCEPT !.stage = "answer"])
  /\ UNCHANGED <<visitKind, admins, loginCookie, oauthStates, webSessions, cookie,
                 settingVars, settingsPage, actionForm, workQueue, webCounts,
                 clicksAnswered>>

SessionAnswered(p) ==
  LET r == handler[p] IN
  /\ r.kind = "login" /\ r.stage = "answer" /\ Handles(p, NoHandler)
  /\ cookie' = [cookie EXCEPT ![p] = r.token] /\ loginCookie' = [loginCookie EXCEPT ![p] = 0]
  /\ UNCHANGED <<visitKind, admins, oauthStates, webSessions, logins, settingVars,
                 settingsPage, actionForm, workQueue, webCounts, clicksAnswered>>

(* Signing out is asked by an administrator; eight hours end any session. *)
SessionEnds(t) ==
  /\ t \in DOMAIN webSessions /\ WebCounted("endings", MaxEndings)
  /\ webSessions' = [u \in DOMAIN webSessions \ {t} |-> webSessions[u]]
  /\ UNCHANGED <<visitKind, admins, loginCookie, oauthStates, cookie, logins,
                 settingVars, settingsPage, actionForm, handler, workQueue,
                 clicksAnswered>>

-----------------------------------------------------------------------------
(* A private request reads its session, then awaits Discord's word that    *)
(* the user is an administrator still; more is awaited before it commits.  *)
RequestBegins(p, r) ==
  /\ IdleBrowser(p) /\ SignedIn(p) /\ Handles(p, r)
  /\ UNCHANGED <<visitKind, admins, signingIn, settingVars, settingsPage, workQueue,
                 clicksAnswered>>

RequireAdmin(p) ==
  LET r == handler[p] IN
  /\ r.kind \in {"save", "queue", "load"} /\ r.stage = "session"
  /\ Handles(p, IF p \in admins THEN [r EXCEPT !.stage = "checked"] ELSE NoHandler)
  /\ UNCHANGED <<visitKind, admins, signingIn, settingVars, settingsPage, actionForm,
                 workQueue, webCounts, clicksAnswered>>

(* The answer arrives, or the page is left as it was.                     *)
WebAnswer(p, lands) ==
  \/ lands /\ UNCHANGED webCounts
  \/ WebFault /\ UNCHANGED <<settingsPage, actionForm>>

LoadsPage(p) ==
  /\ visitKind = "settings" /\ RequestBegins(p, [kind |-> "load", stage |-> "session"])
  /\ UNCHANGED <<actionForm, webCounts>>

PageLoaded(p) ==
  /\ handler[p] = [kind |-> "load", stage |-> "checked"] /\ Handles(p, NoHandler)
  /\ settingsPage' = [settingsPage EXCEPT ![p] = [sent |-> revisionNow, shows |-> {revisionNow}]]
  /\ UNCHANGED <<visitKind, admins, signingIn, settingVars, actionForm, workQueue,
                 webCounts, clicksAnswered>>

-----------------------------------------------------------------------------
(* Settings                                                               *)

SubmitsSettings(p) ==
  /\ settingsPage[p].shows # {} /\ revisionNow < MaxSaves
  /\ RequestBegins(p, [kind |-> "save", stage |-> "session",
                       sent |-> settingsPage[p].sent, shows |-> settingsPage[p].shows])
  /\ UNCHANGED <<actionForm, webCounts>>

(* A variant: no revision is compared.                                    *)
AnyRevision(sent) == TRUE

(* One transaction compares the revision, writes and appends the event.   *)
SameRevision(sent) == sent = revisionNow

SavesSettings(p) ==
  LET r == handler[p] IN
  /\ r.kind = "save" /\ r.stage = "checked" /\ revisionNow < MaxSaves
  /\ IF SameRevision(r.sent)
     THEN /\ revisionNow' = revisionNow + 1
          /\ settingsSaved' = Append(settingsSaved, [over |-> r.sent, shows |-> r.shows, by |-> p])
          /\ Handles(p, [kind |-> "saved", own |-> revisionNow + 1])
     ELSE Handles(p, NoHandler) /\ UNCHANGED <<settingVars>>
  /\ UNCHANGED <<visitKind, admins, signingIn, settingsPage, actionForm, workQueue,
                 webCounts, clicksAnswered>>

(* The answer is read in the same step of the one process that saves: the  *)
(* page takes its revision, and goes on showing what it sent.              *)
SettingsAnswered(p) ==
  LET r == handler[p] IN
  /\ r.kind = "saved" /\ Handles(p, NoHandler)
  /\ WebAnswer(p, /\ settingsPage' = [settingsPage EXCEPT
                        ![p] = [sent |-> r.own, shows |-> {r.own}]]
               /\ UNCHANGED actionForm)
  /\ UNCHANGED <<visitKind, admins, signingIn, settingVars, workQueue,
                 clicksAnswered>>

-----------------------------------------------------------------------------
(* Actions and role changes                                               *)

(* The form keeps its request ID, and what was reviewed, until an answer   *)
(* comes.                                                                  *)
ClicksAction(p, members) ==
  /\ visitKind = "actions"
  /\ IF actionForm[p] # NoClick
     THEN members = actionForm[p].members /\ UNCHANGED <<actionForm, webCounts>>
     ELSE /\ WebCounted("clicks", MaxClicks)
          /\ actionForm' = [actionForm EXCEPT
                ![p] = [id |-> webCounts'.clicks, members |-> members]]
  /\ RequestBegins(p, [kind |-> "queue", stage |-> "session",
                       id |-> actionForm'[p].id, members |-> members])

(* A variant: a request that is sent again is queued again.               *)
QueuesAnew(j) == TRUE

(* A known request ID is answered with the job there is.                  *)
Unknown(j) == j \notin DOMAIN webJobs

(* Members are queued one by one, each in a transaction of its own.       *)
QueuesMember(p) ==
  LET r == handler[p] IN
  /\ r.kind = "queue" /\ r.stage = "checked"
  /\ \E m \in r.members :
       LET j == [id |-> r.id, member |-> m] IN
       /\ webJobs' = IF Unknown(j) THEN WithKey(webJobs, j, [state |-> "queued", actor |-> p])
                     ELSE webJobs
       /\ Handles(p, [r EXCEPT !.members = @ \ {m},
                            !.stage = IF r.members = {m} THEN "answer" ELSE @])
  /\ UNCHANGED <<visitKind, admins, signingIn, settingVars, settingsPage, actionForm,
                 actionWorker, webEffects, webCounts, clicksAnswered>>

QueueAnswered(p) ==
  LET r == handler[p] IN
  /\ r.kind = "queue" /\ r.stage = "answer" /\ Handles(p, NoHandler)
  /\ WebAnswer(p, actionForm' = [actionForm EXCEPT ![p] = NoClick] /\ UNCHANGED settingsPage)
  /\ clicksAnswered' = clicksAnswered \cup {actionForm[p]}
  /\ UNCHANGED <<visitKind, admins, signingIn, settingVars, workQueue>>

-----------------------------------------------------------------------------
(* The worker (worker.py execute_one)                                     *)

ClaimsJob(j) ==
  /\ actionWorker = NotAtWork /\ j \in DOMAIN webJobs /\ webJobs[j].state = "queued"
  /\ webJobs' = [webJobs EXCEPT ![j].state = "executing"]
  /\ actionWorker' = [stage |-> "claimed", job |-> j]
  /\ UNCHANGED <<visitKind, admins, signingIn, settingVars, settingsPage, actionForm,
                 handler, webEffects, webCounts, clicksAnswered>>

Finishing(result) ==
  actionWorker' = [stage |-> "finishing", job |-> actionWorker.job, result |-> result]

(* The actor is asked about again, whatever the website had found.        *)
Authorizes ==
  /\ actionWorker.stage = "claimed"
  /\ IF webJobs[actionWorker.job].actor \in admins
     THEN actionWorker' = [actionWorker EXCEPT !.stage = "authorized"] \/ Finishing("denied")
     ELSE Finishing("denied")
  /\ UNCHANGED <<visitKind, admins, signingIn, settingVars, settingsPage, actionForm,
                 handler, webJobs, webEffects, webCounts, clicksAnswered>>

(* The result says little of the writes: a role that is as wished, or a    *)
(* mute that is in force, completes without one; Discord may refuse the    *)
(* second channel of a mute, or not confirm a role, after the first write  *)
(* has landed.  Nothing is tried a second time.                            *)
Executes(landed, result) ==
  /\ actionWorker.stage = "authorized"
  /\ webEffects' = [webEffects EXCEPT ![actionWorker.job] = IF landed THEN @ + 1 ELSE @]
  /\ Finishing(result)
  /\ UNCHANGED <<visitKind, admins, signingIn, settingVars, settingsPage, actionForm,
                 handler, webJobs, webCounts, clicksAnswered>>

FinishesJob ==
  /\ actionWorker.stage = "finishing" /\ actionWorker' = NotAtWork
  /\ webJobs' = [webJobs EXCEPT ![actionWorker.job].state = actionWorker.result]
  /\ UNCHANGED <<visitKind, admins, signingIn, settingVars, settingsPage, actionForm,
                 handler, webEffects, webCounts, clicksAnswered>>

(* The claimed job stays executing, for a person to look at.              *)
WorkerGone ==
  /\ actionWorker # NotAtWork /\ WebFault /\ actionWorker' = NotAtWork
  /\ UNCHANGED <<visitKind, admins, signingIn, settingVars, settingsPage, actionForm,
                 handler, webJobs, webEffects, clicksAnswered>>

-----------------------------------------------------------------------------
WebNext ==
  \/ \E p \in Admin :
       \/ Demoted(p) \/ Login(p) \/ Callback(p) \/ OpensSession(p) \/ RecordsLogin(p)
       \/ SessionAnswered(p) \/ RequireAdmin(p) \/ LoadsPage(p) \/ PageLoaded(p)
       \/ SubmitsSettings(p) \/ SavesSettings(p) \/ SettingsAnswered(p)
       \/ QueuesMember(p) \/ QueueAnswered(p)
       \/ \E members \in (SUBSET Moderated) \ {{}} : ClicksAction(p, members)
  \/ WebsiteDies \/ Authorizes \/ FinishesJob \/ WorkerGone
  \/ \E t \in DOMAIN webSessions : SessionEnds(t)
  \/ \E j \in DOMAIN webJobs : ClaimsJob(j)
  \/ \E landed \in BOOLEAN, result \in {"completed", "denied", "unknown"} :
       Executes(landed, result)

WebSpec == WebInit /\ [][WebNext]_webVars

-----------------------------------------------------------------------------
(* No settings are replaced unseen: a save goes over the values its page   *)
(* showed, loaded or saved from there, whatever answers were lost.         *)
SettingsSeen == \A n \in DOMAIN settingsSaved :
                  settingsSaved[n].over = n - 1 /\ settingsSaved[n].shows = {n - 1}

(* A click, however often it is sent, is done at most once to each member, *)
(* and to nobody before the worker took it; an answered click left nobody  *)
(* out; and a browser holds no session whose sign-in is not in the         *)
(* journal.                                                                *)
ClickedOnce ==
  /\ \A j \in WebJob : webEffects[j] <= 1
  /\ \A j \in DOMAIN webJobs : webJobs[j].state = "queued" => webEffects[j] = 0
  /\ \A c \in clicksAnswered : \A m \in c.members : [id |-> c.id, member |-> m] \in DOMAIN webJobs
  /\ \A p \in Admin : SignedIn(p) => cookie[p] \in logins /\ webSessions[cookie[p]] = p
=============================================================================
