------------------------------- MODULE AskedProofs ------------------------------
(***************************************************************************)
(* Proofs about what is answered when somebody asks: on the website        *)
(* (settings replaced unseen by nobody, clicks done once, sessions of who  *)
(* signed in), to a command (for the server that asked), about a kill (the *)
(* raid it belongs to) and about a raid night (the figures of its card).   *)
(***************************************************************************)
EXTENDS Website, Commands, Attribution, Figures, FiniteSetTheorems, WellFoundedInduction,
        TLAPS

-----------------------------------------------------------------------------
(* The website's handlers *)

WebSafety == WebInit /\ [][WebNext]_webVars

LoginHandler == [kind : {"login"}, token : Nat, stage : {"identity", "opened", "answer"}]
LoadHandler == [kind : {"load"}, stage : {"session", "checked"}]
SaveHandler == [kind : {"save"}, stage : {"session", "checked"}, sent : Nat, shows : SUBSET Nat]
SavedHandler == [kind : {"saved"}, own : Nat]
QueueHandler == [kind : {"queue"}, stage : {"session", "checked", "answer"}, id : Nat,
                 members : SUBSET Moderated]
Handler == {NoHandler} \cup LoginHandler \cup LoadHandler \cup SaveHandler \cup SavedHandler
           \cup QueueHandler

WebShapes ==
  /\ handler \in [Admin -> Handler]
  /\ settingsPage \in [Admin -> [sent : Nat, shows : SUBSET Nat]]
  /\ actionForm \in [Admin -> [id : Nat, members : SUBSET Moderated]]
  /\ loginCookie \in [Admin -> Nat] /\ cookie \in [Admin -> Nat]
  /\ webCounts.logins \in Nat /\ webCounts.clicks \in Nat /\ revisionNow \in Nat
  /\ webCounts = [logins |-> webCounts.logins, clicks |-> webCounts.clicks,
                  endings |-> webCounts.endings, faults |-> webCounts.faults]

(* One handler at a time moves on. *)
LEMMA HandlerOf ==
  ASSUME NEW p \in Admin, NEW r, handler \in [Admin -> Handler], Handles(p, r)
  PROVE  /\ handler'[p] = r /\ \A q \in Admin : q # p => handler'[q] = handler[q]
         /\ r \in Handler => handler' \in [Admin -> Handler]
  BY DEF Handles

LEMMA Stages ==
  ASSUME NEW r \in Handler
  PROVE  /\ r.kind = "login" => r \in LoginHandler
         /\ r.kind = "load" => r \in LoadHandler
         /\ r.kind = "save" => r \in SaveHandler
         /\ r.kind = "saved" => r \in SavedHandler
         /\ r.kind = "queue" => r \in QueueHandler
         /\ r.kind \in {"none", "login", "load", "save", "saved", "queue"}
  BY DEF Handler, NoHandler, LoginHandler, LoadHandler, SaveHandler, SavedHandler, QueueHandler

(* The stage a private request goes on to. *)
LEMMA Checked ==
  ASSUME NEW r \in Handler, r.kind \in {"save", "queue", "load"}
  PROVE  LET s == [r EXCEPT !.stage = "checked"]
         IN /\ s \in Handler /\ s.kind = r.kind /\ s.stage = "checked"
            /\ r.kind = "save" => s.sent = r.sent /\ s.shows = r.shows
            /\ r.kind = "queue" => s.id = r.id /\ s.members = r.members
<1> DEFINE s == [r EXCEPT !.stage = "checked"]
<1>1. CASE r.kind = "save"
  <2>1. r = [kind |-> "save", stage |-> r.stage, sent |-> r.sent, shows |-> r.shows]
        /\ r.sent \in Nat /\ r.shows \in SUBSET Nat
    BY <1>1, Stages DEF SaveHandler
  <2>2. s = [kind |-> "save", stage |-> "checked", sent |-> r.sent, shows |-> r.shows]
    BY <2>1
  <2>3. s \in SaveHandler  BY <2>1, <2>2 DEF SaveHandler
  <2> QED  BY <1>1, <2>2, <2>3 DEF Handler
<1>2. CASE r.kind = "queue"
  <2>1. r = [kind |-> "queue", stage |-> r.stage, id |-> r.id, members |-> r.members]
        /\ r.id \in Nat /\ r.members \in SUBSET Moderated
    BY <1>2, Stages DEF QueueHandler
  <2>2. s = [kind |-> "queue", stage |-> "checked", id |-> r.id, members |-> r.members]
    BY <2>1
  <2>3. s \in QueueHandler  BY <2>1, <2>2 DEF QueueHandler
  <2> QED  BY <1>2, <2>2, <2>3 DEF Handler
<1>3. CASE r.kind = "load"
  <2>1. r = [kind |-> "load", stage |-> r.stage]
    BY <1>3, Stages DEF LoadHandler
  <2>2. s = [kind |-> "load", stage |-> "checked"]
    BY <2>1
  <2>3. s \in LoadHandler  BY <2>2 DEF LoadHandler
  <2> QED  BY <1>3, <2>2, <2>3 DEF Handler
<1> QED  BY <1>1, <1>2, <1>3

(* A browser's handler ends, and with it whatever it held. *)
LEMMA NoHandlerIs == NoHandler \in Handler /\ NoHandler.kind = "none"
  BY DEF Handler, NoHandler

LEMMA RequestShapes ==
  ASSUME WebShapes, NEW p \in Admin, NEW r \in Handler, RequestBegins(p, r),
         UNCHANGED <<actionForm, webCounts>>
  PROVE  WebShapes'
  BY HandlerOf DEF RequestBegins, WebShapes, signingIn, settingVars

(* A member of a click that has been seen to. *)
LEMMA WithoutMember ==
  ASSUME NEW r, r = [kind |-> "queue", stage |-> r.stage, id |-> r.id, members |-> r.members],
         NEW m
  PROVE  [r EXCEPT !.members = @ \ {m}, !.stage = IF r.members = {m} THEN "answer" ELSE @]
           = [kind |-> "queue", stage |-> IF r.members = {m} THEN "answer" ELSE r.stage,
              id |-> r.id, members |-> r.members \ {m}]
<1>1. ASSUME NEW a, NEW b
      PROVE  [r EXCEPT !.members = a, !.stage = b]
               = [kind |-> "queue", stage |-> b, id |-> r.id, members |-> a]
  <2>1. PICK s : s = [r EXCEPT !.members = a]
    OBVIOUS
  <2>2. s = [kind |-> "queue", stage |-> r.stage, id |-> r.id, members |-> a]
    BY <2>1
  <2>3. [s EXCEPT !.stage = b] = [kind |-> "queue", stage |-> b, id |-> r.id, members |-> a]
    BY <2>2
  <2> QED  BY <2>1, <2>3
<1> QED  BY <1>1

LEMMA QueueMoves ==
  ASSUME WebShapes, NEW p \in Admin, QueuesMember(p)
  PROVE  LET r == handler[p] IN
         /\ r = [kind |-> "queue", stage |-> r.stage, id |-> r.id, members |-> r.members]
         /\ r.id \in Nat /\ r.members \in SUBSET Moderated /\ r.stage = "checked"
         /\ \E m \in r.members :
              LET j == [id |-> r.id, member |-> m] IN
              /\ webJobs' = IF Unknown(j) THEN WithKey(webJobs, j, [state |-> "queued", actor |-> p])
                            ELSE webJobs
              /\ Handles(p, [kind |-> "queue",
                             stage |-> IF r.members = {m} THEN "answer" ELSE r.stage,
                             id |-> r.id, members |-> r.members \ {m}])
<1> DEFINE r == handler[p]
<1>1. r = [kind |-> "queue", stage |-> r.stage, id |-> r.id, members |-> r.members]
      /\ r.id \in Nat /\ r.members \in SUBSET Moderated /\ r.stage = "checked"
  BY Stages DEF QueuesMember, QueueHandler, WebShapes
<1>2. PICK m \in r.members :
        /\ webJobs' = IF Unknown([id |-> r.id, member |-> m])
                        THEN WithKey(webJobs, [id |-> r.id, member |-> m],
                                     [state |-> "queued", actor |-> p])
                      ELSE webJobs
        /\ Handles(p, [r EXCEPT !.members = @ \ {m},
                             !.stage = IF r.members = {m} THEN "answer" ELSE @])
  BY DEF QueuesMember
<1>3. [r EXCEPT !.members = @ \ {m}, !.stage = IF r.members = {m} THEN "answer" ELSE @]
        = [kind |-> "queue", stage |-> IF r.members = {m} THEN "answer" ELSE r.stage,
           id |-> r.id, members |-> r.members \ {m}]
  <2>1. r = [kind |-> "queue", stage |-> r.stage, id |-> r.id, members |-> r.members]
    BY <1>1
  <2> HIDE DEF r
  <2> QED  BY <2>1, WithoutMember
<1> QED  BY <1>1, <1>2, <1>3

LEMMA WebShapesStep == WebShapes /\ [WebNext]_webVars => WebShapes'
<1> SUFFICES ASSUME WebShapes, [WebNext]_webVars PROVE WebShapes'
  OBVIOUS
<1>0. handler \in [Admin -> Handler]  BY DEF WebShapes
<1>1. CASE UNCHANGED webVars
  BY <1>1 DEF webVars, WebShapes
<1>2. ASSUME NEW p \in Admin, Demoted(p) PROVE WebShapes'
  BY <1>2 DEF Demoted, WebCounted, WebShapes, signingIn, settingVars
<1>3. ASSUME NEW p \in Admin, Login(p) PROVE WebShapes'
  <2>1. webCounts' = [logins |-> webCounts.logins + 1, clicks |-> webCounts.clicks,
                      endings |-> webCounts.endings, faults |-> webCounts.faults]
        /\ webCounts.logins \in Nat /\ webCounts.clicks \in Nat
    BY <1>3 DEF Login, WebCounted, WebShapes
  <2> QED  BY <1>3, <2>1 DEF Login, WebShapes, settingVars
<1>4. ASSUME NEW p \in Admin, Callback(p) PROVE WebShapes'
  <2>1. [kind |-> "login", token |-> loginCookie[p], stage |-> "identity"] \in Handler
    BY DEF WebShapes, Handler, LoginHandler
  <2> QED  BY <1>0, <1>4, <2>1, HandlerOf DEF Callback, WebShapes, settingVars
<1>5. ASSUME NEW p \in Admin, OpensSession(p) \/ RecordsLogin(p) PROVE WebShapes'
  <2> DEFINE r == handler[p]
  <2>1. r \in LoginHandler  BY <1>0, <1>5, Stages DEF OpensSession, RecordsLogin
  <2>2. r = [kind |-> "login", token |-> r.token, stage |-> r.stage] /\ r.token \in Nat
    BY <2>1 DEF LoginHandler
  <2>3. [r EXCEPT !.stage = "opened"] = [kind |-> "login", token |-> r.token, stage |-> "opened"]
        /\ [r EXCEPT !.stage = "answer"] = [kind |-> "login", token |-> r.token, stage |-> "answer"]
    BY <2>2
  <2>4. [kind |-> "login", token |-> r.token, stage |-> "opened"] \in Handler
        /\ [kind |-> "login", token |-> r.token, stage |-> "answer"] \in Handler
    BY <2>2 DEF Handler, LoginHandler
  <2>5. handler' \in [Admin -> Handler]
    BY <1>0, <1>5, <2>3, <2>4, NoHandlerIs, HandlerOf DEF OpensSession, RecordsLogin
  <2> QED  BY <1>5, <2>5 DEF OpensSession, RecordsLogin, WebShapes, settingVars
<1>6. ASSUME NEW p \in Admin, SessionAnswered(p) PROVE WebShapes'
  <2>1. handler[p].token \in Nat  BY <1>0, <1>6, Stages DEF SessionAnswered, LoginHandler
  <2> QED  BY <1>0, <1>6, <2>1, NoHandlerIs, HandlerOf DEF SessionAnswered, WebShapes, settingVars
<1>7. ASSUME NEW p \in Admin, RequireAdmin(p) PROVE WebShapes'
  <2>1. handler' \in [Admin -> Handler]
    BY <1>0, <1>7, Checked, NoHandlerIs, HandlerOf DEF RequireAdmin
  <2> QED  BY <1>7, <2>1 DEF RequireAdmin, WebShapes, signingIn, settingVars
<1>8. ASSUME NEW p \in Admin, LoadsPage(p) PROVE WebShapes'
  <2>1. [kind |-> "load", stage |-> "session"] \in Handler  BY DEF Handler, LoadHandler
  <2> QED  BY <1>8, <2>1, RequestShapes DEF LoadsPage
<1>9. ASSUME NEW p \in Admin, PageLoaded(p) PROVE WebShapes'
  BY <1>0, <1>9, NoHandlerIs, HandlerOf DEF PageLoaded, WebShapes, signingIn, settingVars
<1>10. ASSUME NEW p \in Admin, SubmitsSettings(p) PROVE WebShapes'
  <2>1. [kind |-> "save", stage |-> "session", sent |-> settingsPage[p].sent,
         shows |-> settingsPage[p].shows] \in Handler
    BY DEF WebShapes, Handler, SaveHandler
  <2> QED  BY <1>10, <2>1, RequestShapes DEF SubmitsSettings
<1>11. ASSUME NEW p \in Admin, SavesSettings(p) PROVE WebShapes'
  <2>1. revisionNow \in Nat  BY DEF WebShapes
  <2>2. [kind |-> "saved", own |-> revisionNow + 1] \in Handler
    BY <2>1 DEF Handler, SavedHandler
  <2>3. handler' \in [Admin -> Handler] /\ revisionNow' \in Nat
    BY <1>0, <1>11, <2>1, <2>2, NoHandlerIs, HandlerOf DEF SavesSettings, settingVars
  <2> QED  BY <1>11, <2>3 DEF SavesSettings, WebShapes, signingIn
<1>12. ASSUME NEW p \in Admin, SettingsAnswered(p) PROVE WebShapes'
  <2>1. handler' \in [Admin -> Handler]
    BY <1>0, <1>12, NoHandlerIs, HandlerOf DEF SettingsAnswered
  <2>2. /\ settingsPage' \in [Admin -> [sent : Nat, shows : SUBSET Nat]]
        /\ actionForm' = actionForm
        /\ webCounts'.logins = webCounts.logins /\ webCounts'.clicks = webCounts.clicks
        /\ webCounts' = [logins |-> webCounts'.logins, clicks |-> webCounts'.clicks,
                         endings |-> webCounts'.endings, faults |-> webCounts'.faults]
    <3>1. CASE /\ settingsPage' = [settingsPage EXCEPT
                     ![p] = [sent |-> handler[p].own, shows |-> {handler[p].own}]]
               /\ UNCHANGED <<actionForm, webCounts>>
      <4>1. handler[p].own \in Nat  BY <1>0, <1>12, Stages DEF SettingsAnswered, SavedHandler
      <4> QED  BY <3>1, <4>1 DEF WebShapes
    <3>2. CASE WebFault /\ UNCHANGED <<settingsPage, actionForm>>
      BY <3>2 DEF WebFault, WebCounted, WebShapes
    <3> QED  BY <1>12, <3>1, <3>2 DEF SettingsAnswered, WebAnswer
  <2> QED  BY <1>12, <2>1, <2>2 DEF SettingsAnswered, WebShapes, signingIn, settingVars
<1>13. ASSUME NEW p \in Admin, QueuesMember(p) PROVE WebShapes'
  <2> DEFINE r == handler[p]
  <2>1. r.id \in Nat /\ r.members \in SUBSET Moderated /\ r.stage = "checked"
    BY <1>13, QueueMoves
  <2>3. PICK m \in r.members :
          Handles(p, [kind |-> "queue", stage |-> IF r.members = {m} THEN "answer" ELSE r.stage,
                      id |-> r.id, members |-> r.members \ {m}])
    BY <1>13, QueueMoves
  <2>4. handler' \in [Admin -> Handler]
    <3>1. [kind |-> "queue", stage |-> IF r.members = {m} THEN "answer" ELSE r.stage,
           id |-> r.id, members |-> r.members \ {m}] \in Handler
      BY <2>1 DEF Handler, QueueHandler
    <3> QED  BY <1>0, <2>3, <3>1, HandlerOf
  <2> QED  BY <1>13, <2>4 DEF QueuesMember, WebShapes, signingIn, settingVars
<1>14. ASSUME NEW p \in Admin, QueueAnswered(p) PROVE WebShapes'
  <2>1. handler' \in [Admin -> Handler]
    BY <1>0, <1>14, NoHandlerIs, HandlerOf DEF QueueAnswered
  <2>2. /\ actionForm' \in [Admin -> [id : Nat, members : SUBSET Moderated]]
        /\ settingsPage' = settingsPage
        /\ webCounts'.logins = webCounts.logins /\ webCounts'.clicks = webCounts.clicks
        /\ webCounts' = [logins |-> webCounts'.logins, clicks |-> webCounts'.clicks,
                         endings |-> webCounts'.endings, faults |-> webCounts'.faults]
    <3>1. CASE actionForm' = [actionForm EXCEPT ![p] = NoClick]
               /\ UNCHANGED <<settingsPage, webCounts>>
      BY <3>1 DEF WebShapes, NoClick
    <3>2. CASE WebFault /\ UNCHANGED <<settingsPage, actionForm>>
      BY <3>2 DEF WebFault, WebCounted, WebShapes
    <3> QED  BY <1>14, <3>1, <3>2 DEF QueueAnswered, WebAnswer
  <2> QED  BY <1>14, <2>1, <2>2 DEF QueueAnswered, WebShapes, signingIn, settingVars
<1>15. ASSUME NEW p \in Admin, NEW members \in (SUBSET Moderated) \ {{}}, ClicksAction(p, members)
       PROVE  WebShapes'
  <2>1. /\ actionForm' \in [Admin -> [id : Nat, members : SUBSET Moderated]]
        /\ webCounts'.logins = webCounts.logins /\ webCounts'.clicks \in Nat
        /\ webCounts' = [logins |-> webCounts'.logins, clicks |-> webCounts'.clicks,
                         endings |-> webCounts'.endings, faults |-> webCounts'.faults]
    <3>1. CASE UNCHANGED <<actionForm, webCounts>>  BY <3>1 DEF WebShapes
    <3>2. CASE /\ WebCounted("clicks", MaxClicks)
               /\ actionForm' = [actionForm EXCEPT
                     ![p] = [id |-> webCounts'.clicks, members |-> members]]
      <4>1. webCounts' = [logins |-> webCounts.logins, clicks |-> webCounts.clicks + 1,
                          endings |-> webCounts.endings, faults |-> webCounts.faults]
        BY <3>2 DEF WebCounted, WebShapes
      <4> QED  BY <3>2, <4>1 DEF WebShapes
    <3> QED  BY <1>15, <3>1, <3>2 DEF ClicksAction
  <2>2. [kind |-> "queue", stage |-> "session", id |-> actionForm'[p].id, members |-> members]
          \in Handler
    BY <2>1 DEF Handler, QueueHandler
  <2> QED  BY <1>0, <1>15, <2>1, <2>2, HandlerOf
           DEF ClicksAction, RequestBegins, WebShapes, signingIn, settingVars
<1>16. CASE WebsiteDies
  BY <1>16, NoHandlerIs DEF WebsiteDies, WebFault, WebCounted, WebShapes, signingIn, settingVars
<1>17. CASE Authorizes \/ FinishesJob \/ (\E j \in DOMAIN webJobs : ClaimsJob(j))
            \/ (\E landed \in BOOLEAN, result \in {"completed", "denied", "unknown"} :
                  Executes(landed, result))
  BY <1>17 DEF Authorizes, FinishesJob, ClaimsJob, Executes, WebShapes, signingIn, settingVars
<1>18. CASE WorkerGone
  BY <1>18 DEF WorkerGone, WebFault, WebCounted, WebShapes, signingIn, settingVars
<1>19. ASSUME NEW t \in DOMAIN webSessions, SessionEnds(t) PROVE WebShapes'
  BY <1>19 DEF SessionEnds, WebCounted, WebShapes, settingVars
<1> QED
  BY <1>1, <1>2, <1>3, <1>4, <1>5, <1>6, <1>7, <1>8, <1>9, <1>10, <1>11, <1>12, <1>13, <1>14,
     <1>15, <1>16, <1>17, <1>18, <1>19 DEF WebNext

-----------------------------------------------------------------------------
(* Settings *)

(* A page that may be sent shows what it would replace, and so does what   *)
(* was sent.                                                               *)
PagesShow ==
  /\ \A p \in Admin :
       /\ settingsPage[p].shows # {} => settingsPage[p].shows = {settingsPage[p].sent}
       /\ handler[p].kind = "save" => handler[p].shows = {handler[p].sent}
  /\ settingsSaved \in Seq([over : Nat, shows : SUBSET Nat, by : Admin])
  /\ Len(settingsSaved) = revisionNow
  /\ SettingsSeen

(* Steps that leave settings and pages alone. *)
LEMMA PagesKeep ==
  ASSUME PagesShow, UNCHANGED <<settingsPage, settingVars>>,
         \A p \in Admin : \/ handler'[p] = handler[p]
                          \/ handler'[p].kind \notin {"save", "saved"}
                          \/ /\ handler'[p].kind = "save" /\ handler[p].kind = "save"
                             /\ handler'[p].sent = handler[p].sent
                             /\ handler'[p].shows = handler[p].shows
  PROVE  PagesShow'
  BY DEF PagesShow, SettingsSeen, settingVars

(* A save that goes through is of what its page showed. *)
LEMMA SavesKeep ==
  ASSUME WebShapes, PagesShow, NEW p \in Admin, SavesSettings(p) PROVE PagesShow'
<1> DEFINE r == handler[p]
<1>1. r \in Handler /\ handler \in [Admin -> Handler] /\ revisionNow \in Nat
  BY DEF WebShapes
<1>2. r.kind = "save" /\ r.shows = {r.sent} /\ r.sent \in Nat /\ r.shows \in SUBSET Nat
  BY <1>1, Stages DEF SavesSettings, SaveHandler, PagesShow
<1>3. CASE SameRevision(r.sent)
  <2> DEFINE row == [over |-> r.sent, shows |-> r.shows, by |-> p]
  <2>1. /\ revisionNow' = revisionNow + 1 /\ settingsSaved' = Append(settingsSaved, row)
        /\ Handles(p, [kind |-> "saved", own |-> revisionNow + 1])
        /\ r.sent = revisionNow /\ UNCHANGED settingsPage
    BY <1>3 DEF SavesSettings, SameRevision
  <2>2. row \in [over : Nat, shows : SUBSET Nat, by : Admin]  BY <1>2
  <2>3. row.over = revisionNow /\ row.shows = {revisionNow}  BY <1>2, <2>1
  <2> HIDE DEF row
  <2>4. /\ settingsSaved' \in Seq([over : Nat, shows : SUBSET Nat, by : Admin])
        /\ Len(settingsSaved') = revisionNow'
        /\ settingsSaved'[revisionNow'] = row
        /\ \A n \in 1..revisionNow : settingsSaved'[n] = settingsSaved[n]
    BY <1>1, <2>1, <2>2 DEF PagesShow
  <2>5. DOMAIN settingsSaved = 1..revisionNow /\ DOMAIN settingsSaved' = 1..(revisionNow + 1)
    BY <1>1, <2>1, <2>4 DEF PagesShow
  <2>6. SettingsSeen'
    <3> SUFFICES ASSUME NEW n \in 1..(revisionNow + 1)
                 PROVE  settingsSaved'[n].over = n - 1 /\ settingsSaved'[n].shows = {n - 1}
      BY <2>5 DEF SettingsSeen
    <3>1. CASE n = revisionNow + 1  BY <1>1, <2>1, <2>3, <2>4, <3>1
    <3>2. CASE n # revisionNow + 1
      <4>1. n \in 1..revisionNow  BY <1>1, <3>2
      <4> QED  BY <2>4, <2>5, <4>1 DEF PagesShow, SettingsSeen
    <3> QED  BY <3>1, <3>2
  <2>7. /\ handler'[p] = [kind |-> "saved", own |-> revisionNow + 1]
        /\ \A q \in Admin : q # p => handler'[q] = handler[q]
    BY <1>1, <2>1, HandlerOf
  <2>8. ASSUME NEW q \in Admin, handler'[q].kind = "save"
        PROVE  handler'[q].shows = {handler'[q].sent}
    BY <2>7, <2>8 DEF PagesShow
  <2> QED  BY <2>1, <2>4, <2>6, <2>8 DEF PagesShow
<1>4. CASE ~SameRevision(r.sent)
  <2>1. Handles(p, NoHandler) /\ UNCHANGED <<settingsPage, settingVars>>
    BY <1>4 DEF SavesSettings, settingVars
  <2> QED  BY <1>1, <2>1, NoHandlerIs, HandlerOf, PagesKeep
<1> QED  BY <1>3, <1>4

LEMMA PagesStep == WebShapes /\ PagesShow /\ [WebNext]_webVars => PagesShow'
<1> SUFFICES ASSUME WebShapes, PagesShow, [WebNext]_webVars PROVE PagesShow'
  OBVIOUS
<1>0. handler \in [Admin -> Handler]  BY DEF WebShapes
<1>1. CASE UNCHANGED <<handler, settingsPage, settingVars>>
  BY <1>1, PagesKeep
<1>2. ASSUME NEW p \in Admin, NEW r, Handles(p, r), r.kind \notin {"save", "saved"},
             UNCHANGED <<settingsPage, settingVars>>
      PROVE  PagesShow'
  BY <1>0, <1>2, HandlerOf, PagesKeep
<1>3. CASE UNCHANGED webVars \/ Authorizes \/ FinishesJob \/ WorkerGone
           \/ (\E p \in Admin : Demoted(p) \/ Login(p))
           \/ (\E t \in DOMAIN webSessions : SessionEnds(t))
           \/ (\E j \in DOMAIN webJobs : ClaimsJob(j))
           \/ (\E landed \in BOOLEAN, result \in {"completed", "denied", "unknown"} :
                  Executes(landed, result))
  BY <1>1, <1>3 DEF webVars, Authorizes, FinishesJob, WorkerGone, Demoted, Login, SessionEnds,
                    ClaimsJob, Executes, settingVars
<1>4. ASSUME NEW p \in Admin, Callback(p) PROVE PagesShow'
  BY <1>2, <1>4 DEF Callback
<1>5. ASSUME NEW p \in Admin, OpensSession(p) \/ RecordsLogin(p) PROVE PagesShow'
  <2> DEFINE r == handler[p]
  <2>1. r = [kind |-> "login", token |-> r.token, stage |-> r.stage]
    BY <1>0, <1>5, Stages DEF OpensSession, RecordsLogin, LoginHandler
  <2>2. [r EXCEPT !.stage = "opened"] = [kind |-> "login", token |-> r.token, stage |-> "opened"]
        /\ [r EXCEPT !.stage = "answer"] = [kind |-> "login", token |-> r.token, stage |-> "answer"]
    BY <2>1
  <2> QED  BY <1>2, <1>5, <2>2, NoHandlerIs DEF OpensSession, RecordsLogin
<1>6. ASSUME NEW p \in Admin, SessionAnswered(p) PROVE PagesShow'
  BY <1>2, <1>6, NoHandlerIs DEF SessionAnswered
<1>7. ASSUME NEW p \in Admin, RequireAdmin(p) PROVE PagesShow'
  <2> DEFINE s == [handler[p] EXCEPT !.stage = "checked"]
  <2>1. /\ UNCHANGED <<settingsPage, settingVars>> /\ handler[p].kind \in {"save", "queue", "load"}
        /\ Handles(p, s) \/ Handles(p, NoHandler)
    BY <1>7 DEF RequireAdmin
  <2>2. CASE Handles(p, NoHandler)  BY <1>2, <2>1, <2>2, NoHandlerIs
  <2>3. CASE Handles(p, s)
    <3>1. handler'[p] = s /\ \A q \in Admin : q # p => handler'[q] = handler[q]
      BY <1>0, <2>3, HandlerOf
    <3>2. /\ s.kind = handler[p].kind
          /\ handler[p].kind = "save" => s.sent = handler[p].sent /\ s.shows = handler[p].shows
      BY <1>0, <2>1, Checked
    <3> HIDE DEF s
    <3> QED  BY <2>1, <3>1, <3>2, PagesKeep
  <2> QED  BY <2>1, <2>2, <2>3
<1>8. ASSUME NEW p \in Admin, LoadsPage(p) PROVE PagesShow'
  BY <1>2, <1>8 DEF LoadsPage, RequestBegins
<1>9. ASSUME NEW p \in Admin, PageLoaded(p) PROVE PagesShow'
  <2>1. /\ handler'[p] = NoHandler /\ \A q \in Admin : q # p => handler'[q] = handler[q]
        /\ settingsPage' = [settingsPage EXCEPT ![p] = [sent |-> revisionNow, shows |-> {revisionNow}]]
        /\ UNCHANGED settingVars
    BY <1>0, <1>9, HandlerOf DEF PageLoaded
  <2> QED  BY <2>1, NoHandlerIs DEF PagesShow, WebShapes, SettingsSeen, settingVars
<1>10. ASSUME NEW p \in Admin, SubmitsSettings(p) PROVE PagesShow'
  <2>1. /\ handler'[p] = [kind |-> "save", stage |-> "session", sent |-> settingsPage[p].sent,
                          shows |-> settingsPage[p].shows]
        /\ \A q \in Admin : q # p => handler'[q] = handler[q]
        /\ settingsPage[p].shows # {} /\ UNCHANGED <<settingsPage, settingVars>>
    BY <1>0, <1>10, HandlerOf DEF SubmitsSettings, RequestBegins
  <2> QED  BY <2>1 DEF PagesShow, SettingsSeen, settingVars
<1>11. ASSUME NEW p \in Admin, SavesSettings(p) PROVE PagesShow'
  BY <1>11, SavesKeep
<1>12. ASSUME NEW p \in Admin, SettingsAnswered(p) PROVE PagesShow'
  <2>1. handler[p].kind = "saved" /\ Handles(p, NoHandler) /\ UNCHANGED settingVars
    BY <1>12 DEF SettingsAnswered
  <2>2. CASE settingsPage' = [settingsPage EXCEPT
                 ![p] = [sent |-> handler[p].own, shows |-> {handler[p].own}]]
    <3>1. handler'[p] = NoHandler /\ \A q \in Admin : q # p => handler'[q] = handler[q]
      BY <1>0, <2>1, HandlerOf
    <3> QED  BY <2>1, <2>2, <3>1, NoHandlerIs
             DEF PagesShow, WebShapes, SettingsSeen, settingVars
  <2>3. CASE UNCHANGED settingsPage
    BY <1>2, <2>1, <2>3, NoHandlerIs
  <2> QED  BY <1>12, <2>2, <2>3 DEF SettingsAnswered, WebAnswer
<1>13. ASSUME NEW p \in Admin, QueuesMember(p) PROVE PagesShow'
  <2> DEFINE r == handler[p]
  <2>1. PICK m \in r.members :
          Handles(p, [kind |-> "queue", stage |-> IF r.members = {m} THEN "answer" ELSE r.stage,
                      id |-> r.id, members |-> r.members \ {m}])
    BY <1>13, QueueMoves
  <2> QED  BY <1>2, <1>13, <2>1 DEF QueuesMember
<1>14. ASSUME NEW p \in Admin, QueueAnswered(p) PROVE PagesShow'
  <2>1. Handles(p, NoHandler) /\ UNCHANGED <<settingsPage, settingVars>>
    BY <1>14 DEF QueueAnswered, WebAnswer
  <2> QED  BY <1>2, <2>1, NoHandlerIs
<1>15. ASSUME NEW p \in Admin, NEW members, ClicksAction(p, members) PROVE PagesShow'
  BY <1>2, <1>15 DEF ClicksAction, RequestBegins
<1>16. CASE WebsiteDies
  <2>1. \A p \in Admin : handler'[p] = NoHandler  BY <1>16 DEF WebsiteDies
  <2> QED  BY <1>16, <2>1, NoHandlerIs, PagesKeep DEF WebsiteDies
<1> QED
  BY <1>3, <1>4, <1>5, <1>6, <1>7, <1>8, <1>9, <1>10, <1>11, <1>12, <1>13, <1>14, <1>15, <1>16
  DEF WebNext

-----------------------------------------------------------------------------
(* Clicks *)

JobRow == [state : {"queued", "executing", "completed", "denied", "unknown"}, actor : Admin]
Result == {"completed", "denied", "unknown"}
JobAt(id, m) == [id |-> id, member |-> m]

(* What a form waits for is what its click named; what the handler has     *)
(* left of it is all that is not queued.                                   *)
FormsMatch ==
  \A p \in Admin :
    /\ actionForm[p] = NoClick \/ actionForm[p].id \in 1..MaxClicks
    /\ handler[p].kind = "queue" =>
         /\ handler[p].id = actionForm[p].id /\ handler[p].id \in 1..MaxClicks
         /\ \A m \in actionForm[p].members :
              m \in handler[p].members \/ JobAt(handler[p].id, m) \in DOMAIN webJobs
         /\ handler[p].stage = "answer" => handler[p].members = {}

(* A job has had no write made before the worker makes it: it is at work   *)
(* on at most one.                                                         *)
JobShapes ==
  /\ DOMAIN webJobs \subseteq WebJob /\ webJobs \in [DOMAIN webJobs -> JobRow]
  /\ webEffects \in [WebJob -> Nat]
  /\ actionWorker \in {NotAtWork} \cup [stage : {"claimed", "authorized"}, job : WebJob]
                      \cup [stage : {"finishing"}, job : WebJob, result : Result]

DoneOnce ==
  /\ \A j \in WebJob : webEffects[j] <= 1 /\ (j \notin DOMAIN webJobs => webEffects[j] = 0)
  /\ \A j \in DOMAIN webJobs : webJobs[j].state = "queued" => webEffects[j] = 0
  /\ actionWorker # NotAtWork =>
       /\ actionWorker.job \in DOMAIN webJobs /\ webJobs[actionWorker.job].state = "executing"
       /\ actionWorker.stage \in {"claimed", "authorized"} => webEffects[actionWorker.job] = 0

NobodyLeftOut ==
  \A c \in clicksAnswered : \A m \in c.members : JobAt(c.id, m) \in DOMAIN webJobs

ClicksInv == FormsMatch /\ JobShapes /\ DoneOnce /\ NobodyLeftOut

(* Steps of handlers that queue nothing. *)
LEMMA FormsKeep ==
  ASSUME ClicksInv, UNCHANGED <<actionForm, workQueue, clicksAnswered>>,
         \A p \in Admin : \/ handler'[p] = handler[p]
                          \/ handler'[p].kind # "queue"
                          \/ /\ handler'[p].kind = "queue" /\ handler[p].kind = "queue"
                             /\ handler'[p].id = handler[p].id
                             /\ handler'[p].members = handler[p].members
                             /\ handler'[p].stage # "answer"
  PROVE  ClicksInv'
  BY DEF ClicksInv, FormsMatch, JobShapes, DoneOnce, NobodyLeftOut, workQueue

(* What the worker does to its job, of which the forms only ask whether it *)
(* is there.                                                               *)
LEMMA WorkerMoves ==
  ASSUME ClicksInv, UNCHANGED <<actionForm, handler, clicksAnswered>>,
         DOMAIN webJobs' = DOMAIN webJobs, JobShapes', DoneOnce'
  PROVE  ClicksInv'
  BY DEF ClicksInv, FormsMatch, NobodyLeftOut

LEMMA JobMoves ==
  ASSUME JobShapes, NEW j \in DOMAIN webJobs,
         NEW state \in {"queued", "executing", "completed", "denied", "unknown"},
         webJobs' = [webJobs EXCEPT ![j].state = state]
  PROVE  /\ DOMAIN webJobs' = DOMAIN webJobs /\ webJobs' \in [DOMAIN webJobs -> JobRow]
         /\ webJobs'[j].state = state /\ \A k \in DOMAIN webJobs : k # j => webJobs'[k] = webJobs[k]
<1>1. webJobs[j] = [state |-> webJobs[j].state, actor |-> webJobs[j].actor]
      /\ webJobs[j].actor \in Admin
  BY DEF JobShapes, JobRow
<1>2. webJobs' = [webJobs EXCEPT ![j] = [@ EXCEPT !.state = state]]
  OBVIOUS
<1>3. webJobs'[j] = [state |-> state, actor |-> webJobs[j].actor]
      /\ DOMAIN webJobs' = DOMAIN webJobs
      /\ \A k \in DOMAIN webJobs : k # j => webJobs'[k] = webJobs[k]
  BY <1>1, <1>2 DEF JobShapes
<1>4. webJobs'[j] \in JobRow  BY <1>1, <1>3 DEF JobRow
<1> QED  BY <1>2, <1>3, <1>4 DEF JobShapes

LEMMA WorkerKeeps ==
  ASSUME ClicksInv,
         \/ Authorizes \/ FinishesJob \/ WorkerGone
         \/ \E j \in DOMAIN webJobs : ClaimsJob(j)
         \/ \E landed \in BOOLEAN, result \in Result : Executes(landed, result)
  PROVE  ClicksInv'
<1> USE DEF ClicksInv
<1>0. UNCHANGED <<actionForm, handler, clicksAnswered>>
  BY DEF Authorizes, FinishesJob, WorkerGone, ClaimsJob, Executes
<1>1. CASE Authorizes
  <2> DEFINE j == actionWorker.job
  <2>1. actionWorker.stage = "claimed" /\ UNCHANGED <<webJobs, webEffects>>
        /\ \/ actionWorker' = [actionWorker EXCEPT !.stage = "authorized"]
           \/ actionWorker' = [stage |-> "finishing", job |-> j, result |-> "denied"]
    BY <1>1 DEF Authorizes, Finishing
  <2>2. actionWorker = [stage |-> "claimed", job |-> j] /\ j \in WebJob
    BY <2>1 DEF JobShapes, NotAtWork
  <2>3. actionWorker # NotAtWork  BY <2>1 DEF NotAtWork
  <2>4. \/ actionWorker' = [stage |-> "authorized", job |-> j]
        \/ actionWorker' = [stage |-> "finishing", job |-> j, result |-> "denied"]
    BY <2>1, <2>2
  <2>5. JobShapes'  BY <2>1, <2>2, <2>4 DEF JobShapes, Result
  <2>6. DoneOnce'  BY <2>1, <2>2, <2>3, <2>4 DEF DoneOnce
  <2> QED  BY <1>0, <2>1, <2>5, <2>6, WorkerMoves
<1>2. CASE FinishesJob
  <2> DEFINE j == actionWorker.job
  <2>1. /\ actionWorker.stage = "finishing" /\ actionWorker' = NotAtWork /\ UNCHANGED webEffects
        /\ webJobs' = [webJobs EXCEPT ![j].state = actionWorker.result]
    BY <1>2 DEF FinishesJob
  <2>2. actionWorker.result \in Result /\ actionWorker # NotAtWork
    BY <2>1 DEF JobShapes, NotAtWork
  <2>3. j \in DOMAIN webJobs  BY <2>2 DEF DoneOnce
  <2>4. /\ DOMAIN webJobs' = DOMAIN webJobs /\ webJobs' \in [DOMAIN webJobs -> JobRow]
        /\ webJobs'[j].state = actionWorker.result
        /\ \A k \in DOMAIN webJobs : k # j => webJobs'[k] = webJobs[k]
    BY <2>1, <2>2, <2>3, JobMoves DEF Result
  <2>5. JobShapes'  BY <2>1, <2>4 DEF JobShapes
  <2>6. DoneOnce'
    <3>1. \A k \in WebJob : webEffects[k] <= 1 /\ (k \notin DOMAIN webJobs => webEffects[k] = 0)
      BY DEF DoneOnce
    <3>2. \A k \in DOMAIN webJobs : webJobs'[k].state = "queued" => webEffects[k] = 0
      BY <2>2, <2>4 DEF DoneOnce, Result
    <3> QED  BY <2>1, <2>4, <3>1, <3>2 DEF DoneOnce
  <2> QED  BY <1>0, <2>4, <2>5, <2>6, WorkerMoves
<1>3. CASE WorkerGone
  <2>1. actionWorker' = NotAtWork /\ UNCHANGED <<webJobs, webEffects>>  BY <1>3 DEF WorkerGone
  <2> QED  BY <1>0, <2>1, WorkerMoves DEF JobShapes, DoneOnce
<1>4. ASSUME NEW j \in DOMAIN webJobs, ClaimsJob(j) PROVE ClicksInv'
  <2>1. /\ webJobs[j].state = "queued" /\ UNCHANGED webEffects
        /\ webJobs' = [webJobs EXCEPT ![j].state = "executing"]
        /\ actionWorker' = [stage |-> "claimed", job |-> j]
    BY <1>4 DEF ClaimsJob
  <2>2. /\ DOMAIN webJobs' = DOMAIN webJobs /\ webJobs' \in [DOMAIN webJobs -> JobRow]
        /\ webJobs'[j].state = "executing"
        /\ \A k \in DOMAIN webJobs : k # j => webJobs'[k] = webJobs[k]
    BY <2>1, JobMoves
  <2>3. JobShapes'  BY <2>1, <2>2 DEF JobShapes
  <2>4. DoneOnce'  BY <2>1, <2>2 DEF DoneOnce
  <2> QED  BY <1>0, <2>2, <2>3, <2>4, WorkerMoves
<1>5. ASSUME NEW landed \in BOOLEAN, NEW result \in Result, Executes(landed, result)
      PROVE  ClicksInv'
  <2> DEFINE j == actionWorker.job
  <2>1. /\ actionWorker.stage = "authorized" /\ UNCHANGED webJobs
        /\ webEffects' = [webEffects EXCEPT ![j] = IF landed THEN @ + 1 ELSE @]
        /\ actionWorker' = [stage |-> "finishing", job |-> j, result |-> result]
    BY <1>5 DEF Executes, Finishing
  <2>2. j \in WebJob /\ actionWorker # NotAtWork
    BY <2>1 DEF JobShapes, NotAtWork
  <2>3. webEffects[j] = 0  BY <2>1, <2>2 DEF DoneOnce
  <2>4. webEffects'[j] = (IF landed THEN 1 ELSE 0)
        /\ webEffects' \in [WebJob -> Nat]
        /\ \A k \in WebJob : k # j => webEffects'[k] = webEffects[k]
    <3>1. CASE landed = TRUE  BY <2>1, <2>2, <2>3, <3>1 DEF JobShapes
    <3>2. CASE landed = FALSE  BY <2>1, <2>2, <2>3, <3>2 DEF JobShapes
    <3> QED  BY <3>1, <3>2
  <2>5. JobShapes'  BY <2>1, <2>2, <2>4 DEF JobShapes
  <2>6. DoneOnce'
    <3>1. j \in DOMAIN webJobs /\ webJobs[j].state = "executing"  BY <2>2 DEF DoneOnce
    <3>2. \A k \in WebJob : webEffects'[k] <= 1 /\ (k \notin DOMAIN webJobs => webEffects'[k] = 0)
      BY <2>4, <3>1 DEF DoneOnce
    <3>3. \A k \in DOMAIN webJobs : webJobs[k].state = "queued" => webEffects'[k] = 0
      BY <2>4, <3>1 DEF DoneOnce, JobShapes
    <3> QED  BY <2>1, <3>1, <3>2, <3>3 DEF DoneOnce
  <2> QED  BY <1>0, <2>1, <2>5, <2>6, WorkerMoves
<1> QED  BY <1>1, <1>2, <1>3, <1>4, <1>5

(* A member's job is queued, unless it is there already. *)
LEMMA QueuingKeeps ==
  ASSUME WebShapes, ClicksInv, NEW p \in Admin, QueuesMember(p) PROVE ClicksInv'
<1> DEFINE r == handler[p]
<1>0. handler \in [Admin -> Handler]  BY DEF WebShapes
<1>1. /\ r.kind = "queue" /\ r.members \in SUBSET Moderated
      /\ UNCHANGED <<actionForm, actionWorker, webEffects, clicksAnswered>>
  BY QueueMoves DEF QueuesMember
<1>2. PICK m \in r.members :
        /\ webJobs' = IF Unknown(JobAt(r.id, m))
                        THEN WithKey(webJobs, JobAt(r.id, m), [state |-> "queued", actor |-> p])
                      ELSE webJobs
        /\ Handles(p, [kind |-> "queue", stage |-> IF r.members = {m} THEN "answer" ELSE r.stage,
                       id |-> r.id, members |-> r.members \ {m}])
  BY QueueMoves DEF JobAt
<1>3. r.id = actionForm[p].id /\ r.id \in 1..MaxClicks /\ r.stage = "checked"
  BY <1>1, QueueMoves DEF ClicksInv, FormsMatch
<1> DEFINE j == JobAt(r.id, m)
           row == [state |-> "queued", actor |-> p]
<1>4. j \in WebJob  BY <1>1, <1>2, <1>3 DEF JobAt, WebJob
<1>5. row \in JobRow  BY DEF JobRow
<1>6. row.state = "queued"  OBVIOUS
<1>7. /\ DOMAIN webJobs' = DOMAIN webJobs \cup {j}
      /\ webJobs' \in [DOMAIN webJobs' -> JobRow]
      /\ \A k \in DOMAIN webJobs : webJobs'[k] = webJobs[k]
      /\ j \notin DOMAIN webJobs => webJobs'[j].state = "queued"
  <2> HIDE DEF j, row
  <2>1. CASE j \in DOMAIN webJobs
    <3>1. webJobs' = webJobs  BY <1>2, <2>1 DEF Unknown, j
    <3> QED  BY <2>1, <3>1 DEF ClicksInv, JobShapes
  <2>2. CASE j \notin DOMAIN webJobs
    <3>1. webJobs' = [x \in DOMAIN webJobs \cup {j} |-> IF x = j THEN row ELSE webJobs[x]]
      BY <1>2, <2>2 DEF Unknown, WithKey, j, row
    <3> QED  BY <1>5, <1>6, <2>2, <3>1 DEF ClicksInv, JobShapes
  <2> QED  BY <2>1, <2>2
<1>8. JobShapes'
  <2> HIDE DEF j
  <2> QED  BY <1>1, <1>4, <1>7 DEF ClicksInv, JobShapes
<1>9. DoneOnce'
  <2> HIDE DEF j
  <2>1. \A k \in WebJob : webEffects[k] <= 1 /\ (k \notin DOMAIN webJobs' => webEffects[k] = 0)
    BY <1>7 DEF ClicksInv, DoneOnce
  <2>2. \A k \in DOMAIN webJobs' : webJobs'[k].state = "queued" => webEffects[k] = 0
    BY <1>4, <1>7 DEF ClicksInv, DoneOnce
  <2>3. actionWorker # NotAtWork => actionWorker.job \in DOMAIN webJobs'
                                   /\ webJobs'[actionWorker.job].state = "executing"
    BY <1>7 DEF ClicksInv, DoneOnce
  <2> QED  BY <1>1, <2>1, <2>2, <2>3 DEF ClicksInv, DoneOnce
<1>10. NobodyLeftOut'
  BY <1>1, <1>7 DEF ClicksInv, NobodyLeftOut
<1>11. FormsMatch'
  <2> DEFINE s == [kind |-> "queue", stage |-> IF r.members = {m} THEN "answer" ELSE r.stage,
                   id |-> r.id, members |-> r.members \ {m}]
  <2>1. /\ s.kind = "queue" /\ s.id = r.id /\ s.members = r.members \ {m}
        /\ s.stage = "answer" => r.members = {m}
    BY <1>3
  <2>2. handler'[p] = s /\ \A q \in Admin : q # p => handler'[q] = handler[q]
    BY <1>0, <1>2, HandlerOf
  <2>3. \A n \in actionForm[p].members : n \in s.members \/ JobAt(r.id, n) \in DOMAIN webJobs'
    BY <1>1, <1>7, <2>1 DEF ClicksInv, FormsMatch
  <2> HIDE DEF s, j
  <2>4. ASSUME NEW q \in Admin
        PROVE  /\ actionForm'[q] = NoClick \/ actionForm'[q].id \in 1..MaxClicks
               /\ handler'[q].kind = "queue" =>
                    /\ handler'[q].id = actionForm'[q].id /\ handler'[q].id \in 1..MaxClicks
                    /\ \A n \in actionForm'[q].members :
                         n \in handler'[q].members \/ JobAt(handler'[q].id, n) \in DOMAIN webJobs'
                    /\ handler'[q].stage = "answer" => handler'[q].members = {}
    <3>1. CASE q = p
      BY <1>1, <1>3, <2>1, <2>2, <2>3, <3>1 DEF ClicksInv, FormsMatch
    <3>2. CASE q # p
      BY <1>1, <1>7, <2>2, <3>2 DEF ClicksInv, FormsMatch
    <3> QED  BY <3>1, <3>2
  <2> QED  BY <2>4 DEF FormsMatch, JobAt
<1> QED  BY <1>8, <1>9, <1>10, <1>11 DEF ClicksInv

(* A click, or the same click again. *)
LEMMA ClickKeeps ==
  ASSUME WebShapes, ClicksInv, NEW p \in Admin, NEW members \in (SUBSET Moderated) \ {{}},
         ClicksAction(p, members)
  PROVE  ClicksInv'
<1> DEFINE r == [kind |-> "queue", stage |-> "session", id |-> actionForm'[p].id,
                 members |-> members]
<1>1. /\ handler'[p] = r /\ \A q \in Admin : q # p => handler'[q] = handler[q]
      /\ UNCHANGED <<workQueue, clicksAnswered>>
  BY HandlerOf DEF WebShapes, ClicksAction, RequestBegins
<1>2. /\ actionForm'[p].id \in 1..MaxClicks /\ actionForm'[p].members = members
      /\ \A q \in Admin : q # p => actionForm'[q] = actionForm[q]
  <2>1. CASE actionForm[p] # NoClick
    BY <2>1 DEF ClicksAction, ClicksInv, FormsMatch
  <2>2. CASE actionForm[p] = NoClick
    <3>1. /\ webCounts.clicks \in Nat /\ webCounts.clicks < MaxClicks
          /\ webCounts'.clicks = webCounts.clicks + 1
          /\ actionForm' = [actionForm EXCEPT ![p] = [id |-> webCounts'.clicks, members |-> members]]
      BY <2>2 DEF ClicksAction, WebCounted, WebShapes
    <3>2. webCounts'.clicks \in 1..MaxClicks  BY <3>1, WebBounds
    <3> QED  BY <3>1, <3>2 DEF WebShapes
  <2> QED  BY <2>1, <2>2
<1>3. r.kind = "queue" /\ r.id = actionForm'[p].id /\ r.members = members /\ r.stage = "session"
  OBVIOUS
<1> HIDE DEF r
<1>4. FormsMatch'
  <2>1. ASSUME NEW q \in Admin
        PROVE  /\ actionForm'[q] = NoClick \/ actionForm'[q].id \in 1..MaxClicks
               /\ handler'[q].kind = "queue" =>
                    /\ handler'[q].id = actionForm'[q].id /\ handler'[q].id \in 1..MaxClicks
                    /\ \A n \in actionForm'[q].members :
                         n \in handler'[q].members \/ JobAt(handler'[q].id, n) \in DOMAIN webJobs'
                    /\ handler'[q].stage = "answer" => handler'[q].members = {}
    <3>1. CASE q = p  BY <1>1, <1>2, <1>3, <3>1
    <3>2. CASE q # p  BY <1>1, <1>2, <3>2 DEF ClicksInv, FormsMatch, workQueue
    <3> QED  BY <3>1, <3>2
  <2> QED  BY <2>1 DEF FormsMatch, JobAt
<1> QED  BY <1>1, <1>4 DEF ClicksInv, JobShapes, DoneOnce, NobodyLeftOut, workQueue

(* The answer is of a click that left nobody out. *)
LEMMA AnswerKeeps ==
  ASSUME WebShapes, ClicksInv, NEW p \in Admin, QueueAnswered(p) PROVE ClicksInv'
<1>1. /\ handler[p].kind = "queue" /\ handler[p].stage = "answer"
      /\ handler'[p] = NoHandler /\ \A q \in Admin : q # p => handler'[q] = handler[q]
      /\ clicksAnswered' = clicksAnswered \cup {actionForm[p]} /\ UNCHANGED workQueue
      /\ \A q \in Admin : actionForm'[q] = actionForm[q] \/ (q = p /\ actionForm'[q] = NoClick)
  BY HandlerOf DEF QueueAnswered, WebAnswer, WebShapes
<1>2. \A m \in actionForm[p].members : JobAt(actionForm[p].id, m) \in DOMAIN webJobs
  BY <1>1 DEF ClicksInv, FormsMatch
<1>3. NobodyLeftOut'
  BY <1>1, <1>2 DEF ClicksInv, NobodyLeftOut, workQueue, JobAt
<1>4. FormsMatch'
  <2>1. ASSUME NEW q \in Admin
        PROVE  /\ actionForm'[q] = NoClick \/ actionForm'[q].id \in 1..MaxClicks
               /\ handler'[q].kind = "queue" =>
                    /\ handler'[q].id = actionForm'[q].id /\ handler'[q].id \in 1..MaxClicks
                    /\ \A n \in actionForm'[q].members :
                         n \in handler'[q].members \/ JobAt(handler'[q].id, n) \in DOMAIN webJobs'
                    /\ handler'[q].stage = "answer" => handler'[q].members = {}
    <3>1. CASE q = p  BY <1>1, <3>1, NoHandlerIs DEF ClicksInv, FormsMatch
    <3>2. CASE q # p  BY <1>1, <3>2 DEF ClicksInv, FormsMatch, workQueue
    <3> QED  BY <3>1, <3>2
  <2> QED  BY <2>1 DEF FormsMatch, JobAt
<1> QED  BY <1>1, <1>3, <1>4 DEF ClicksInv, JobShapes, DoneOnce, workQueue

LEMMA ClicksStep == WebShapes /\ ClicksInv /\ [WebNext]_webVars => ClicksInv'
<1> SUFFICES ASSUME WebShapes, ClicksInv, [WebNext]_webVars PROVE ClicksInv'
  OBVIOUS
<1>0. handler \in [Admin -> Handler]  BY DEF WebShapes
<1>1. CASE UNCHANGED <<actionForm, handler, workQueue, clicksAnswered>>
  BY <1>1, FormsKeep
<1>2. ASSUME NEW p \in Admin, NEW r, Handles(p, r), r.kind # "queue",
             UNCHANGED <<actionForm, workQueue, clicksAnswered>>
      PROVE  ClicksInv'
  BY <1>0, <1>2, HandlerOf, FormsKeep
<1>3. CASE \/ UNCHANGED webVars
           \/ \E p \in Admin : Demoted(p) \/ Login(p)
           \/ \E t \in DOMAIN webSessions : SessionEnds(t)
  BY <1>1, <1>3 DEF webVars, Demoted, Login, SessionEnds, workQueue
<1>4. ASSUME NEW p \in Admin, Callback(p) PROVE ClicksInv'
  BY <1>2, <1>4 DEF Callback
<1>5. ASSUME NEW p \in Admin, OpensSession(p) \/ RecordsLogin(p) PROVE ClicksInv'
  <2> DEFINE r == handler[p]
  <2>1. r = [kind |-> "login", token |-> r.token, stage |-> r.stage]
    BY <1>0, <1>5, Stages DEF OpensSession, RecordsLogin, LoginHandler
  <2>2. [r EXCEPT !.stage = "opened"] = [kind |-> "login", token |-> r.token, stage |-> "opened"]
        /\ [r EXCEPT !.stage = "answer"] = [kind |-> "login", token |-> r.token, stage |-> "answer"]
    BY <2>1
  <2> QED  BY <1>2, <1>5, <2>2, NoHandlerIs DEF OpensSession, RecordsLogin
<1>6. ASSUME NEW p \in Admin, SessionAnswered(p) PROVE ClicksInv'
  BY <1>2, <1>6, NoHandlerIs DEF SessionAnswered
<1>7. ASSUME NEW p \in Admin, RequireAdmin(p) PROVE ClicksInv'
  <2> DEFINE s == [handler[p] EXCEPT !.stage = "checked"]
  <2>1. /\ UNCHANGED <<actionForm, workQueue, clicksAnswered>>
        /\ handler[p].kind \in {"save", "queue", "load"}
        /\ Handles(p, s) \/ Handles(p, NoHandler)
    BY <1>7 DEF RequireAdmin
  <2>2. CASE Handles(p, NoHandler)  BY <1>2, <2>1, <2>2, NoHandlerIs
  <2>3. CASE Handles(p, s)
    <3>1. handler'[p] = s /\ \A q \in Admin : q # p => handler'[q] = handler[q]
      BY <1>0, <2>3, HandlerOf
    <3>2. /\ s.kind = handler[p].kind /\ s.stage = "checked"
          /\ handler[p].kind = "queue" => s.id = handler[p].id /\ s.members = handler[p].members
      BY <1>0, <2>1, Checked
    <3> HIDE DEF s
    <3> QED  BY <2>1, <3>1, <3>2, FormsKeep
  <2> QED  BY <2>1, <2>2, <2>3
<1>8. ASSUME NEW p \in Admin, LoadsPage(p) \/ SubmitsSettings(p) PROVE ClicksInv'
  BY <1>2, <1>8 DEF LoadsPage, SubmitsSettings, RequestBegins
<1>9. ASSUME NEW p \in Admin, PageLoaded(p) PROVE ClicksInv'
  BY <1>2, <1>9, NoHandlerIs DEF PageLoaded
<1>10. ASSUME NEW p \in Admin, SavesSettings(p) PROVE ClicksInv'
  <2>1. [kind |-> "saved", own |-> revisionNow + 1].kind # "queue"  OBVIOUS
  <2> QED  BY <1>2, <1>10, <2>1, NoHandlerIs DEF SavesSettings
<1>11. ASSUME NEW p \in Admin, SettingsAnswered(p) PROVE ClicksInv'
  BY <1>2, <1>11, NoHandlerIs DEF SettingsAnswered, WebAnswer
<1>12. CASE WebsiteDies
  <2>1. \A p \in Admin : handler'[p] = NoHandler  BY <1>12 DEF WebsiteDies
  <2> QED  BY <1>12, <2>1, NoHandlerIs, FormsKeep DEF WebsiteDies
<1>13. CASE \/ Authorizes \/ FinishesJob \/ WorkerGone
            \/ \E j \in DOMAIN webJobs : ClaimsJob(j)
            \/ \E landed \in BOOLEAN, result \in {"completed", "denied", "unknown"} :
                 Executes(landed, result)
  BY <1>13, WorkerKeeps DEF Result
<1> QED
  BY <1>3, <1>4, <1>5, <1>6, <1>7, <1>8, <1>9, <1>10, <1>11, <1>12, <1>13, QueuingKeeps,
     AnswerKeeps, ClickKeeps
  DEF WebNext

-----------------------------------------------------------------------------
(* Sign-ins *)

(* A sign-in's number is held by the browser that began it, by its handler, *)
(* by its cookie, and by the session, which is of who was asked about.     *)
Holds(p, t) ==
  \/ loginCookie[p] = t \/ cookie[p] = t
  \/ handler[p].kind = "login" /\ handler[p].token = t
  \/ t \in DOMAIN webSessions /\ webSessions[t] = p

(* No number is held by two, numbers to come are held by nobody, and a     *)
(* cookie comes after the journal's event.                                 *)
SignInsApart ==
  /\ 0 \notin oauthStates /\ 0 \notin DOMAIN webSessions
  /\ \A t \in DOMAIN webSessions : webSessions[t] \in Admin
  /\ \A p, q \in Admin : \A t : t # 0 /\ Holds(p, t) /\ Holds(q, t) => p = q
  /\ visitKind = "login" =>
       \A p \in Admin : \A t \in Nat \ {0} : Holds(p, t) => t <= webCounts.logins
  /\ \A p \in Admin :
       /\ cookie[p] # 0 => cookie[p] \in logins
       /\ handler[p].kind = "login" => handler[p].token # 0
       /\ handler[p].kind = "login" /\ handler[p].stage = "answer" => handler[p].token \in logins

(* Steps after which nobody holds a number not held before.                *)
LEMMA NobodyHoldsMore ==
  ASSUME SignInsApart, UNCHANGED <<visitKind, logins, cookie>>,
         webCounts'.logins = webCounts.logins,
         0 \notin oauthStates', 0 \notin DOMAIN webSessions',
         \A t \in DOMAIN webSessions' : webSessions'[t] \in Admin,
         \A p \in Admin : \A t : t # 0 /\ Holds(p, t)' => Holds(p, t),
         \A p \in Admin :
           /\ handler'[p].kind = "login" => handler'[p].token # 0
           /\ handler'[p].kind = "login" /\ handler'[p].stage = "answer"
                => handler'[p].token \in logins
  PROVE  SignInsApart'
<1>1. visitKind = "login" =>
        \A p \in Admin : \A t \in Nat \ {0} : Holds(p, t)' => t <= webCounts.logins
  BY DEF SignInsApart
<1> QED  BY <1>1 DEF SignInsApart, Holds

(* Steps that are not about signing in. *)
LEMMA NobodySignsIn ==
  ASSUME SignInsApart, UNCHANGED <<visitKind, signingIn>>, webCounts'.logins = webCounts.logins,
         \A p \in Admin : handler'[p] = handler[p] \/ handler'[p].kind # "login"
  PROVE  SignInsApart'
<1>1. \A p \in Admin : \A t : Holds(p, t)' => Holds(p, t)
  BY DEF Holds, signingIn
<1> QED  BY <1>1, NobodyHoldsMore DEF SignInsApart, signingIn

LEMMA LoginKeeps ==
  ASSUME WebShapes, SignInsApart, NEW p \in Admin, Login(p) PROVE SignInsApart'
<1>1. webCounts.logins \in Nat  BY DEF WebShapes
<1>2. PICK n \in Nat \ {0} : n = webCounts.logins + 1
  BY <1>1
<1>3. /\ webCounts'.logins = n /\ visitKind = "login"
      /\ oauthStates' = oauthStates \cup {n} /\ loginCookie' = [loginCookie EXCEPT ![p] = n]
      /\ UNCHANGED <<visitKind, webSessions, cookie, logins, handler>>
  BY <1>2 DEF Login, WebCounted, WebShapes
<1>4. \A q \in Admin : ~Holds(q, n)
  BY <1>1, <1>2, <1>3 DEF SignInsApart
<1>5. \A q \in Admin : \A t : t # n /\ Holds(q, t)' => Holds(q, t)
  BY <1>3 DEF Holds, WebShapes
<1>6. \A q \in Admin : Holds(q, n)' => q = p
  BY <1>3, <1>4 DEF Holds, WebShapes
<1>7. \A q, r \in Admin : \A t : t # 0 /\ Holds(q, t)' /\ Holds(r, t)' => q = r
  BY <1>5, <1>6 DEF SignInsApart
<1>8. \A q \in Admin : \A t \in Nat \ {0} : Holds(q, t)' => t <= n
  BY <1>1, <1>2, <1>3, <1>5 DEF SignInsApart
<1> QED  BY <1>2, <1>3, <1>7, <1>8 DEF SignInsApart

LEMMA SignInsStep == WebShapes /\ SignInsApart /\ [WebNext]_webVars => SignInsApart'
<1> SUFFICES ASSUME WebShapes, SignInsApart, [WebNext]_webVars PROVE SignInsApart'
  OBVIOUS
<1>0. handler \in [Admin -> Handler]  BY DEF WebShapes
<1>1. CASE UNCHANGED <<visitKind, signingIn, handler>> /\ webCounts'.logins = webCounts.logins
  BY <1>1, NobodySignsIn
<1>2. ASSUME NEW p \in Admin, NEW r, Handles(p, r), r.kind # "login",
             UNCHANGED <<visitKind, signingIn>>, webCounts'.logins = webCounts.logins
      PROVE  SignInsApart'
  BY <1>0, <1>2, HandlerOf, NobodySignsIn
<1>3. ASSUME NEW k \in {"clicks", "endings", "faults"}, NEW max, WebCounted(k, max)
      PROVE  webCounts'.logins = webCounts.logins
  BY <1>3 DEF WebCounted, WebShapes
<1>4. CASE \/ UNCHANGED webVars \/ Authorizes \/ FinishesJob \/ WorkerGone
           \/ \E p \in Admin : Demoted(p)
           \/ \E j \in DOMAIN webJobs : ClaimsJob(j)
           \/ \E landed \in BOOLEAN, result \in {"completed", "denied", "unknown"} :
                Executes(landed, result)
  BY <1>1, <1>3, <1>4 DEF webVars, signingIn, Authorizes, FinishesJob, WorkerGone, WebFault,
                          Demoted, ClaimsJob, Executes
<1>5. ASSUME NEW p \in Admin, Callback(p) PROVE SignInsApart'
  <2> DEFINE r == [kind |-> "login", token |-> loginCookie[p], stage |-> "identity"]
  <2>1. /\ handler'[p] = r /\ \A q \in Admin : q # p => handler'[q] = handler[q]
        /\ oauthStates' \subseteq oauthStates /\ loginCookie[p] \in oauthStates
        /\ UNCHANGED <<visitKind, loginCookie, webSessions, cookie, logins, webCounts>>
    BY <1>0, <1>5, HandlerOf DEF Callback
  <2>2. r.kind = "login" /\ r.token = loginCookie[p] /\ r.stage # "answer"
    OBVIOUS
  <2> HIDE DEF r
  <2>3. \A q \in Admin : \A t : Holds(q, t)' => Holds(q, t)
    BY <2>1, <2>2 DEF Holds
  <2> QED  BY <2>1, <2>2, <2>3, NobodyHoldsMore DEF SignInsApart
<1>6. ASSUME NEW p \in Admin, OpensSession(p) \/ RecordsLogin(p) PROVE SignInsApart'
  <2> DEFINE r == handler[p]
             opened == [kind |-> "login", token |-> r.token, stage |-> "opened"]
             answer == [kind |-> "login", token |-> r.token, stage |-> "answer"]
  <2>1. r = [kind |-> "login", token |-> r.token, stage |-> r.stage] /\ r.kind = "login"
    BY <1>0, <1>6, Stages DEF OpensSession, RecordsLogin, LoginHandler
  <2>2. [r EXCEPT !.stage = "opened"] = opened /\ [r EXCEPT !.stage = "answer"] = answer
    BY <2>1
  <2>3. /\ opened.kind = "login" /\ opened.token = r.token /\ opened.stage = "opened"
        /\ answer.kind = "login" /\ answer.token = r.token
    OBVIOUS
  <2>4. r.token # 0 /\ Holds(p, r.token)  BY <2>1 DEF SignInsApart, Holds
  <2>5. UNCHANGED <<visitKind, loginCookie, oauthStates, cookie, webCounts>>
    BY <1>6 DEF OpensSession, RecordsLogin
  <2>6. CASE RecordsLogin(p)
    <3>1. /\ handler'[p] = answer /\ \A q \in Admin : q # p => handler'[q] = handler[q]
          /\ logins' = logins \cup {r.token} /\ UNCHANGED webSessions
      BY <1>0, <2>2, <2>6, HandlerOf DEF RecordsLogin
    <3> HIDE DEF opened, answer
    <3>2. \A q \in Admin : \A t : Holds(q, t)' => Holds(q, t)
      BY <2>1, <2>3, <2>5, <3>1 DEF Holds
    <3> QED  BY <2>1, <2>3, <2>5, <3>1, <3>2 DEF SignInsApart
  <2>7. CASE OpensSession(p) /\ p \in admins
    <3>1. /\ handler'[p] = opened /\ \A q \in Admin : q # p => handler'[q] = handler[q]
          /\ webSessions' = WithKey(webSessions, r.token, p) /\ UNCHANGED logins
      BY <1>0, <2>2, <2>7, HandlerOf DEF OpensSession
    <3> HIDE DEF opened, answer
    <3>2. /\ DOMAIN webSessions' = DOMAIN webSessions \cup {r.token}
          /\ \A t \in DOMAIN webSessions' :
               webSessions'[t] = IF t = r.token THEN p ELSE webSessions[t]
      BY <3>1 DEF WithKey
    <3>3. \A q \in Admin : \A t : Holds(q, t)' => Holds(q, t)
      BY <2>1, <2>3, <2>4, <2>5, <3>1, <3>2 DEF Holds
    <3>4. \A t \in DOMAIN webSessions' : t # 0 /\ webSessions'[t] \in Admin
      BY <2>4, <3>2 DEF SignInsApart
    <3>5. \A q \in Admin :
            /\ handler'[q].kind = "login" => handler'[q].token # 0
            /\ handler'[q].kind = "login" /\ handler'[q].stage = "answer"
                 => handler'[q].token \in logins
      BY <2>3, <2>4, <3>1 DEF SignInsApart
    <3> QED  BY <2>5, <3>1, <3>3, <3>4, <3>5, NobodyHoldsMore DEF SignInsApart
  <2>8. CASE OpensSession(p) /\ p \notin admins
    <3>1. Handles(p, NoHandler) /\ UNCHANGED <<webSessions, logins>>
      BY <2>8 DEF OpensSession
    <3> QED  BY <1>2, <2>5, <3>1, NoHandlerIs DEF signingIn
  <2> QED  BY <1>6, <2>6, <2>7, <2>8
<1>7. ASSUME NEW p \in Admin, SessionAnswered(p) PROVE SignInsApart'
  <2> DEFINE k == handler[p].token
  <2>1. /\ handler'[p] = NoHandler /\ \A q \in Admin : q # p => handler'[q] = handler[q]
        /\ handler[p].kind = "login" /\ handler[p].stage = "answer"
        /\ cookie' = [cookie EXCEPT ![p] = k] /\ loginCookie' = [loginCookie EXCEPT ![p] = 0]
        /\ UNCHANGED <<visitKind, oauthStates, webSessions, logins, webCounts>>
    BY <1>0, <1>7, HandlerOf DEF SessionAnswered
  <2>2. k # 0 /\ k \in logins /\ Holds(p, k)  BY <2>1 DEF SignInsApart, Holds
  <2>3. \A q \in Admin : \A t : t # 0 /\ Holds(q, t)' => Holds(q, t)
    BY <2>1, <2>2, NoHandlerIs DEF Holds, WebShapes
  <2>4. \A q \in Admin : cookie'[q] # 0 => cookie'[q] \in logins
    BY <2>1, <2>2 DEF SignInsApart, WebShapes
  <2>5. \A q \in Admin : handler'[q] = handler[q] \/ handler'[q].kind # "login"
    BY <2>1, NoHandlerIs
  <2>6. \A q, r \in Admin : \A t : t # 0 /\ Holds(q, t)' /\ Holds(r, t)' => q = r
    BY <2>3 DEF SignInsApart
  <2>7. visitKind = "login" =>
          \A q \in Admin : \A t \in Nat \ {0} : Holds(q, t)' => t <= webCounts.logins
    BY <2>3 DEF SignInsApart
  <2> QED  BY <2>1, <2>4, <2>5, <2>6, <2>7 DEF SignInsApart
<1>8. ASSUME NEW t \in DOMAIN webSessions, SessionEnds(t) PROVE SignInsApart'
  <2>1. /\ webSessions' = [u \in DOMAIN webSessions \ {t} |-> webSessions[u]]
        /\ UNCHANGED <<visitKind, loginCookie, oauthStates, cookie, logins, handler>>
        /\ webCounts'.logins = webCounts.logins
    BY <1>3, <1>8 DEF SessionEnds
  <2>2. \A q \in Admin : \A u : Holds(q, u)' => Holds(q, u)
    BY <2>1 DEF Holds
  <2> QED  BY <2>1, <2>2, NobodyHoldsMore DEF SignInsApart
<1>9. ASSUME NEW p \in Admin, RequireAdmin(p) PROVE SignInsApart'
  <2> DEFINE s == [handler[p] EXCEPT !.stage = "checked"]
  <2>1. /\ UNCHANGED <<visitKind, signingIn, webCounts>>
        /\ handler[p].kind \in {"save", "queue", "load"}
        /\ Handles(p, s) \/ Handles(p, NoHandler)
    BY <1>9 DEF RequireAdmin
  <2>2. s.kind # "login"  BY <1>0, <2>1, Checked
  <2> HIDE DEF s
  <2> QED  BY <1>2, <2>1, <2>2, NoHandlerIs
<1>10. ASSUME NEW p \in Admin, LoadsPage(p) \/ SubmitsSettings(p) PROVE SignInsApart'
  BY <1>2, <1>10 DEF LoadsPage, SubmitsSettings, RequestBegins
<1>11. ASSUME NEW p \in Admin, PageLoaded(p) PROVE SignInsApart'
  BY <1>2, <1>11, NoHandlerIs DEF PageLoaded
<1>12. ASSUME NEW p \in Admin, SavesSettings(p) PROVE SignInsApart'
  <2>1. [kind |-> "saved", own |-> revisionNow + 1].kind # "login"  OBVIOUS
  <2> QED  BY <1>2, <1>12, <2>1, NoHandlerIs DEF SavesSettings
<1>13. ASSUME NEW p \in Admin, SettingsAnswered(p) \/ QueueAnswered(p) PROVE SignInsApart'
  BY <1>2, <1>3, <1>13, NoHandlerIs DEF SettingsAnswered, QueueAnswered, WebAnswer, WebFault
<1>14. ASSUME NEW p \in Admin, QueuesMember(p) PROVE SignInsApart'
  <2>1. PICK m \in handler[p].members :
          Handles(p, [kind |-> "queue",
                      stage |-> IF handler[p].members = {m} THEN "answer" ELSE handler[p].stage,
                      id |-> handler[p].id, members |-> handler[p].members \ {m}])
    BY <1>14, QueueMoves
  <2> QED  BY <1>2, <1>14, <2>1 DEF QueuesMember
<1>15. ASSUME NEW p \in Admin, NEW members, ClicksAction(p, members) PROVE SignInsApart'
  BY <1>2, <1>3, <1>15 DEF ClicksAction, RequestBegins
<1>16. CASE WebsiteDies
  <2>1. \A p \in Admin : handler'[p] = NoHandler  BY <1>16 DEF WebsiteDies
  <2> QED  BY <1>3, <1>16, <2>1, NoHandlerIs, NobodySignsIn DEF WebsiteDies, WebFault
<1> QED
  BY <1>4, <1>5, <1>6, <1>7, <1>8, <1>9, <1>10, <1>11, <1>12, <1>13, <1>14, <1>15, <1>16,
     LoginKeeps
  DEF WebNext

LEMMA FirstTokens ==
  /\ FirstToken \in [Admin -> 1..Cardinality(Admin)] /\ Cardinality(Admin) \in Nat
  /\ \A p, q \in Admin : FirstToken[p] = FirstToken[q] => p = q
<1> DEFINE n == Cardinality(Admin)
<1>1. n \in Nat /\ ExistsBijection(1..n, Admin)
  BY WebBounds, FS_CardinalityType
<1>2. PICK b \in [1..n -> Admin] : \A p \in Admin : \E i \in 1..n : b[i] = p
  BY <1>1 DEF ExistsBijection, Bijection, Surjection
<1> DEFINE f == [p \in Admin |-> CHOOSE i \in 1..n : b[i] = p]
<1>3. f \in [Admin -> 1..n] /\ \A p \in Admin : b[f[p]] = p
  BY <1>2
<1>4. \A p, q \in Admin : f[p] = f[q] => p = q
  BY <1>3
<1> HIDE DEF f, n
<1>5. \E g \in [Admin -> 1..n] : \A p, q \in Admin : g[p] = g[q] => p = q
  BY <1>3, <1>4
<1> QED  BY <1>1, <1>5 DEF FirstToken, n

LEMMA WebInitial == WebInit => WebShapes /\ PagesShow /\ ClicksInv /\ SignInsApart
<1> SUFFICES ASSUME WebInit PROVE WebShapes /\ PagesShow /\ ClicksInv /\ SignInsApart
  OBVIOUS
<1>1. cookie \in [Admin -> Nat]
      /\ \A p, q \in Admin : cookie[p] # 0 /\ cookie[p] = cookie[q] => p = q
  <2>1. CASE visitKind = "login"  BY <2>1 DEF WebInit
  <2>2. CASE visitKind # "login"  BY <2>2, FirstTokens DEF WebInit
  <2> QED  BY <2>1, <2>2
<1>2. WebShapes
  BY <1>1, NoHandlerIs DEF WebInit, WebShapes, NoClick
<1>3. PagesShow
  BY NoHandlerIs DEF WebInit, PagesShow, SettingsSeen
<1>4. ClicksInv
  BY NoHandlerIs DEF WebInit, ClicksInv, FormsMatch, JobShapes, DoneOnce, NobodyLeftOut, NoClick
<1>5. SignInsApart
  <2>1. /\ oauthStates = {} /\ loginCookie = [p \in Admin |-> 0]
        /\ \A p \in Admin : handler[p].kind = "none"
        /\ logins = {cookie[p] : p \in Admin} \ {0}
    BY NoHandlerIs DEF WebInit
  <2>2. DOMAIN webSessions = logins
        /\ \A t \in DOMAIN webSessions : webSessions[t] \in Admin /\ cookie[webSessions[t]] = t
    <3>1. webSessions = [t \in logins |-> CHOOSE p \in Admin : cookie[p] = t]
      BY DEF WebInit
    <3>2. \A t \in logins : \E p \in Admin : cookie[p] = t
      BY <2>1
    <3> QED  BY <3>1, <3>2
  <2>3. visitKind = "login" => \A p \in Admin : cookie[p] = 0
    BY DEF WebInit
  <2>4. \A p \in Admin : \A t : t # 0 /\ Holds(p, t) => cookie[p] = t
    BY <2>1, <2>2 DEF Holds
  <2>5. \A p, q \in Admin : \A t : t # 0 /\ Holds(p, t) /\ Holds(q, t) => p = q
    BY <1>1, <2>4
  <2>6. visitKind = "login" =>
          \A p \in Admin : \A t \in Nat \ {0} : Holds(p, t) => t <= webCounts.logins
    BY <2>3, <2>4
  <2>7. \A p \in Admin : cookie[p] # 0 => cookie[p] \in logins
    BY <2>1
  <2> QED  BY <2>1, <2>2, <2>5, <2>6, <2>7 DEF SignInsApart
<1> QED  BY <1>2, <1>3, <1>4, <1>5

WebInv == WebShapes /\ PagesShow /\ ClicksInv /\ SignInsApart

LEMMA WebStep == WebInv /\ [WebNext]_webVars => WebInv'
  BY WebShapesStep, PagesStep, ClicksStep, SignInsStep DEF WebInv

LEMMA WebKeeps == WebInv => SettingsSeen /\ ClickedOnce
<1>1. WebInv => SettingsSeen  BY DEF WebInv, PagesShow
<1>2. WebInv => \A j \in WebJob : webEffects[j] <= 1
  BY DEF WebInv, ClicksInv, DoneOnce
<1>3. WebInv => \A p \in Admin : SignedIn(p) => cookie[p] \in logins /\ webSessions[cookie[p]] = p
  BY DEF WebInv, SignInsApart, SignedIn, Holds
<1> QED
  BY <1>1, <1>2, <1>3 DEF WebInv, ClicksInv, DoneOnce, NobodyLeftOut, JobAt, ClickedOnce

(* A save replaces only the revision its page showed, and a click is done  *)
(* to each member once at most, whoever sends it again, whatever result    *)
(* is recorded, and however the website and the worker die in between: the *)
(* page's revision is compared in the transaction that writes, and a job's *)
(* write is made by its one claim.  A session is of the person who signed  *)
(* in, whose sign-in the journal has.                                      *)
THEOREM SeenAndOnce == WebSafety => [](SettingsSeen /\ ClickedOnce)
<1>1. WebInit => WebInv  BY WebInitial DEF WebInv
<1> QED  BY <1>1, WebStep, WebKeeps, PTL DEF WebSafety

-----------------------------------------------------------------------------
(* What members ask *)

CommandsSafety == CommandsInit /\ [][CommandsNext]_commandVars

AskIs(r) ==
  r = [kind |-> r.kind, from |-> r.from, by |-> r.by, wants |-> r.wants, stage |-> r.stage,
       first |-> r.first, tries |-> r.tries, scope |-> r.scope, shown |-> r.shown, at |-> r.at,
       tracked |-> r.tracked]

(* An interaction's row, with what its invocations write in it. *)
Moved(r, stage, first, tries, scope, shown) ==
  [kind |-> r.kind, from |-> r.from, by |-> r.by, wants |-> r.wants, stage |-> stage,
   first |-> first, tries |-> tries, scope |-> scope, shown |-> shown, at |-> r.at,
   tracked |-> r.tracked]

(* What the handlers write, as the row it makes. *)
LEMMA FirstAndStage ==
  ASSUME NEW r, AskIs(r), NEW x, NEW y
  PROVE  [r EXCEPT !.first = x, !.stage = y] = Moved(r, y, x, r.tries, r.scope, r.shown)
<1>1. PICK s : s = [r EXCEPT !.first = x]
  OBVIOUS
<1>2. s = Moved(r, r.stage, x, r.tries, r.scope, r.shown)
  BY <1>1 DEF AskIs, Moved
<1>3. [s EXCEPT !.stage = y] = Moved(r, y, x, r.tries, r.scope, r.shown)
  BY <1>2 DEF Moved
<1> QED  BY <1>1, <1>3

LEMMA StageAndFirst ==
  ASSUME NEW r, AskIs(r), NEW x, NEW y
  PROVE  [r EXCEPT !.stage = x, !.first = y] = Moved(r, x, y, r.tries, r.scope, r.shown)
<1>1. PICK s : s = [r EXCEPT !.stage = x]
  OBVIOUS
<1>2. s = Moved(r, x, r.first, r.tries, r.scope, r.shown)
  BY <1>1 DEF AskIs, Moved
<1>3. [s EXCEPT !.first = y] = Moved(r, x, y, r.tries, r.scope, r.shown)
  BY <1>2 DEF Moved
<1> QED  BY <1>1, <1>3

LEMMA StageAndScope ==
  ASSUME NEW r, AskIs(r), NEW x, NEW y
  PROVE  [r EXCEPT !.stage = x, !.scope = y] = Moved(r, x, r.first, r.tries, y, r.shown)
<1>1. PICK s : s = [r EXCEPT !.stage = x]
  OBVIOUS
<1>2. s = Moved(r, x, r.first, r.tries, r.scope, r.shown)
  BY <1>1 DEF AskIs, Moved
<1>3. [s EXCEPT !.scope = y] = Moved(r, x, r.first, r.tries, y, r.shown)
  BY <1>2 DEF Moved
<1> QED  BY <1>1, <1>3

LEMMA StageAndTries ==
  ASSUME NEW r, AskIs(r), NEW x, NEW y
  PROVE  [r EXCEPT !.stage = x, !.tries = y] = Moved(r, x, r.first, y, r.scope, r.shown)
<1>1. PICK s : s = [r EXCEPT !.stage = x]
  OBVIOUS
<1>2. s = Moved(r, x, r.first, r.tries, r.scope, r.shown)
  BY <1>1 DEF AskIs, Moved
<1>3. [s EXCEPT !.tries = y] = Moved(r, x, r.first, y, r.scope, r.shown)
  BY <1>2 DEF Moved
<1> QED  BY <1>1, <1>3

LEMMA StageAndShown ==
  ASSUME NEW r, AskIs(r), NEW x, NEW y
  PROVE  [r EXCEPT !.stage = x, !.shown = y] = Moved(r, x, r.first, r.tries, r.scope, y)
<1>1. PICK s : s = [r EXCEPT !.stage = x]
  OBVIOUS
<1>2. s = Moved(r, x, r.first, r.tries, r.scope, r.shown)
  BY <1>1 DEF AskIs, Moved
<1>3. [s EXCEPT !.shown = y] = Moved(r, x, r.first, r.tries, r.scope, y)
  BY <1>2 DEF Moved
<1> QED  BY <1>1, <1>3

LEMMA StageScopeTries ==
  ASSUME NEW r, AskIs(r), NEW x, NEW y, NEW z
  PROVE  [r EXCEPT !.stage = x, !.scope = y, !.tries = z] = Moved(r, x, r.first, z, y, r.shown)
<1>1. PICK s : s = [r EXCEPT !.stage = x]
  OBVIOUS
<1>2. s = Moved(r, x, r.first, r.tries, r.scope, r.shown)
  BY <1>1 DEF AskIs, Moved
<1>3. PICK t : t = [s EXCEPT !.scope = y]
  OBVIOUS
<1>4. t = Moved(r, x, r.first, r.tries, y, r.shown)
  BY <1>3, <1>2 DEF Moved
<1>5. [t EXCEPT !.tries = z] = Moved(r, x, r.first, z, y, r.shown)
  BY <1>4 DEF Moved
<1> QED  BY <1>1, <1>3, <1>5

-----------------------------------------------------------------------------
(* Who asked may have what is being done for them; see AnsweredAsAsked.    *)
Manages(r) == r.kind = "setup" /\ r.from = HomeServer /\ r.by = "manager"
WantsToKnow(r) == r.kind = "progress" /\ r.from \in DiscordServer

Rightly(listed, a, r, stage, first, scope, shown) ==
  /\ r.from \in DiscordServer => Tracked(configRow, r.from) \subseteq r.tracked
  /\ stage \in {"asked", "snapshot"} => first = "none"
  /\ stage \in {"snapshot", "profile"} => WantsToKnow(r) /\ scope \in r.tracked
  /\ stage = "queued" => WantsToKnow(r) \/ Manages(r)
  /\ stage \in {"save", "register", "notfound"} => Manages(r)
  /\ stage = "save" => r.wants \in WowGuild
  /\ stage = "register" => a \in savedFor
  /\ stage = "edit" => \/ WantsToKnow(r) /\ shown # {}
                       \/ Manages(r) /\ a \in savedFor /\ HomeServer \in listed
  /\ \A s \in shown : /\ s.guild \in r.tracked /\ s.knew <= s.killed
                      /\ r.at <= s.updatedAt + MaxAge
  /\ first = "progress" => shown # {}
  /\ a \in savedFor => r.from = HomeServer /\ r.by = "manager" /\ r.wants \in WowGuild
  /\ first = "configured" => a \in savedFor /\ HomeServer \in listed
  /\ first \in {"forwarded", "unconfirmed", "poll"} => r.from = HomeServer /\ r.by # "forged"
  /\ first = "deferred" => stage # "over"

AllRight ==
  \A a \in DOMAIN asks :
    Rightly(listedServers, a, asks[a], asks[a].stage, asks[a].first, asks[a].scope, asks[a].shown)

AskShapes ==
  /\ \E n \in Nat : DOMAIN asks = 1..n
  /\ savedFor \subseteq DOMAIN asks
  /\ configRow \in [DiscordServer -> WowGuild \cup {Misspelt}]
  /\ \A a \in DOMAIN asks :
       /\ AskIs(asks[a]) /\ asks[a].from \in DiscordServer \cup {NoServer}
       /\ asks[a].wants \in WowGuild \cup {Misspelt} /\ asks[a].tracked \subseteq WowGuild
       /\ asks[a].at \in Nat /\ asks[a].at <= hours

(* A snapshot shows at least the bosses that were down when its poll began. *)
SnapshotsTrue ==
  /\ hours \in Nat /\ bossCount \in [WowGuild -> Nat] /\ DOMAIN snapshots = WowGuild
  /\ \A p \in snapping :
       /\ p = [n |-> p.n, guild |-> p.guild, read |-> p.read, killed |-> p.killed,
               updatedAt |-> p.updatedAt, knew |-> p.knew]
       /\ p.guild \in WowGuild /\ p.knew \in Nat /\ p.killed \in Nat /\ p.read \in BOOLEAN
       /\ p.knew <= bossCount[p.guild] /\ (p.read = TRUE => p.knew <= p.killed)
  /\ \A g \in WowGuild : /\ \A s \in snapshots[g] : s.knew <= s.killed
                         /\ \A s, t \in snapshots[g] : s = t

CommandsInv == AllRight /\ AskShapes /\ SnapshotsTrue

(* A row is written, and nothing else is. *)
LEMMA RowTurns ==
  ASSUME CommandsInv, NEW a \in DOMAIN asks,
         NEW stage, NEW first, NEW tries, NEW scope, NEW shown,
         asks' = [asks EXCEPT ![a] = Moved(asks[a], stage, first, tries, scope, shown)],
         UNCHANGED <<configRow, savedFor, progress>>, listedServers \subseteq listedServers',
         Rightly(listedServers', a, asks[a], stage, first, scope, shown)
  PROVE  CommandsInv'
<1> DEFINE s == Moved(asks[a], stage, first, tries, scope, shown)
<1>1. /\ AskIs(s) /\ s.kind = asks[a].kind /\ s.from = asks[a].from /\ s.by = asks[a].by
      /\ s.wants = asks[a].wants /\ s.at = asks[a].at /\ s.tracked = asks[a].tracked
      /\ s.stage = stage /\ s.first = first /\ s.scope = scope /\ s.shown = shown
  BY DEF AskIs, Moved
<1>2. /\ DOMAIN asks' = DOMAIN asks /\ asks'[a] = s
      /\ \A b \in DOMAIN asks : b # a => asks'[b] = asks[b]
  OBVIOUS
<1> HIDE DEF s
<1>3. AskShapes'
  BY <1>1, <1>2 DEF CommandsInv, AskShapes, progress
<1>4. SnapshotsTrue'
  BY DEF CommandsInv, SnapshotsTrue, progress
<1>5. ASSUME NEW b \in DOMAIN asks
      PROVE  Rightly(listedServers, b, asks[b], asks[b].stage, asks[b].first, asks[b].scope, asks[b].shown)'
  <2>1. CASE b = a
    <3>1. /\ WantsToKnow(asks[b])' <=> WantsToKnow(asks[a])
          /\ Manages(asks[b])' <=> Manages(asks[a])
      BY <1>1, <1>2, <2>1 DEF WantsToKnow, Manages
    <3>2. /\ asks'[b].stage = stage /\ asks'[b].first = first /\ asks'[b].scope = scope
          /\ asks'[b].shown = shown /\ asks'[b].tracked = asks[a].tracked
          /\ asks'[b].at = asks[a].at /\ asks'[b].from = asks[a].from
          /\ asks'[b].by = asks[a].by /\ asks'[b].wants = asks[a].wants
      BY <1>1, <1>2, <2>1
    <3>3. HomeServer \in listedServers => HomeServer \in listedServers'
      OBVIOUS
    <3> QED  BY <2>1, <3>1, <3>2, <3>3 DEF Rightly, Tracked
  <2>2. CASE b # a
    BY <1>2, <2>2 DEF CommandsInv, AllRight, Rightly, Tracked, WantsToKnow, Manages
  <2> QED  BY <2>1, <2>2
<1> QED  BY <1>2, <1>3, <1>4, <1>5 DEF CommandsInv, AllRight

LEMMA FirstAnswers ==
  ASSUME CommandsInv, NEW a \in DOMAIN asks, NEW answer, FirstAnswer(a, answer),
         UNCHANGED <<servers, progress>>,
         answer \notin {"progress", "configured"},
         answer = "deferred" => WantsToKnow(asks[a]) \/ Manages(asks[a]),
         answer \in {"forwarded", "unconfirmed", "poll"}
           => asks[a].from = HomeServer /\ asks[a].by # "forged"
  PROVE  CommandsInv'
<1> DEFINE r == asks[a]
           stage == IF answer = "deferred" THEN "queued" ELSE "over"
<1>1. AskIs(r) /\ Rightly(listedServers, a, r, r.stage, r.first, r.scope, r.shown)
  BY DEF CommandsInv, AskShapes, AllRight
<1>2. [r EXCEPT !.first = answer, !.stage = stage]
        = Moved(r, stage, answer, r.tries, r.scope, r.shown)
  <2>1. AskIs(r)  BY <1>1
  <2> HIDE DEF r
  <2> QED  BY <2>1, FirstAndStage
<1>3. asks' = [asks EXCEPT ![a] = Moved(r, stage, answer, r.tries, r.scope, r.shown)]
  BY <1>2 DEF FirstAnswer
<1>4. Rightly(listedServers, a, r, stage, answer, r.scope, r.shown)
  BY <1>1 DEF Rightly
<1> QED  BY <1>3, <1>4, RowTurns DEF servers

LEMMA Deferred ==
  ASSUME CommandsInv, NEW a \in DOMAIN asks, Defers(a), UNCHANGED <<servers, progress>>,
         WantsToKnow(asks[a]) \/ Manages(asks[a])
  PROVE  CommandsInv'
  BY FirstAnswers DEF Defers

LEMMA TrackedIs ==
  ASSUME AskShapes, NEW s \in DiscordServer PROVE Tracked(configRow, s) \subseteq WowGuild
  BY CommandNames DEF AskShapes, Tracked

LEMMA HandlesInteraction ==
  ASSUME CommandsInv, NEW a \in DOMAIN asks, HandleInteraction(a) PROVE CommandsInv'
<1> DEFINE r == asks[a]
<1>1. /\ AskIs(r) /\ r.from \in DiscordServer \cup {NoServer} /\ r.stage = "asked"
      /\ UNCHANGED <<servers, progress>>
      /\ Rightly(listedServers, a, r, r.stage, r.first, r.scope, r.shown)
  BY DEF CommandsInv, AskShapes, AllRight, HandleInteraction
<1>2. ASSUME NEW answer \in {"unauthorized", "refused"}, FirstAnswer(a, answer)
      PROVE  CommandsInv'
  BY <1>1, <1>2, FirstAnswers
<1>3. CASE r.by = "forged" /\ FirstAnswer(a, "unauthorized")
  BY <1>2, <1>3
<1>4. ASSUME NEW answer \in {"forwarded", "unconfirmed", "poll"}, FirstAnswer(a, answer),
             r.by # "forged", r.from = HomeServer
      PROVE  CommandsInv'
  BY <1>1, <1>4, FirstAnswers
<1>5. CASE r.by # "forged" /\ r.kind = "relayed"
  BY <1>2, <1>4, <1>5 DEF HandleInteraction
<1>6. CASE r.by # "forged" /\ r.kind = "poll"
  <2>1. \/ FirstAnswer(a, "refused")
        \/ FirstAnswer(a, "poll") /\ r.from = HomeServer
    BY <1>6 DEF HandleInteraction
  <2> QED  BY <1>2, <1>4, <1>6, <2>1
<1>7. CASE r.by # "forged" /\ r.kind = "setup"
  <2>1. \/ FirstAnswer(a, "refused")
        \/ Defers(a) /\ r.from = HomeServer /\ r.by = "manager"
    BY <1>7 DEF HandleInteraction
  <2> QED  BY <1>1, <1>2, <1>7, <2>1, Deferred DEF Manages
<1>8. CASE r.by # "forged" /\ r.kind = "progress"
  <2>1. CASE FirstAnswer(a, "refused")  BY <1>2, <2>1
  <2>2. ASSUME NEW g \in Tracked(configRow, r.from), r.from # NoServer,
               asks' = [asks EXCEPT ![a].stage = "snapshot", ![a].scope = g]
        PROVE  CommandsInv'
    <3>1. [r EXCEPT !.stage = "snapshot", !.scope = g]
            = Moved(r, "snapshot", r.first, r.tries, g, r.shown)
      <4>1. AskIs(r)  BY <1>1
      <4> HIDE DEF r
      <4> QED  BY <4>1, StageAndScope
    <3>2. asks' = [asks EXCEPT ![a] = Moved(r, "snapshot", r.first, r.tries, g, r.shown)]
      BY <2>2, <3>1
    <3>3. Rightly(listedServers, a, r, "snapshot", r.first, g, r.shown)
      BY <1>1, <1>8, <2>2 DEF Rightly, WantsToKnow
    <3> QED  BY <1>1, <3>2, <3>3, RowTurns DEF servers
  <2> QED  BY <1>8, <2>1, <2>2 DEF HandleInteraction
<1> QED  BY <1>3, <1>5, <1>6, <1>7, <1>8 DEF HandleInteraction

LEMMA AnswersProgress ==
  ASSUME CommandsInv, NEW a \in DOMAIN asks, HandleProgress(a) PROVE CommandsInv'
<1> DEFINE r == asks[a]
           shown == SnapshotOf(r.scope)
<1>1. /\ AskIs(r) /\ r.stage = "snapshot" /\ UNCHANGED <<servers, progress>>
      /\ Rightly(listedServers, a, r, r.stage, r.first, r.scope, r.shown)
      /\ WantsToKnow(r) /\ r.scope \in r.tracked /\ r.tracked \subseteq WowGuild
  BY DEF CommandsInv, AskShapes, AllRight, HandleProgress, Rightly
<1>2. CASE Fresh(a) /\ asks' = [asks EXCEPT ![a].first = "progress", ![a].stage = "over",
                                            ![a].shown = shown]
  <2>1. [r EXCEPT !.first = "progress", !.stage = "over", !.shown = shown]
          = Moved(r, "over", "progress", r.tries, r.scope, shown)
    <3>1. AskIs(r)  BY <1>1
    <3> HIDE DEF shown, r
    <3>2. PICK s : s = [r EXCEPT !.first = "progress", !.stage = "over"]
      OBVIOUS
    <3>3. [r EXCEPT !.first = "progress", !.stage = "over"]
            = Moved(r, "over", "progress", r.tries, r.scope, r.shown)
      BY <3>1, FirstAndStage
    <3>4. s = Moved(r, "over", "progress", r.tries, r.scope, r.shown)
      BY <3>2, <3>3
    <3>5. [s EXCEPT !.shown = shown] = Moved(r, "over", "progress", r.tries, r.scope, shown)
      BY <3>4 DEF Moved
    <3> QED  BY <3>2, <3>5
  <2>2. asks' = [asks EXCEPT ![a] = Moved(r, "over", "progress", r.tries, r.scope, shown)]
    <3> HIDE DEF shown
    <3> QED  BY <1>2, <2>1
  <2>3. PICK s \in snapshots[r.scope] : r.at <= s.updatedAt + MaxAge
    BY <1>2 DEF Fresh
  <2>4. \A t \in snapshots[r.scope] : t = s /\ t.knew <= t.killed
    BY <1>1, <2>3 DEF CommandsInv, SnapshotsTrue
  <2>5. shown # {} /\ \A t \in shown : /\ t.guild \in r.tracked /\ t.knew <= t.killed
                                      /\ r.at <= t.updatedAt + MaxAge
    <3>1. shown = {[guild |-> r.scope, killed |-> t.killed, updatedAt |-> t.updatedAt,
                    knew |-> t.knew] : t \in snapshots[r.scope]}
      BY DEF SnapshotOf
    <3> HIDE DEF shown
    <3>2. ASSUME NEW u \in shown
          PROVE  u.guild \in r.tracked /\ u.knew <= u.killed /\ r.at <= u.updatedAt + MaxAge
      <4>1. PICK t \in snapshots[r.scope] :
              u = [guild |-> r.scope, killed |-> t.killed, updatedAt |-> t.updatedAt,
                   knew |-> t.knew]
        BY <3>1
      <4>2. t = s /\ t.knew <= t.killed  BY <2>4
      <4>3. u.guild = r.scope /\ u.knew = t.knew /\ u.killed = t.killed
            /\ u.updatedAt = t.updatedAt
        BY <4>1
      <4> QED  BY <1>1, <2>3, <4>2, <4>3
    <3>3. shown # {}  BY <2>3, <3>1
    <3> QED  BY <3>2, <3>3
  <2> HIDE DEF shown
  <2>6. Rightly(listedServers, a, r, "over", "progress", r.scope, shown)
    BY <1>1, <2>5 DEF Rightly
  <2> QED  BY <1>1, <2>2, <2>6, RowTurns DEF servers
<1>3. CASE Defers(a)  BY <1>1, <1>3, Deferred
<1>4. CASE FirstAnswer(a, "deferred")  BY <1>1, <1>4, FirstAnswers
<1> QED  BY <1>2, <1>3, <1>4 DEF HandleProgress

(* Steps that write an interaction's stage, and what was learnt for it. *)
LEMMA FollowupMoves ==
  ASSUME CommandsInv, NEW a \in DOMAIN asks,
         FirstDies(a) \/ HandleFollowup(a) \/ ProgressLive(a) \/ LookupFails(a)
         \/ EditFollowup(a) \/ FollowupDies(a)
  PROVE  CommandsInv'
<1> DEFINE r == asks[a]
<1>1. /\ AskIs(r) /\ r.from \in DiscordServer \cup {NoServer} /\ r.at \in Nat /\ r.at <= hours
      /\ r.wants \in WowGuild \cup {Misspelt} /\ r.tracked \subseteq WowGuild /\ hours \in Nat
      /\ Rightly(listedServers, a, r, r.stage, r.first, r.scope, r.shown)
  BY DEF CommandsInv, AskShapes, AllRight, SnapshotsTrue
<1>2. UNCHANGED <<servers, progress>>
  BY DEF FirstDies, HandleFollowup, ProgressLive, LookupFails, EditFollowup, FollowupDies
<1>3. CASE FirstDies(a)
  <2>1. r.stage \in {"asked", "snapshot"} /\ asks' = [asks EXCEPT ![a].stage = "over"]
    BY <1>3 DEF FirstDies
  <2>2. [r EXCEPT !.stage = "over"] = Moved(r, "over", r.first, r.tries, r.scope, r.shown)
    BY <1>1 DEF AskIs, Moved
  <2>3. asks' = [asks EXCEPT ![a] = Moved(r, "over", r.first, r.tries, r.scope, r.shown)]
    BY <2>1, <2>2
  <2>4. Rightly(listedServers, a, r, "over", r.first, r.scope, r.shown)
    BY <1>1, <2>1 DEF Rightly
  <2> QED  BY <1>2, <2>3, <2>4, RowTurns DEF servers
<1>4. CASE HandleFollowup(a)
  <2>1. r.stage = "queued" /\ (WantsToKnow(r) \/ Manages(r))
    BY <1>1, <1>4 DEF HandleFollowup, Rightly
  <2>2. ASSUME r.kind = "progress", NEW g \in InteractionScope(a),
               asks' = [asks EXCEPT ![a].stage = "profile", ![a].scope = g, ![a].tries = @ - 1]
        PROVE  CommandsInv'
    <3>1. [r EXCEPT !.stage = "profile", !.scope = g, !.tries = r.tries - 1]
            = Moved(r, "profile", r.first, r.tries - 1, g, r.shown)
      <4>1. AskIs(r)  BY <1>1
      <4> HIDE DEF r
      <4> QED  BY <4>1, StageScopeTries
    <3>2. asks' = [asks EXCEPT ![a] = Moved(r, "profile", r.first, r.tries - 1, g, r.shown)]
      BY <2>2, <3>1
    <3>3. WantsToKnow(r) /\ g \in r.tracked
      BY <1>1, <2>1, <2>2 DEF Manages, WantsToKnow, InteractionScope, Rightly
    <3>4. Rightly(listedServers, a, r, "profile", r.first, g, r.shown)
      BY <1>1, <3>3 DEF Rightly
    <3> QED  BY <1>2, <3>2, <3>4, RowTurns DEF servers
  <2>3. ASSUME r.kind = "setup", NEW stage, stage = (IF r.wants = Misspelt THEN "notfound" ELSE "save"),
               asks' = [asks EXCEPT ![a].stage = stage, ![a].tries = @ - 1]
        PROVE  CommandsInv'
    <3>1. [r EXCEPT !.stage = stage, !.tries = r.tries - 1]
            = Moved(r, stage, r.first, r.tries - 1, r.scope, r.shown)
      <4>1. AskIs(r)  BY <1>1
      <4> HIDE DEF r
      <4> QED  BY <4>1, StageAndTries
    <3>2. asks' = [asks EXCEPT ![a] = Moved(r, stage, r.first, r.tries - 1, r.scope, r.shown)]
      BY <2>3, <3>1
    <3>3. Manages(r)  BY <2>1, <2>3 DEF WantsToKnow
    <3>4. Rightly(listedServers, a, r, stage, r.first, r.scope, r.shown)
      BY <1>1, <2>3, <3>3 DEF Rightly
    <3> QED  BY <1>2, <3>2, <3>4, RowTurns DEF servers
  <2> QED  BY <1>4, <2>2, <2>3 DEF HandleFollowup
<1>5. CASE ProgressLive(a)
  <2> DEFINE live == [guild |-> r.scope, killed |-> bossCount[r.scope], updatedAt |-> hours,
                      knew |-> bossCount[r.scope]]
  <2>1. r.stage = "profile" /\ WantsToKnow(r) /\ r.scope \in r.tracked
    BY <1>1, <1>5 DEF ProgressLive, Rightly
  <2>2. bossCount[r.scope] \in Nat
    BY <1>1, <2>1 DEF CommandsInv, SnapshotsTrue
  <2>3. live.guild \in r.tracked /\ live.knew <= live.killed /\ r.at <= live.updatedAt + MaxAge
    BY <1>1, <2>1, <2>2, CommandBounds
  <2>4. asks' = [asks EXCEPT ![a].stage = "edit", ![a].shown = {live}]
    BY <1>5 DEF ProgressLive
  <2> HIDE DEF live
  <2>5. [r EXCEPT !.stage = "edit", !.shown = {live}]
          = Moved(r, "edit", r.first, r.tries, r.scope, {live})
    <3>1. AskIs(r)  BY <1>1
    <3> HIDE DEF r
    <3> QED  BY <3>1, StageAndShown
  <2>6. asks' = [asks EXCEPT ![a] = Moved(r, "edit", r.first, r.tries, r.scope, {live})]
    BY <2>4, <2>5
  <2>7. Rightly(listedServers, a, r, "edit", r.first, r.scope, {live})
    BY <1>1, <2>1, <2>3 DEF Rightly
  <2> QED  BY <1>2, <2>6, <2>7, RowTurns DEF servers
<1>6. CASE LookupFails(a)
  <2>1. r.stage = "save" /\ asks' = [asks EXCEPT ![a].stage = "notfound"]
    BY <1>6 DEF LookupFails
  <2>2. [r EXCEPT !.stage = "notfound"] = Moved(r, "notfound", r.first, r.tries, r.scope, r.shown)
    BY <1>1 DEF AskIs, Moved
  <2>3. asks' = [asks EXCEPT ![a] = Moved(r, "notfound", r.first, r.tries, r.scope, r.shown)]
    BY <2>1, <2>2
  <2>4. Rightly(listedServers, a, r, "notfound", r.first, r.scope, r.shown)
    BY <1>1, <2>1 DEF Rightly
  <2> QED  BY <1>2, <2>3, <2>4, RowTurns DEF servers
<1>7. CASE EditFollowup(a)
  <2>1. PICK stage, first :
          /\ asks' = [asks EXCEPT ![a].stage = stage, ![a].first = first]
          /\ \E again \in BOOLEAN : stage = IF again THEN "queued" ELSE "over"
          /\ first = IF r.kind = "progress" THEN "progress"
                     ELSE IF r.stage = "edit" THEN "configured" ELSE "notfound"
    BY <1>7 DEF EditFollowup
  <2>2. /\ stage \in {"queued", "over"}
        /\ \/ first = "progress" /\ r.kind = "progress"
           \/ first = "notfound" /\ r.stage # "edit"
           \/ first = "configured" /\ r.stage = "edit" /\ r.kind # "progress"
    BY <2>1
  <2>3. [r EXCEPT !.stage = stage, !.first = first]
          = Moved(r, stage, first, r.tries, r.scope, r.shown)
    <3>1. AskIs(r)  BY <1>1
    <3> HIDE DEF r
    <3> QED  BY <3>1, StageAndFirst
  <2>4. asks' = [asks EXCEPT ![a] = Moved(r, stage, first, r.tries, r.scope, r.shown)]
    BY <2>1, <2>3
  <2>5. Rightly(listedServers, a, r, stage, first, r.scope, r.shown)
    <3>1. r.stage \in {"edit", "notfound"}  BY <1>7 DEF EditFollowup
    <3>2. CASE r.stage = "notfound"  BY <1>1, <2>2, <3>2 DEF Rightly, Manages
    <3>3. CASE r.stage = "edit" /\ r.kind # "progress"
      BY <1>1, <2>2, <3>3 DEF Rightly, WantsToKnow
    <3>4. CASE r.stage = "edit" /\ r.kind = "progress"
      BY <1>1, <2>2, <3>4 DEF Rightly, Manages
    <3> QED  BY <3>1, <3>2, <3>3, <3>4
  <2> QED  BY <1>2, <2>4, <2>5, RowTurns DEF servers
<1>8. CASE FollowupDies(a)
  <2>1. PICK shown :
          /\ asks' = [asks EXCEPT ![a].stage = "queued", ![a].shown = shown]
          /\ shown = (IF r.first = "progress" THEN r.shown ELSE {})
    BY <1>8 DEF FollowupDies
  <2>2. [r EXCEPT !.stage = "queued", !.shown = shown]
          = Moved(r, "queued", r.first, r.tries, r.scope, shown)
    <3>1. AskIs(r)  BY <1>1
    <3> HIDE DEF r
    <3> QED  BY <3>1, StageAndShown
  <2>3. asks' = [asks EXCEPT ![a] = Moved(r, "queued", r.first, r.tries, r.scope, shown)]
    BY <2>1, <2>2
  <2>4. WantsToKnow(r) \/ Manages(r)
    BY <1>1, <1>8 DEF FollowupDies, Rightly
  <2>5. Rightly(listedServers, a, r, "queued", r.first, r.scope, shown)
    BY <1>1, <2>1, <2>4 DEF Rightly
  <2> QED  BY <1>2, <2>3, <2>5, RowTurns DEF servers
<1> QED  BY <1>3, <1>4, <1>5, <1>6, <1>7, <1>8

(* A server's row is written: what is asked there may be answered for the  *)
(* guild of before or of now.                                              *)
Placed(r, stage, tracked) ==
  [kind |-> r.kind, from |-> r.from, by |-> r.by, wants |-> r.wants, stage |-> stage,
   first |-> r.first, tries |-> r.tries, scope |-> r.scope, shown |-> r.shown, at |-> r.at,
   tracked |-> tracked]

LEMMA RowsPlaced ==
  ASSUME CommandsInv, NEW s \in DiscordServer, NEW g \in WowGuild, NEW saved \in SUBSET DOMAIN asks,
         configRow' = [configRow EXCEPT ![s] = g], savedFor' = savedFor \cup saved,
         listedServers \subseteq listedServers', UNCHANGED progress,
         DOMAIN asks' = DOMAIN asks,
         \A b \in DOMAIN asks :
           asks'[b] = Placed(asks[b], IF b \in saved THEN "register" ELSE asks[b].stage,
                             IF asks[b].from = s THEN asks[b].tracked \cup {g}
                             ELSE asks[b].tracked),
         \A b \in saved : Manages(asks[b]) /\ asks[b].wants \in WowGuild
  PROVE  CommandsInv'
<1>1. ASSUME NEW b \in DOMAIN asks
      PROVE  LET r == asks[b]  t == asks'[b] IN
             /\ AskIs(t) /\ t.kind = r.kind /\ t.from = r.from /\ t.by = r.by /\ t.wants = r.wants
             /\ t.at = r.at /\ t.first = r.first /\ t.scope = r.scope /\ t.shown = r.shown
             /\ t.stage = IF b \in saved THEN "register" ELSE r.stage
             /\ t.tracked = IF r.from = s THEN r.tracked \cup {g} ELSE r.tracked
  <2>1. PICK stage, tracked :
          /\ asks'[b] = Placed(asks[b], stage, tracked)
          /\ stage = IF b \in saved THEN "register" ELSE asks[b].stage
          /\ tracked = IF asks[b].from = s THEN asks[b].tracked \cup {g} ELSE asks[b].tracked
    OBVIOUS
  <2>2. PICK t : t = asks'[b]
    OBVIOUS
  <2>3. /\ AskIs(t) /\ t.kind = asks[b].kind /\ t.from = asks[b].from /\ t.by = asks[b].by
        /\ t.wants = asks[b].wants /\ t.at = asks[b].at /\ t.first = asks[b].first
        /\ t.scope = asks[b].scope /\ t.shown = asks[b].shown /\ t.stage = stage
        /\ t.tracked = tracked
    BY <2>1, <2>2 DEF AskIs, Placed
  <2> QED  BY <2>1, <2>2, <2>3
<1>2. AskShapes'
  <2>1. /\ configRow' \in [DiscordServer -> WowGuild \cup {Misspelt}]
        /\ savedFor' \subseteq DOMAIN asks' /\ (\E n \in Nat : DOMAIN asks' = 1..n)
        /\ hours' = hours
    BY DEF CommandsInv, AskShapes, progress
  <2>2. ASSUME NEW b \in DOMAIN asks
        PROVE  /\ AskIs(asks'[b]) /\ asks'[b].from \in DiscordServer \cup {NoServer}
               /\ asks'[b].wants \in WowGuild \cup {Misspelt} /\ asks'[b].tracked \subseteq WowGuild
               /\ asks'[b].at \in Nat /\ asks'[b].at <= hours
    <3>1. /\ asks[b].from \in DiscordServer \cup {NoServer} /\ asks[b].at \in Nat
          /\ asks[b].wants \in WowGuild \cup {Misspelt} /\ asks[b].tracked \subseteq WowGuild
          /\ asks[b].at <= hours
      BY DEF CommandsInv, AskShapes
    <3>2. asks'[b].tracked \subseteq WowGuild
      <4>1. asks'[b].tracked = IF asks[b].from = s THEN asks[b].tracked \cup {g}
                               ELSE asks[b].tracked
        BY <1>1
      <4> QED  BY <3>1, <4>1
    <3>3. AskIs(asks'[b]) /\ asks'[b].from = asks[b].from /\ asks'[b].wants = asks[b].wants
          /\ asks'[b].at = asks[b].at
      BY <1>1
    <3> QED  BY <3>1, <3>2, <3>3
  <2> QED  BY <2>1, <2>2 DEF AskShapes, AskIs
<1>3. SnapshotsTrue'
  BY DEF CommandsInv, SnapshotsTrue, progress
<1>4. ASSUME NEW b \in DOMAIN asks
      PROVE  Rightly(listedServers, b, asks[b], asks[b].stage, asks[b].first, asks[b].scope, asks[b].shown)'
  <2> DEFINE r == asks[b]
  <2>1. /\ Rightly(listedServers, b, r, r.stage, r.first, r.scope, r.shown)
        /\ configRow \in [DiscordServer -> WowGuild \cup {Misspelt}]
    BY DEF CommandsInv, AllRight, AskShapes
  <2>2. /\ WantsToKnow(asks[b])' <=> WantsToKnow(asks[b])
        /\ Manages(asks[b])' <=> Manages(asks[b])
    BY <1>1 DEF WantsToKnow, Manages
  <2>3. r.from \in DiscordServer => Tracked(configRow', r.from) \subseteq asks'[b].tracked
    <3>1. CASE r.from = s
      BY <1>1, <2>1, <3>1, CommandNames DEF Tracked
    <3>2. CASE r.from # s
      BY <1>1, <2>1, <3>2 DEF Tracked, Rightly
    <3> QED  BY <3>1, <3>2
  <2>4. r.tracked \subseteq asks'[b].tracked
    BY <1>1
  <2>5. CASE b \in saved
    <3>1. Manages(r) /\ r.wants \in WowGuild /\ b \in savedFor' /\ asks'[b].stage = "register"
      BY <1>1, <2>5
    <3> QED  BY <1>1, <2>1, <2>2, <2>3, <2>4, <3>1 DEF Rightly, Manages
  <2>6. CASE b \notin saved
    BY <1>1, <2>1, <2>2, <2>3, <2>4, <2>6 DEF Rightly
  <2> QED  BY <2>5, <2>6
<1> QED  BY <1>2, <1>3, <1>4 DEF CommandsInv, AllRight

LEMMA StageAndTracked ==
  ASSUME NEW r, AskIs(r), NEW x, NEW y
  PROVE  [r EXCEPT !.stage = x, !.tracked = y] = Placed(r, x, y)
<1>1. PICK s : s = [r EXCEPT !.stage = x]
  OBVIOUS
<1>2. s = Placed(r, x, r.tracked)
  BY <1>1 DEF AskIs, Placed
<1>3. [s EXCEPT !.tracked = y] = Placed(r, x, y)
  BY <1>2 DEF Placed
<1> QED  BY <1>1, <1>3

LEMMA OperatorKeeps ==
  ASSUME CommandsInv, NEW s \in DiscordServer, NEW g \in WowGuild, OperatorConfigures(s, g)
  PROVE  CommandsInv'
<1>1. /\ configRow' = [configRow EXCEPT ![s] = g] /\ listedServers' = listedServers \cup {s}
      /\ asks' = [a \in DOMAIN asks |-> IF asks[a].from = s
                                        THEN [asks[a] EXCEPT !.tracked = @ \cup {g}] ELSE asks[a]]
      /\ UNCHANGED <<progress, savedFor>>
  BY DEF OperatorConfigures, PutConfig
<1>2. ASSUME NEW b \in DOMAIN asks
      PROVE  asks'[b] = Placed(asks[b], IF b \in {} THEN "register" ELSE asks[b].stage,
                               IF asks[b].from = s THEN asks[b].tracked \cup {g}
                               ELSE asks[b].tracked)
  <2>1. AskIs(asks[b])  BY DEF CommandsInv, AskShapes
  <2>2. [asks[b] EXCEPT !.tracked = asks[b].tracked \cup {g}]
          = Placed(asks[b], asks[b].stage, asks[b].tracked \cup {g})
    BY <2>1 DEF AskIs, Placed
  <2>3. asks[b] = Placed(asks[b], asks[b].stage, asks[b].tracked)
    BY <2>1 DEF AskIs, Placed
  <2> QED  BY <1>1, <2>2, <2>3
<1>3. PICK saved \in SUBSET DOMAIN asks : saved = {}
  OBVIOUS
<1>4. /\ DOMAIN asks' = DOMAIN asks /\ savedFor' = savedFor \cup saved
      /\ \A b \in saved : Manages(asks[b]) /\ asks[b].wants \in WowGuild
      /\ listedServers \subseteq listedServers'
      /\ configRow' = [configRow EXCEPT ![s] = g] /\ UNCHANGED progress
  BY <1>1, <1>3
<1>5. \A b \in DOMAIN asks :
        asks'[b] = Placed(asks[b], IF b \in saved THEN "register" ELSE asks[b].stage,
                          IF asks[b].from = s THEN asks[b].tracked \cup {g}
                          ELSE asks[b].tracked)
  BY <1>2, <1>3
<1> QED  BY <1>4, <1>5, RowsPlaced

LEMMA SavedKeeps ==
  ASSUME CommandsInv, NEW a \in DOMAIN asks, SetupSaves(a) PROVE CommandsInv'
<1> DEFINE s == asks[a].from
           g == asks[a].wants
<1>1. /\ asks[a].stage = "save" /\ configRow' = [configRow EXCEPT ![s] = g]
      /\ asks' = [b \in DOMAIN asks |->
                    [asks[b] EXCEPT !.stage = IF b = a THEN "register" ELSE @,
                                    !.tracked = IF asks[b].from = s THEN @ \cup {g} ELSE @]]
      /\ savedFor' = savedFor \cup {a} /\ UNCHANGED <<listedServers, progress>>
  BY DEF SetupSaves
<1>2. Manages(asks[a]) /\ g \in WowGuild /\ s \in DiscordServer
  BY <1>1, CommandNames DEF CommandsInv, AllRight, Rightly, Manages
<1> HIDE DEF s, g
<1>3. ASSUME NEW b \in DOMAIN asks
      PROVE  asks'[b] = Placed(asks[b], IF b \in {a} THEN "register" ELSE asks[b].stage,
                               IF asks[b].from = s THEN asks[b].tracked \cup {g}
                               ELSE asks[b].tracked)
  <2>1. AskIs(asks[b])  BY DEF CommandsInv, AskShapes
  <2>2. PICK x, y : /\ x = IF b = a THEN "register" ELSE asks[b].stage
                    /\ y = IF asks[b].from = s THEN asks[b].tracked \cup {g} ELSE asks[b].tracked
    OBVIOUS
  <2>3. [asks[b] EXCEPT !.stage = x, !.tracked = y] = Placed(asks[b], x, y)
    BY <2>1, StageAndTracked
  <2>4. asks'[b] = [asks[b] EXCEPT !.stage = x, !.tracked = y]
    BY <1>1, <2>2
  <2> QED  BY <2>2, <2>3, <2>4
<1>4. DOMAIN asks' = DOMAIN asks /\ {a} \in SUBSET DOMAIN asks
  BY <1>1
<1>5. \A b \in {a} : Manages(asks[b]) /\ asks[b].wants \in WowGuild
  BY <1>2 DEF g
<1>6. s \in DiscordServer /\ g \in WowGuild /\ {a} \in SUBSET DOMAIN asks  BY <1>2, <1>4
<1>7. /\ configRow' = [configRow EXCEPT ![s] = g] /\ savedFor' = savedFor \cup {a}
      /\ listedServers \subseteq listedServers' /\ UNCHANGED progress
  BY <1>1
<1> HIDE DEF s, g
<1> QED  BY <1>3, <1>4, <1>5, <1>6, <1>7, RowsPlaced

LEMMA RegisteredKeeps ==
  ASSUME CommandsInv, NEW a \in DOMAIN asks, SetupRegisters(a) PROVE CommandsInv'
<1> DEFINE r == asks[a]
<1>1. /\ r.stage = "register" /\ listedServers' = listedServers \cup {r.from}
      /\ asks' = [asks EXCEPT ![a].stage = "edit"]
      /\ UNCHANGED <<configRow, savedFor, progress>>
  BY DEF SetupRegisters
<1>2. AskIs(r) /\ Rightly(listedServers, a, r, r.stage, r.first, r.scope, r.shown)
  BY DEF CommandsInv, AskShapes, AllRight
<1>3. [r EXCEPT !.stage = "edit"] = Moved(r, "edit", r.first, r.tries, r.scope, r.shown)
  BY <1>2 DEF AskIs, Moved
<1>4. asks' = [asks EXCEPT ![a] = Moved(r, "edit", r.first, r.tries, r.scope, r.shown)]
  BY <1>1, <1>3
<1>5. Manages(r) /\ a \in savedFor /\ r.from = HomeServer
  BY <1>1, <1>2 DEF Rightly, Manages
<1>6. Rightly(listedServers', a, r, "edit", r.first, r.scope, r.shown)
  BY <1>1, <1>2, <1>5 DEF Rightly
<1> QED  BY <1>1, <1>4, <1>6, RowTurns

(* Another interaction; nothing has been done for it. *)
LEMMA AskingKeeps == ASSUME CommandsInv, Asking PROVE CommandsInv'
<1>1. PICK k \in Nat : DOMAIN asks = 1..k
  BY DEF CommandsInv, AskShapes
<1>2. Cardinality(DOMAIN asks) = k
  <2>1. Cardinality(1..k) = IF 1 > k THEN 0 ELSE k - 1 + 1
    BY FS_Interval
  <2> QED  BY <1>1, <2>1
<1>3. PICK n \in Nat : n = Cardinality(DOMAIN asks) + 1 /\ n = k + 1
  BY <1>2
<1>4. PICK kind \in {"progress", "setup", "poll", "relayed"},
           from \in DiscordServer \cup {NoServer},
           by \in {"manager", "member", "pending", "forged"}, wants \in WowGuild \cup {Misspelt} :
        asks' = Numbered(Ask(kind, from, by, wants))
  BY DEF Asking
<1>5. UNCHANGED <<servers, progress>>  BY DEF Asking
<1>6. PICK r : r = Ask(kind, from, by, wants)
  OBVIOUS
<1>7. /\ DOMAIN asks' = 1..n /\ asks'[n] = r /\ n \notin DOMAIN asks
      /\ \A a \in DOMAIN asks : a \in 1..n /\ a # n /\ asks'[a] = asks[a]
      /\ \A a \in DOMAIN asks' : a = n \/ a \in DOMAIN asks
  <2>1. asks' = [a \in 1..n |-> IF a = n THEN r ELSE asks[a]]
    BY <1>3, <1>4, <1>6 DEF Numbered
  <2> QED  BY <1>1, <1>3, <2>1
<1>8. /\ AskIs(r) /\ r.from = from /\ r.wants = wants /\ r.stage = "asked" /\ r.first = "none"
      /\ r.shown = {} /\ r.at = hours
      /\ r.tracked = IF from \in DiscordServer THEN Tracked(configRow, from) ELSE {}
  BY <1>6 DEF Ask, AskIs
<1>9. r.tracked \subseteq WowGuild
  BY <1>8, TrackedIs DEF CommandsInv
<1>10. AskShapes'
  <2>1. ASSUME NEW a \in DOMAIN asks'
        PROVE  /\ AskIs(asks'[a]) /\ asks'[a].from \in DiscordServer \cup {NoServer}
               /\ asks'[a].wants \in WowGuild \cup {Misspelt} /\ asks'[a].tracked \subseteq WowGuild
               /\ asks'[a].at \in Nat /\ asks'[a].at <= hours
    <3>1. CASE a = n
      BY <1>7, <1>8, <1>9, <3>1 DEF CommandsInv, SnapshotsTrue
    <3>2. CASE a # n
      <4>1. a \in DOMAIN asks /\ asks'[a] = asks[a]  BY <1>7, <3>2
      <4> QED  BY <4>1 DEF CommandsInv, AskShapes
    <3> QED  BY <3>1, <3>2
  <2>2. savedFor' \subseteq DOMAIN asks' /\ hours' = hours /\ configRow' = configRow
    BY <1>5, <1>7 DEF CommandsInv, AskShapes, servers, progress
  <2>3. configRow \in [DiscordServer -> WowGuild \cup {Misspelt}]
    BY DEF CommandsInv, AskShapes
  <2> QED  BY <1>7, <2>1, <2>2, <2>3 DEF AskShapes, AskIs
<1>11. SnapshotsTrue'
  BY <1>5 DEF CommandsInv, SnapshotsTrue, progress
<1>12. ASSUME NEW a \in DOMAIN asks'
       PROVE  Rightly(listedServers, a, asks[a], asks[a].stage, asks[a].first, asks[a].scope,
                      asks[a].shown)'
  <2>1. CASE a = n
    <3>1. n \notin savedFor  BY <1>7 DEF CommandsInv, AskShapes
    <3>2. asks'[a] = r  BY <1>7, <2>1
    <3>3. savedFor' = savedFor /\ configRow' = configRow
      BY <1>5 DEF servers
    <3> QED  BY <1>8, <2>1, <3>1, <3>2, <3>3 DEF Rightly
  <2>2. CASE a # n
    <3>1. asks'[a] = asks[a] /\ a \in DOMAIN asks  BY <1>7, <2>2
    <3>2. Rightly(listedServers, a, asks[a], asks[a].stage, asks[a].first, asks[a].scope,
                  asks[a].shown)
      BY <3>1 DEF CommandsInv, AllRight
    <3>3. UNCHANGED <<configRow, listedServers, savedFor>>
      BY <1>5 DEF servers
    <3> QED  BY <3>1, <3>2, <3>3 DEF Rightly, WantsToKnow, Manages
  <2> QED  BY <2>1, <2>2
<1> QED  BY <1>10, <1>11, <1>12 DEF CommandsInv, AllRight

(* The clock, the bosses and the polls, which the interactions only read.  *)
LEMMA PollsKeep ==
  ASSUME CommandsInv, UNCHANGED <<servers, asks>>, hours' \in Nat, hours <= hours', SnapshotsTrue'
  PROVE  CommandsInv'
<1>1. AskShapes'
  BY DEF CommandsInv, AskShapes, AskIs, servers, SnapshotsTrue
<1>2. AllRight'
  BY DEF CommandsInv, AllRight, Rightly, Tracked, WantsToKnow, Manages, servers
<1> QED  BY <1>1, <1>2 DEF CommandsInv

SnapIs(p) ==
  p = [n |-> p.n, guild |-> p.guild, read |-> p.read, killed |-> p.killed,
       updatedAt |-> p.updatedAt, knew |-> p.knew]
SnapRight(p) ==
  /\ p.guild \in WowGuild /\ p.knew \in Nat /\ p.killed \in Nat /\ p.read \in BOOLEAN
  /\ p.knew <= bossCount[p.guild] /\ (p.read = TRUE => p.knew <= p.killed)

LEMMA SnapshotsStep ==
  ASSUME CommandsInv,
         \/ HourPasses
         \/ \E g \in Polled : BossDies(g) \/ SnapStarts(g)
         \/ \E p \in snapping : SnapReads(p) \/ RefreshSnapshot(p)
  PROVE  CommandsInv'
<1>1. /\ hours \in Nat /\ bossCount \in [WowGuild -> Nat] /\ DOMAIN snapshots = WowGuild
      /\ \A p \in snapping : SnapIs(p) /\ SnapRight(p)
      /\ \A g \in WowGuild : /\ \A s \in snapshots[g] : s.knew <= s.killed
                             /\ \A s, t \in snapshots[g] : s = t
  BY DEF CommandsInv, SnapshotsTrue, SnapIs, SnapRight
<1>2. CASE HourPasses
  <2>1. hours' = hours + 1 /\ UNCHANGED <<servers, asks, bossCount, snapshots, snapping>>
    BY <1>2 DEF HourPasses
  <2>2. SnapshotsTrue'
    BY <1>1, <2>1 DEF SnapshotsTrue, SnapIs, SnapRight
  <2> QED  BY <1>1, <2>1, <2>2, PollsKeep
<1>3. ASSUME NEW g \in Polled, BossDies(g) PROVE CommandsInv'
  <2>1. /\ bossCount' = [bossCount EXCEPT ![g] = @ + 1]
        /\ UNCHANGED <<servers, asks, hours, snapshots, snapping>>
    BY <1>3 DEF BossDies
  <2>2. bossCount' \in [WowGuild -> Nat] /\ \A h \in WowGuild : bossCount[h] <= bossCount'[h]
    BY <1>1, <2>1, CommandNames
  <2>3. \A p \in snapping : p.knew <= bossCount'[p.guild]
    BY <1>1, <2>2 DEF SnapRight
  <2>4. SnapshotsTrue'
    BY <1>1, <2>1, <2>2, <2>3 DEF SnapshotsTrue, SnapIs, SnapRight
  <2> QED  BY <1>1, <2>1, <2>4, PollsKeep
<1>4. ASSUME NEW g \in Polled, SnapStarts(g) PROVE CommandsInv'
  <2>1. PICK p : p = [n |-> commandCounts'.snaps, guild |-> g, read |-> FALSE, killed |-> 0,
                      updatedAt |-> hours, knew |-> bossCount[g]]
    OBVIOUS
  <2>2. snapping' = snapping \cup {p} /\ UNCHANGED <<servers, asks, bossCount, hours, snapshots>>
    BY <1>4, <2>1 DEF SnapStarts
  <2>3. SnapIs(p) /\ SnapRight(p)
    BY <1>1, <2>1, CommandNames DEF SnapIs, SnapRight
  <2>4. SnapshotsTrue'
    BY <1>1, <2>2, <2>3 DEF SnapshotsTrue, SnapIs, SnapRight
  <2> QED  BY <1>1, <2>2, <2>4, PollsKeep
<1>5. ASSUME NEW p \in snapping, SnapReads(p) PROVE CommandsInv'
  <2>1. PICK q : q = [p EXCEPT !.read = TRUE]
    OBVIOUS
  <2>2. q = [n |-> p.n, guild |-> p.guild, read |-> TRUE, killed |-> p.killed,
             updatedAt |-> p.updatedAt, knew |-> p.knew]
    <3>1. SnapIs(p)  BY <1>1
    <3> QED  BY <2>1, <3>1 DEF SnapIs
  <2>3. PICK s : s = [q EXCEPT !.killed = bossCount[p.guild]]
    OBVIOUS
  <2>4. s = [n |-> p.n, guild |-> p.guild, read |-> TRUE, killed |-> bossCount[p.guild],
             updatedAt |-> p.updatedAt, knew |-> p.knew]
    BY <2>2, <2>3
  <2>5. SnapIs(s) /\ SnapRight(s)
    BY <1>1, <2>4 DEF SnapIs, SnapRight
  <2>6. snapping' = (snapping \ {p}) \cup {s} /\ UNCHANGED <<servers, asks, bossCount, hours, snapshots>>
    BY <1>5, <2>1, <2>3 DEF SnapReads
  <2>7. SnapshotsTrue'
    BY <1>1, <2>5, <2>6 DEF SnapshotsTrue, SnapIs, SnapRight
  <2> QED  BY <1>1, <2>6, <2>7, PollsKeep
<1>6. ASSUME NEW p \in snapping, RefreshSnapshot(p) PROVE CommandsInv'
  <2>1. PICK s : s = [killed |-> p.killed, updatedAt |-> p.updatedAt, knew |-> p.knew]
    OBVIOUS
  <2>2. /\ snapping' = snapping \ {p} /\ snapshots' = [snapshots EXCEPT ![p.guild] = {s}]
        /\ p.read = TRUE /\ UNCHANGED <<servers, asks, bossCount, hours>>
    BY <1>1, <1>6, <2>1 DEF RefreshSnapshot, SnapRight
  <2>3. s.knew <= s.killed /\ p.guild \in WowGuild
    BY <1>1, <2>1, <2>2 DEF SnapRight
  <2>4. /\ DOMAIN snapshots' = WowGuild
        /\ \A g \in WowGuild : /\ \A t \in snapshots'[g] : t.knew <= t.killed
                               /\ \A t, u \in snapshots'[g] : t = u
    BY <1>1, <2>2, <2>3
  <2>5. SnapshotsTrue'
    BY <1>1, <2>2, <2>4 DEF SnapshotsTrue, SnapIs, SnapRight
  <2> QED  BY <1>1, <2>2, <2>5, PollsKeep
<1> QED  BY <1>2, <1>3, <1>4, <1>5, <1>6

LEMMA CommandsStep == CommandsInv /\ [CommandsNext]_commandVars => CommandsInv'
<1>1. ASSUME CommandsInv, UNCHANGED commandVars PROVE CommandsInv'
  <2>1. UNCHANGED <<servers, asks, progress>>
    BY <1>1 DEF commandVars, servers, progress
  <2>2. SnapshotsTrue'
    BY <1>1, <2>1 DEF CommandsInv, SnapshotsTrue, progress
  <2>3. hours' = hours /\ hours \in Nat
    BY <1>1, <2>1 DEF CommandsInv, SnapshotsTrue, progress
  <2> QED  BY <1>1, <2>1, <2>2, <2>3, PollsKeep
<1> QED
  BY <1>1, AskingKeeps, SnapshotsStep, OperatorKeeps, HandlesInteraction, AnswersProgress,
     FollowupMoves, SavedKeeps, RegisteredKeeps
  DEF CommandsNext

LEMMA CommandsInitial == CommandsInit => CommandsInv
<1> SUFFICES ASSUME CommandsInit PROVE CommandsInv
  OBVIOUS
<1>1. DOMAIN asks = {} /\ DOMAIN asks = 1..0
  BY DEF CommandsInit
<1>2. AllRight /\ AskShapes
  BY <1>1 DEF CommandsInit, AllRight, AskShapes
<1>3. SnapshotsTrue
  BY DEF CommandsInit, SnapshotsTrue
<1> QED  BY <1>2, <1>3 DEF CommandsInv

LEMMA CommandsKeep == CommandsInv => AnsweredAsAsked
  BY DEF CommandsInv, AllRight, Rightly, AnsweredAsAsked

(* Whoever asks is answered as the server they asked from, by the first    *)
(* invocation or by any run of the second: with the progress of a guild    *)
(* that server tracked, as far as it had come by the time the answer       *)
(* gives, and set up only by a manager of the home server.                 *)
THEOREM AskedAndAnswered == CommandsSafety => []AnsweredAsAsked
<1> QED  BY CommandsInitial, CommandsStep, CommandsKeep, PTL DEF CommandsSafety

-----------------------------------------------------------------------------
(* Which raid a kill belongs to *)

(* No two bosses share a form of their names, and the short form of a name *)
(* begins its long form.                                                   *)
NamesTell ==
  \A b, c \in AnyBoss :
    b # c => {ShortName[b], LongName[b]} \cap {ShortName[c], LongName[c]} = {}
FormsBegin == \A b \in AnyBoss : IsPrefix(ShortName[b], LongName[b])

(* What a behaviour begins with and keeps. *)
Printed ==
  /\ \A b \in AnyBoss :
       /\ Normalize(published[b]) \in {ShortName[b], LongName[b]}
       /\ Normalize(logged[b]) \in {ShortName[b], LongName[b]}
       /\ liveRaids # {} => SamePrinted(b)
  /\ liveRaids \subseteq Followed /\ down \subseteq TierBosses
  /\ \A b \in logHistory : b \in AnyBoss /\ (b \in down \/ RaidOf(b) \notin Followed)

TierKnown == Printed /\ Index \subseteq RaidSlug

LEMMA RaidIs ==
  ASSUME NEW r \in RaidSlug, NEW b \in Range(Bosses[r])
  PROVE  b \in AnyBoss /\ RaidOf(b) = r
<1>1. b \in AnyBoss  BY DEF AnyBoss
<1>2. \A q \in RaidSlug : b \in Range(Bosses[q]) => q = r  BY AttributionNames
<1> QED  BY <1>1, <1>2 DEF RaidOf

LEMMA RaidIn ==
  ASSUME NEW b \in AnyBoss
  PROVE  RaidOf(b) \in RaidSlug /\ b \in Range(Bosses[RaidOf(b)])
<1>1. \E r \in RaidSlug : b \in Range(Bosses[r])  BY DEF AnyBoss
<1> QED  BY <1>1 DEF RaidOf

LEMMA BossAt ==
  ASSUME NEW r \in RaidSlug
  PROVE  /\ Len(Bosses[r]) \in Nat /\ DOMAIN Bosses[r] = 1..Len(Bosses[r])
         /\ \A b \in Range(Bosses[r]) : \E i \in 1..Len(Bosses[r]) : b = Bosses[r][i]
         /\ \A i \in 1..Len(Bosses[r]) : Bosses[r][i] \in Range(Bosses[r])
         /\ \A i, j \in 1..Len(Bosses[r]) : Bosses[r][i] = Bosses[r][j] => i = j
<1>1. Bosses[r] \in Seq(Range(Bosses[r])) /\ IsInjective(Bosses[r])  BY AttributionNames
<1>2. Len(Bosses[r]) \in Nat /\ DOMAIN Bosses[r] = 1..Len(Bosses[r])  BY <1>1
<1> QED  BY <1>1, <1>2 DEF Range, IsInjective

(* A name in the logs leads to its own raid or to none. *)
LEMMA FindOwn ==
  ASSUME TierKnown, NamesTell, NEW b \in AnyBoss
  PROVE  /\ FindBoss(logged[b]) \subseteq {RaidOf(b)} \cap Index
         /\ SamePrinted(b) /\ RaidOf(b) \in Index => FindBoss(logged[b]) = {RaidOf(b)}
<1>1. ASSUME NEW r \in Index, NEW c \in Range(Bosses[r]),
             Normalize(published[c]) = Normalize(logged[b])
      PROVE  r = RaidOf(b)
  <2>1. r \in RaidSlug  BY DEF TierKnown
  <2>2. c \in AnyBoss /\ RaidOf(c) = r  BY <2>1, RaidIs
  <2>3. c = b  BY <1>1, <2>2 DEF TierKnown, Printed, NamesTell
  <2> QED  BY <2>2, <2>3
<1> DEFINE found == {r \in Index : \E c \in Range(Bosses[r]) :
                                     Normalize(published[c]) = Normalize(logged[b])}
<1>2. found \subseteq {RaidOf(b)} \cap Index  BY <1>1
<1>3. FindBoss(logged[b]) \subseteq found /\ (found # {} => FindBoss(logged[b]) # {})
  BY DEF FindBoss
<1>4. SamePrinted(b) /\ RaidOf(b) \in Index => found # {}
  BY RaidIn DEF SamePrinted
<1> HIDE DEF found
<1> QED  BY <1>2, <1>3, <1>4

LEMMA ResolvesNear ==
  ASSUME TierKnown, NamesTell, NEW b \in AnyBoss, NEW r \in ResolveRaid(b), r # NoSlug
  PROVE  /\ r \in Followed
         /\ r # RaidOf(b) => RaidOf(b) \notin Index /\ liveRaids \cap Index = {r}
<1> DEFINE known == FindBoss(logged[b])
           live == liveRaids \cap Index
<1>1. known \subseteq {RaidOf(b)}  BY FindOwn
<1>2. CASE known \cap Followed # {}
  BY <1>1, <1>2 DEF ResolveRaid
<1>3. CASE known \cap Followed = {} /\ known # {}
  BY <1>3 DEF ResolveRaid, OutOfScope
<1>4. CASE known = {} /\ zoneNamed /\ RaidOf(b) \in Followed
  BY <1>4 DEF ResolveRaid, OutOfScope
<1>5. CASE known = {} /\ ~(zoneNamed /\ RaidOf(b) \in Followed)
  <2>1. r \in live /\ Cardinality(live) = 1
    BY <1>5 DEF ResolveRaid, OutOfScope
  <2>2. live \subseteq Followed /\ live # {} /\ IsFiniteSet(live)
    BY <2>1, AttributionNames, FS_Subset DEF TierKnown, Printed
  <2>3. live = {r}
    <3> HIDE DEF live
    <3>1. PICK x : live = {x}  BY <2>1, <2>2, FS_Singleton
    <3> QED  BY <2>1, <3>1
  <2>4. SamePrinted(b)  BY <2>2 DEF TierKnown, Printed
  <2>5. RaidOf(b) \notin Index  BY <1>5, <2>4, FindOwn
  <2> QED  BY <2>1, <2>2, <2>3, <2>5
<1> QED  BY <1>2, <1>3, <1>4, <1>5

LEMMA ResolvesOwn ==
  ASSUME TierKnown, NamesTell, NEW b \in AnyBoss, RaidOf(b) \in Followed \cap Index,
         SamePrinted(b) \/ zoneNamed
  PROVE  ResolveRaid(b) = {RaidOf(b)}
<1> DEFINE known == FindBoss(logged[b])
<1>1. known \subseteq {RaidOf(b)} /\ (SamePrinted(b) => known = {RaidOf(b)})  BY FindOwn
<1>2. CASE known = {RaidOf(b)}  BY <1>2 DEF ResolveRaid
<1>3. CASE known = {} /\ zoneNamed  BY <1>3 DEF ResolveRaid, OutOfScope
<1> QED  BY <1>1, <1>2, <1>3

-----------------------------------------------------------------------------
(* What the seed recorded *)

LEMMA WordsMatch ==
  ASSUME FormsBegin, NEW b \in AnyBoss, NEW x \in {ShortName[b], LongName[b]},
         NEW y \in {ShortName[b], LongName[b]}
  PROVE  AliasMatch(x, y)
<1>1. ShortName[b] \in Seq(STRING) /\ LongName[b] \in Seq(STRING)  BY AttributionNames
<1>2. IsPrefix(x, x)  BY <1>1 DEF IsPrefix
<1> QED  BY <1>2 DEF AliasMatch, FormsBegin

(* The dead of a raid, and where they stand in its order. *)
DeadOf(r) == down \cap Range(Bosses[r])

LEMMA DeadFinite ==
  ASSUME NEW r \in RaidSlug
  PROVE  /\ IsFiniteSet(DeadOf(r)) /\ Cardinality(DeadOf(r)) \in Nat
         /\ Cardinality(DeadOf(r)) >= Len(Bosses[r]) => DeadOf(r) = Range(Bosses[r])
<1> DEFINE n == Len(Bosses[r])
           S == Range(Bosses[r])
<1>1. n \in Nat /\ DOMAIN Bosses[r] = 1..n  BY BossAt
<1>2. IsFiniteSet(1..n) /\ Cardinality(1..n) = n
  <2> HIDE DEF n
  <2>1. 1 \in Int /\ n \in Int  BY <1>1
  <2>2. IsFiniteSet(1..n) /\ Cardinality(1..n) = IF 1 > n THEN 0 ELSE n - 1 + 1
    BY <2>1, FS_Interval
  <2> QED  BY <1>1, <2>2
<1>3. Bosses[r] \in Surjection(1..n, S)
  <2>1. Bosses[r] \in Seq(S)  BY AttributionNames
  <2>2. Bosses[r] \in [1..n -> S]  BY <2>1
  <2>3. \A b \in S : \E i \in 1..n : Bosses[r][i] = b  BY BossAt
  <2> QED  BY <2>2, <2>3 DEF Surjection
<1>4. IsFiniteSet(S) /\ Cardinality(S) <= n  BY <1>2, <1>3, FS_Surjection
<1>5. DeadOf(r) \in SUBSET S  BY DEF DeadOf
<1> HIDE DEF n, S
<1>6. /\ IsFiniteSet(DeadOf(r)) /\ Cardinality(DeadOf(r)) <= Cardinality(S)
      /\ Cardinality(S) = Cardinality(DeadOf(r)) => S = DeadOf(r)
  BY <1>4, <1>5, FS_Subset
<1>7. Cardinality(S) \in Nat /\ Cardinality(DeadOf(r)) \in Nat
  BY <1>4, <1>6, FS_CardinalityType
<1>8. Cardinality(DeadOf(r)) >= n => DeadOf(r) = S
  BY <1>1, <1>4, <1>6, <1>7
<1> QED  BY <1>6, <1>7, <1>8 DEF n, S

LEMMA DeadReach ==
  ASSUME NEW r \in RaidSlug, InOrder(r), NEW j \in 1..Len(Bosses[r]), Bosses[r][j] \in down
  PROVE  j <= Cardinality(DeadOf(r))
<1> DEFINE f == [i \in 1..j |-> Bosses[r][i]]
<1>1. /\ Len(Bosses[r]) \in Nat /\ DOMAIN Bosses[r] = 1..Len(Bosses[r])
      /\ \A i \in 1..Len(Bosses[r]) : Bosses[r][i] \in Range(Bosses[r])
      /\ \A i, k \in 1..Len(Bosses[r]) : Bosses[r][i] = Bosses[r][k] => i = k
  BY BossAt
<1>2. \A i \in 1..j : i \in 1..Len(Bosses[r])  BY <1>1
<1>3. \A i \in 1..j : Bosses[r][i] \in DeadOf(r)
  BY <1>1, <1>2 DEF InOrder, DeadOf
<1>4. f \in Injection(1..j, DeadOf(r))
  BY <1>1, <1>2, <1>3 DEF Injection, IsInjective
<1>5. Cardinality(1..j) <= Cardinality(DeadOf(r))
  <2> HIDE DEF f
  <2> QED  BY <1>4, DeadFinite, FS_Injection
<1>6. Cardinality(1..j) = j  BY <1>1, FS_Interval
<1> QED  BY <1>5, <1>6

LEMMA DeadBehind ==
  ASSUME NEW r \in RaidSlug, InOrder(r), NEW i \in 1..Len(Bosses[r]), Bosses[r][i] \notin down
  PROVE  Cardinality(DeadOf(r)) < i
<1> DEFINE T == {Bosses[r][k] : k \in 1..(i - 1)}
           g == [k \in 1..(i - 1) |-> Bosses[r][k]]
<1>1. /\ Len(Bosses[r]) \in Nat /\ DOMAIN Bosses[r] = 1..Len(Bosses[r])
      /\ \A b \in Range(Bosses[r]) : \E k \in 1..Len(Bosses[r]) : b = Bosses[r][k]
  BY BossAt
<1>2. DeadOf(r) \in SUBSET T
  <2> SUFFICES ASSUME NEW b \in DeadOf(r) PROVE b \in T
    OBVIOUS
  <2>1. PICK k \in 1..Len(Bosses[r]) : b = Bosses[r][k]  BY <1>1 DEF DeadOf
  <2>2. k # i /\ ~(i < k)  BY <1>1, <2>1 DEF DeadOf, InOrder
  <2>3. k \in 1..(i - 1)  BY <1>1, <2>2
  <2> QED  BY <2>1, <2>3
<1>3. g \in Surjection(1..(i - 1), T)  BY DEF Surjection
<1>4. i - 1 \in Nat /\ IsFiniteSet(1..(i - 1)) /\ Cardinality(1..(i - 1)) = i - 1
  <2>1. i - 1 \in Nat /\ 1 \in Int /\ i - 1 \in Int  BY <1>1
  <2>2. /\ IsFiniteSet(1..(i - 1))
        /\ Cardinality(1..(i - 1)) = IF 1 > i - 1 THEN 0 ELSE (i - 1) - 1 + 1
    BY <2>1, FS_Interval
  <2> QED  BY <2>1, <2>2
<1> HIDE DEF T, g
<1>5. IsFiniteSet(T) /\ Cardinality(T) <= i - 1  BY <1>3, <1>4, FS_Surjection
<1>6. Cardinality(DeadOf(r)) <= Cardinality(T) /\ Cardinality(T) \in Nat
  BY <1>2, <1>5, FS_Subset, FS_CardinalityType
<1> QED  BY <1>1, <1>4, <1>5, <1>6, DeadFinite

(* Names of the seed: what the history shows of the raid. *)
ShownOf(r) == {Normalize(logged[b]) : b \in {b \in logHistory : ResolveRaid(b) = {r}}}
NamesIn(r) == {Normalize(published[b]) : b \in Range(Bosses[r])}

(* What is seeded of a raid that is loaded, and a team or not. *)
LEMMA SeedCases ==
  ASSUME TierKnown, NEW r \in Index
  PROVE  LET shown == ShownOf(r) \cap NamesIn(r)
             inOrder(i) == Normalize(published[Bosses[r][i]])
             killed == Cardinality(DeadOf(r))
         IN  \/ teamInstall /\ SeedNamesOf(r) = shown
             \/ ~teamInstall /\ killed >= Len(Bosses[r]) /\ SeedNamesOf(r) = NamesIn(r)
             \/ /\ ~teamInstall /\ killed < Len(Bosses[r]) /\ killed > Cardinality(shown)
                /\ SeedNamesOf(r) = shown \cup {inOrder(i) : i \in 1..killed}
             \/ /\ ~teamInstall /\ ~(killed > Cardinality(shown)) /\ SeedNamesOf(r) = shown
<1> DEFINE inOrder == [i \in DOMAIN Bosses[r] |-> Normalize(published[Bosses[r][i]])]
           killed == Cardinality(DeadOf(r))
           shown == ShownOf(r) \cap NamesIn(r)
<1>1. r \in RaidSlug  BY DEF TierKnown
<1>2. Len(Bosses[r]) \in Nat /\ DOMAIN Bosses[r] = 1..Len(Bosses[r])
  BY <1>1, BossAt
<1>3. Len(inOrder) = Len(Bosses[r])  BY <1>2
<1>4. Range(inOrder) = NamesIn(r)  BY DEF NamesIn, Range
<1>5. killed \in Nat  BY <1>1, DeadFinite
<1>6. SeedNamesOf(r)
        = IF teamInstall THEN shown
          ELSE IF killed >= Len(inOrder) THEN Range(inOrder)
          ELSE IF killed > Cardinality(shown) THEN shown \cup {inOrder[i] : i \in 1..killed}
          ELSE shown
  BY <1>4 DEF SeedNamesOf, ProgressFor, DeadOf, ShownOf
<1>7. killed < Len(Bosses[r]) =>
        {inOrder[i] : i \in 1..killed} = {Normalize(published[Bosses[r][i]]) : i \in 1..killed}
  <2> HIDE DEF killed
  <2>1. killed < Len(Bosses[r]) => \A i \in 1..killed : i \in DOMAIN Bosses[r]
    BY <1>2, <1>5
  <2>2. killed < Len(Bosses[r]) =>
          \A i \in 1..killed : inOrder[i] = Normalize(published[Bosses[r][i]])
    BY <2>1
  <2> HIDE DEF inOrder
  <2> QED  BY <2>2
<1>8. killed >= Len(Bosses[r]) \/ killed < Len(Bosses[r])  BY <1>2, <1>5
<1> HIDE DEF inOrder, shown, killed
<1>9. \/ teamInstall /\ SeedNamesOf(r) = shown
      \/ ~teamInstall /\ killed >= Len(Bosses[r]) /\ SeedNamesOf(r) = NamesIn(r)
      \/ /\ ~teamInstall /\ killed < Len(Bosses[r]) /\ killed > Cardinality(shown)
         /\ SeedNamesOf(r) = shown \cup {Normalize(published[Bosses[r][i]]) : i \in 1..killed}
      \/ /\ ~teamInstall /\ ~(killed > Cardinality(shown)) /\ SeedNamesOf(r) = shown
  BY <1>3, <1>4, <1>6, <1>7, <1>8
<1> QED  BY <1>9 DEF shown, killed

(* A name shown of a raid that the guild follows is of one of its dead.    *)
LEMMA ShownDead ==
  ASSUME TierKnown, NamesTell, NEW r \in Followed, NEW k \in ShownOf(r) \cap NamesIn(r)
  PROVE  \E b \in DeadOf(r) : k = Normalize(logged[b])
<1>1. PICK b \in logHistory : k = Normalize(logged[b])  BY DEF ShownOf
<1>2. PICK c \in Range(Bosses[r]) : k = Normalize(published[c])  BY DEF NamesIn
<1>3. r \in RaidSlug  BY AttributionNames
<1>4. c \in AnyBoss /\ RaidOf(c) = r /\ b \in AnyBoss  BY <1>3, RaidIs DEF TierKnown, Printed
<1>5. b = c  BY <1>1, <1>2, <1>4 DEF TierKnown, Printed, NamesTell
<1>6. b \in down  BY <1>4, <1>5 DEF TierKnown, Printed
<1> QED  BY <1>1, <1>2, <1>5, <1>6 DEF DeadOf

(* ... and when no fewer names are shown than bosses are dead, all of them. *)
LEMMA AllShown ==
  ASSUME TierKnown, NamesTell, NEW r \in Followed,
         ~(Cardinality(DeadOf(r)) > Cardinality(ShownOf(r) \cap NamesIn(r))),
         NEW b \in DeadOf(r)
  PROVE  Normalize(logged[b]) \in ShownOf(r) \cap NamesIn(r)
<1> DEFINE shown == ShownOf(r) \cap NamesIn(r)
           E == {c \in DeadOf(r) : Normalize(logged[c]) \in shown}
           g == [c \in E |-> Normalize(logged[c])]
<1>1. IsFiniteSet(DeadOf(r)) /\ Cardinality(DeadOf(r)) \in Nat
  BY AttributionNames, DeadFinite
<1>2. g \in Surjection(E, shown)  BY ShownDead DEF Surjection
<1>3. E \in SUBSET DeadOf(r)  OBVIOUS
<1>4. ~(Cardinality(DeadOf(r)) > Cardinality(shown))  OBVIOUS
<1> HIDE DEF shown, E, g
<1>5. /\ IsFiniteSet(E) /\ Cardinality(E) <= Cardinality(DeadOf(r))
      /\ Cardinality(DeadOf(r)) = Cardinality(E) => DeadOf(r) = E
  BY <1>1, <1>3, FS_Subset
<1>6. IsFiniteSet(shown) /\ Cardinality(shown) <= Cardinality(E)
  BY <1>2, <1>5, FS_Surjection
<1>7. Cardinality(E) \in Nat /\ Cardinality(shown) \in Nat
  BY <1>5, <1>6, FS_CardinalityType
<1>8. DeadOf(r) = E  BY <1>1, <1>4, <1>5, <1>6, <1>7
<1> QED  BY <1>8 DEF E, shown

(* A dead boss of a raid that fell in its order is in the seed, under a form *)
(* of its name; without a team.                                            *)
LEMMA OrderSeeds ==
  ASSUME TierKnown, NamesTell, FormsBegin, NEW r \in Followed \cap Index, InOrder(r), ~teamInstall,
         NEW b \in DeadOf(r)
  PROVE  \E k \in SeedNamesOf(r) : AliasMatch(k, Normalize(logged[b]))
<1> DEFINE shown == ShownOf(r) \cap NamesIn(r)
           killed == Cardinality(DeadOf(r))
<1>1. r \in RaidSlug /\ b \in AnyBoss /\ b \in Range(Bosses[r])
  BY AttributionNames, RaidIs DEF DeadOf
<1>2. /\ Normalize(published[b]) \in {ShortName[b], LongName[b]}
      /\ Normalize(logged[b]) \in {ShortName[b], LongName[b]}
  BY <1>1 DEF TierKnown, Printed
<1>3. /\ AliasMatch(Normalize(published[b]), Normalize(logged[b]))
      /\ AliasMatch(Normalize(logged[b]), Normalize(logged[b]))
  BY <1>1, <1>2, WordsMatch
<1>4. PICK j \in 1..Len(Bosses[r]) : b = Bosses[r][j]  BY <1>1, BossAt
<1>5. j <= killed /\ killed \in Nat /\ Len(Bosses[r]) \in Nat
  BY <1>1, <1>4, BossAt, DeadReach, DeadFinite DEF DeadOf
<1>6. CASE SeedNamesOf(r) = NamesIn(r)
  BY <1>1, <1>3, <1>6 DEF NamesIn
<1>7. CASE SeedNamesOf(r) = shown \cup {Normalize(published[Bosses[r][i]]) : i \in 1..killed}
  <2>1. j \in 1..killed  BY <1>4, <1>5
  <2> QED  BY <1>3, <1>4, <1>7, <2>1
<1>8. CASE ~(killed > Cardinality(shown)) /\ SeedNamesOf(r) = shown
  BY <1>3, <1>8, AllShown
<1> QED  BY <1>6, <1>7, <1>8, SeedCases

(* A dead boss the logs show under its published name is in the seed.      *)
LEMMA FormSeeds ==
  ASSUME TierKnown, NamesTell, FormsBegin, NEW r \in Followed \cap Index, SameForm(r),
         NEW b \in DeadOf(r)
  PROVE  \E k \in SeedNamesOf(r) : AliasMatch(k, Normalize(logged[b]))
<1>1. r \in RaidSlug /\ b \in AnyBoss /\ b \in Range(Bosses[r]) /\ RaidOf(b) = r
  BY AttributionNames, RaidIs DEF DeadOf
<1>2. b \in logHistory /\ SamePrinted(b)  BY DEF SameForm, DeadOf
<1>3. ResolveRaid(b) = {r}  BY <1>1, <1>2, ResolvesOwn
<1>4. Normalize(logged[b]) \in ShownOf(r)  BY <1>2, <1>3 DEF ShownOf
<1>5. Normalize(logged[b]) \in NamesIn(r)  BY <1>1, <1>2 DEF NamesIn, SamePrinted
<1>6. Normalize(logged[b]) \in SeedNamesOf(r)
  <2> HIDE DEF TierKnown
  <2> QED  BY <1>4, <1>5, SeedCases
<1>7. Normalize(logged[b]) \in {ShortName[b], LongName[b]}  BY <1>1 DEF TierKnown, Printed
<1>8. AliasMatch(Normalize(logged[b]), Normalize(logged[b]))  BY <1>1, <1>7, WordsMatch
<1> QED  BY <1>6, <1>8

(* A living boss is not in the seed, if the raid falls in its order or Raider.IO *)
(* does not count for the install.                                         *)
LEMMA LivingUnseeded ==
  ASSUME TierKnown, NamesTell, NEW r \in Followed \cap Index, teamInstall \/ InOrder(r),
         NEW b \in Range(Bosses[r]), b \notin down, NEW k \in SeedNamesOf(r)
  PROVE  \E c \in AnyBoss \ {b} : k \in {Normalize(published[c]), Normalize(logged[c])}
<1> DEFINE shown == ShownOf(r) \cap NamesIn(r)
           killed == Cardinality(DeadOf(r))
<1>1. r \in RaidSlug  BY AttributionNames
<1>2. PICK j \in 1..Len(Bosses[r]) : b = Bosses[r][j]  BY <1>1, BossAt
<1>3. killed \in Nat /\ Len(Bosses[r]) \in Nat  BY <1>1, BossAt, DeadFinite
<1>4. CASE k \in shown
  <2>1. PICK c \in DeadOf(r) : k = Normalize(logged[c])  BY <1>4, ShownDead
  <2> QED  BY <1>1, <2>1, RaidIs DEF DeadOf
<1>5. CASE ~teamInstall /\ killed >= Len(Bosses[r])
  BY <1>1, <1>5, DeadFinite DEF DeadOf
<1>6. CASE ~teamInstall /\ killed < Len(Bosses[r])
           /\ k \in {Normalize(published[Bosses[r][i]]) : i \in 1..killed}
  <2>1. PICK i \in 1..killed : k = Normalize(published[Bosses[r][i]])  BY <1>6
  <2>2. killed < j  BY <1>1, <1>2, <1>6, DeadBehind
  <2>3. i \in 1..Len(Bosses[r]) /\ i # j  BY <1>2, <1>3, <2>1, <2>2
  <2>4. Bosses[r][i] # b /\ Bosses[r][i] \in Range(Bosses[r])  BY <1>1, <1>2, <2>3, BossAt
  <2> QED  BY <1>1, <2>1, <2>4, RaidIs
<1> QED  BY <1>4, <1>5, <1>6, SeedCases

-----------------------------------------------------------------------------
(* The raid of a night *)

(* A set of numbers has a least one. *)
LEMMA LeastNumber ==
  ASSUME NEW S \in SUBSET Nat, S # {}
  PROVE  \E x \in S : \A y \in S : x <= y
<1> DEFINE Below == {0..x : x \in S}
<1>1. IsWellFoundedOn(StrictSubsetOrdering(Nat), FiniteSubsetsOf(Nat))
  BY FS_StrictSubsetOrderingWellFounded
<1>2. Below \subseteq FiniteSubsetsOf(Nat) /\ Below # {}
  <2>1. \A x \in S : IsFiniteSet(0..x)  BY FS_Interval
  <2>2. \A x \in S : 0..x \subseteq Nat  OBVIOUS
  <2> QED  BY <2>1, <2>2 DEF FiniteSubsetsOf
<1>3. \E b \in Below : \A d \in Below : ~ (<<d, b>> \in StrictSubsetOrdering(Nat))
  <2> HIDE DEF Below
  <2> QED BY <1>1, <1>2, WFMin
<1>4. PICK x \in S : \A y \in S : ~ (<<0..y, 0..x>> \in StrictSubsetOrdering(Nat))
  BY <1>3
<1>5. ASSUME NEW y \in S, y < x PROVE FALSE
  <2>1. 0..y \subseteq 0..x /\ x \in 0..x /\ x \notin 0..y  BY <1>5
  <2>2. 0..y \in SUBSET Nat /\ 0..x \in SUBSET Nat  OBVIOUS
  <2> QED  BY <1>4, <2>1, <2>2 DEF StrictSubsetOrdering
<1> QED  BY <1>5

(* A fight of a raid that is loaded counts for it if it is followed, and    *)
(* for none if it is not.                                                  *)
LEMMA FightResolves ==
  ASSUME TierKnown, NamesTell, liveRaids # {}, NEW b \in AnyBoss, RaidOf(b) \in Index,
         NEW r \in Followed
  PROVE  ResolveRaid(b) = {r} <=> RaidOf(b) = r
<1>1. SamePrinted(b) /\ RaidOf(b) \in RaidSlug  BY RaidIn DEF TierKnown, Printed
<1>2. CASE RaidOf(b) \in Followed
  <2>1. ResolveRaid(b) = {RaidOf(b)}  BY <1>1, <1>2, ResolvesOwn
  <2> QED  BY <2>1
<1>3. CASE RaidOf(b) \notin Followed
  <2>1. FindBoss(logged[b]) = {RaidOf(b)}  BY <1>1, FindOwn
  <2>2. ResolveRaid(b) = {NoSlug}  BY <1>3, <2>1 DEF ResolveRaid, OutOfScope
  <2>3. r # NoSlug  BY AttributionNames
  <2> QED  BY <1>3, <2>2, <2>3
<1> QED  BY <1>2, <1>3

LEMMA TallyFights ==
  ASSUME TierKnown, NamesTell, liveRaids # {}, NEW n \in Nat, NEW fights \in [1..n -> AnyBoss],
         \A i \in 1..n : RaidOf(fights[i]) \in Index, NEW r \in Followed
  PROVE  /\ Tally(fights, r) = Fights(fights, r) /\ Tally(fights, r) \in 0..n
         /\ Tally(fights, r) > 0 =>
              /\ FirstFight(fights, r) \in 1..n /\ RaidOf(fights[FirstFight(fights, r)]) = r
              /\ Len(Bosses[r]) > 0
<1> DEFINE mine == {i \in 1..n : ResolveRaid(fights[i]) = {r}}
<1>1. r \in RaidSlug  BY AttributionNames
<1>2. \A i \in 1..n : ResolveRaid(fights[i]) = {r} <=> RaidOf(fights[i]) = r
  BY FightResolves
<1>3. \A i \in 1..n : RaidOf(fights[i]) = r <=> fights[i] \in Range(Bosses[r])
  BY <1>1, RaidIn, RaidIs
<1>4. mine = {i \in DOMAIN fights : fights[i] \in Range(Bosses[r])}  BY <1>2, <1>3
<1>5. Tally(fights, r) = Cardinality(mine) /\ Fights(fights, r) = Cardinality(mine)
  BY <1>4 DEF Tally, Fights
<1>6. mine \in SUBSET (1..n) /\ IsFiniteSet(1..n) /\ Cardinality(1..n) = n
  BY FS_Interval
<1>7. FirstFight(fights, r) = IF mine # {} THEN Min(mine) ELSE 0
  <2>1. Len(fights) = n  OBVIOUS
  <2> QED  BY <2>1 DEF FirstFight, SelectInSeq
<1> HIDE DEF mine
<1>8. Cardinality(mine) \in Nat /\ Cardinality(mine) <= n /\ (mine = {} => Cardinality(mine) = 0)
  <2>1. IsFiniteSet(mine) /\ Cardinality(mine) <= Cardinality(1..n)  BY <1>6, FS_Subset
  <2>2. Cardinality(mine) \in Nat  BY <2>1, FS_CardinalityType
  <2> QED  BY <1>6, <2>1, <2>2, FS_EmptySet
<1>9. ASSUME mine # {} PROVE Min(mine) \in mine
  <2>1. mine \in SUBSET Nat  BY <1>6
  <2>2. \E x \in mine : \A y \in mine : x <= y  BY <1>9, <2>1, LeastNumber
  <2> QED  BY <2>2 DEF Min
<1>10. ASSUME mine # {}
       PROVE  /\ FirstFight(fights, r) \in 1..n /\ RaidOf(fights[FirstFight(fights, r)]) = r
              /\ Len(Bosses[r]) > 0
  <2>1. FirstFight(fights, r) \in mine  BY <1>7, <1>9, <1>10
  <2>2. FirstFight(fights, r) \in 1..n /\ RaidOf(fights[FirstFight(fights, r)]) = r
        /\ fights[FirstFight(fights, r)] \in Range(Bosses[r])
    BY <1>2, <1>3, <2>1 DEF mine
  <2>3. Len(Bosses[r]) > 0  BY <1>1, <2>2, BossAt
  <2> QED  BY <2>2, <2>3
<1> QED  BY <1>5, <1>8, <1>10

LEMMA ReportBelongs ==
  ASSUME TierKnown, NamesTell, liveRaids # {}, NEW n \in Nat, NEW fights \in [1..n -> AnyBoss],
         \A i \in 1..n : RaidOf(fights[i]) \in Index
  PROVE  /\ (ReportTier(fights) = {}) <=> \A r \in TierRaids : Fights(fights, r) = 0
         /\ \A r \in ReportTier(fights) :
              r \in TierRaids /\ \A q \in TierRaids : Fights(fights, q) <= Fights(fights, r)
<1> DEFINE tally(r) == Tally(fights, r)
           first(r) == FirstFight(fights, r)
           tiers == {r \in Followed : tally(r) > 0 /\ ~IsWorldBoss(r)}
<1>1. \A r \in Followed :
        /\ tally(r) = Fights(fights, r) /\ tally(r) \in 0..n
        /\ tally(r) > 0 => first(r) \in 1..n /\ RaidOf(fights[first(r)]) = r
                           /\ Len(Bosses[r]) > 0
  BY TallyFights
<1>2. \A r \in Followed : Len(Bosses[r]) \in Nat
  BY AttributionNames, BossAt
<1>3. tiers = {r \in TierRaids : Fights(fights, r) > 0} /\ TierRaids \subseteq Followed
  <2> HIDE DEF tally, first
  <2>1. ASSUME NEW r \in Followed
        PROVE  tally(r) > 0 /\ ~IsWorldBoss(r) <=> Fights(fights, r) > 0 /\ Len(Bosses[r]) > 1
    <3>1. IsWorldBoss(r) <=> Len(Bosses[r]) = 1  BY DEF IsWorldBoss, ProgressFor
    <3>2. tally(r) = Fights(fights, r) /\ (tally(r) > 0 => Len(Bosses[r]) > 0)
          /\ Len(Bosses[r]) \in Nat /\ tally(r) \in 0..n
      BY <1>1, <1>2
    <3> DEFINE len == Len(Bosses[r])
    <3>3. /\ IsWorldBoss(r) <=> len = 1
          /\ tally(r) = Fights(fights, r) /\ (tally(r) > 0 => len > 0) /\ len \in Nat
      BY <3>1, <3>2
    <3> HIDE DEF len
    <3>4. tally(r) > 0 /\ ~IsWorldBoss(r) <=> Fights(fights, r) > 0 /\ len > 1  BY <3>3
    <3> QED  BY <3>4 DEF len
  <2> QED  BY <2>1 DEF TierRaids
<1>4. ReportTier(fights) =
        {r \in tiers : \A q \in tiers \ {r} :
           tally(r) > tally(q) \/ (tally(r) = tally(q) /\ first(r) < first(q))}
  BY DEF ReportTier
<1>5. \A r \in tiers : tally(r) \in 0..n /\ first(r) \in 1..n /\ RaidOf(fights[first(r)]) = r
  BY <1>1
<1>6. \A r \in TierRaids : r \notin tiers => Fights(fights, r) = 0
  BY <1>1, <1>3
<1>7. \A r \in tiers : tally(r) = Fights(fights, r) /\ Fights(fights, r) > 0 /\ r \in TierRaids
  BY <1>1, <1>3
<1> HIDE DEF tally, first, tiers
<1>8. \A r \in ReportTier(fights) :
        r \in TierRaids /\ \A q \in TierRaids : Fights(fights, q) <= Fights(fights, r)
  <2> SUFFICES ASSUME NEW r \in ReportTier(fights), NEW q \in TierRaids
               PROVE  r \in TierRaids /\ Fights(fights, q) <= Fights(fights, r)
    BY <1>4, <1>7
  <2>1. r \in tiers /\ tally(r) \in 0..n /\ tally(r) = Fights(fights, r)  BY <1>4, <1>5, <1>7
  <2>2. CASE q \notin tiers  BY <1>6, <1>7, <2>1, <2>2
  <2>3. CASE q \in tiers
    <3>1. q = r \/ tally(r) >= tally(q)  BY <1>4, <1>5, <2>1, <2>3
    <3> QED  BY <1>7, <2>1, <2>3, <3>1
  <2> QED  BY <2>2, <2>3
<1>9. ASSUME tiers # {} PROVE ReportTier(fights) # {}
  <2> DEFINE left == {n - tally(r) : r \in tiers}
  <2>1. left \in SUBSET Nat /\ left # {}  BY <1>5, <1>9
  <2>2. \E x \in left : \A y \in left : x <= y
    <3> HIDE DEF left
    <3> QED  BY <2>1, LeastNumber
  <2>3. PICK m \in tiers : \A q \in tiers : n - tally(m) <= n - tally(q)  BY <2>2
  <2>4. \A q \in tiers : tally(q) <= tally(m)  BY <1>5, <2>3
  <2> DEFINE firsts == {first(r) : r \in {r \in tiers : tally(r) = tally(m)}}
  <2>5. firsts \in SUBSET Nat /\ firsts # {}  BY <1>5
  <2>6. \E x \in firsts : \A y \in firsts : x <= y
    <3> HIDE DEF firsts
    <3> QED  BY <2>5, LeastNumber
  <2>7. PICK r \in tiers : /\ tally(r) = tally(m)
                           /\ \A q \in tiers : tally(q) = tally(m) => first(r) <= first(q)
    BY <2>6
  <2>8. ASSUME NEW q \in tiers \ {r}
        PROVE  tally(r) > tally(q) \/ (tally(r) = tally(q) /\ first(r) < first(q))
    <3>1. first(q) # first(r)  BY <1>5
    <3>2. tally(q) <= tally(r) /\ tally(q) \in 0..n /\ tally(r) \in 0..n
      BY <1>5, <2>4, <2>7
    <3>3. CASE tally(q) = tally(r)  BY <1>5, <2>7, <3>1, <3>3
    <3>4. CASE tally(q) # tally(r)  BY <3>2, <3>4
    <3> QED  BY <3>3, <3>4
  <2> QED  BY <1>4, <2>8
<1>10. ASSUME ReportTier(fights) = {}, NEW r \in TierRaids PROVE Fights(fights, r) = 0
  BY <1>6, <1>9, <1>10
<1>11. ASSUME \A r \in TierRaids : Fights(fights, r) = 0 PROVE ReportTier(fights) = {}
  BY <1>4, <1>7, <1>11
<1> QED  BY <1>8, <1>10, <1>11

-----------------------------------------------------------------------------
(* The kills of a behaviour *)

(* What a card was told on: the kill was resolved to its raid, and no name  *)
(* of the seed was a form of its name.                                     *)
ToldRightly ==
  \A card \in told : \E r \in Followed, b \in met :
    /\ card = <<r, b>> /\ r \in ResolveRaid(b)
    /\ \A k \in SeedNamesOf(r) : ~AliasMatch(k, Normalize(logged[b]))

(* The ANNOUNCED rows hold the seed and the names of kills met since.      *)
RowsSeeded ==
  \A r \in Followed :
    /\ SeedNamesOf(r) \subseteq announcedKeys[r]
    /\ \A k \in announcedKeys[r] :
         k \in SeedNamesOf(r) \/ \E b \in met : k = Normalize(logged[b])

NamesInv ==
  /\ TierKnown /\ seedDone \in BOOLEAN /\ met \subseteq AnyBoss
  /\ seedDone \/ nightTier # {} => ToLoad = {}
  /\ ~seedDone => told = {} /\ met = {}
  /\ announcedKeys = [r \in RaidSlug |-> announcedKeys[r]]
  /\ seedDone => RowsSeeded
  /\ ToldRightly /\ KillsTold /\ NightsBelong

LEMMA CardsRight ==
  ASSUME NamesInv, NamesTell, FormsBegin
  PROVE  CardsBelong
<1> SUFFICES ASSUME NEW card \in told
             PROVE  LET r == card[1]  b == card[2] IN
                    /\ r # RaidOf(b) => RaidOf(b) \notin Index /\ liveRaids \cap Index = {r}
                    /\ b \in down /\ Covered => ~SameForm(r) /\ (teamInstall \/ ~InOrder(r))
  BY DEF CardsBelong
<1>1. PICK r \in Followed, b \in met :
        /\ card = <<r, b>> /\ r \in ResolveRaid(b)
        /\ \A k \in SeedNamesOf(r) : ~AliasMatch(k, Normalize(logged[b]))
  BY DEF NamesInv, ToldRightly
<1>2. TierKnown /\ b \in AnyBoss /\ r # NoSlug  BY AttributionNames DEF NamesInv
<1>3. r # RaidOf(b) => RaidOf(b) \notin Index /\ liveRaids \cap Index = {r}
  BY <1>1, <1>2, ResolvesNear
<1>4. ASSUME b \in down, Covered PROVE ~SameForm(r) /\ (teamInstall \/ ~InOrder(r))
  <2>1. Followed \subseteq Index  BY <1>4 DEF Covered, Index
  <2>2. RaidOf(b) \in Followed
    <3>1. PICK q \in TierRaids : b \in Range(Bosses[q])
      BY <1>2, <1>4 DEF TierKnown, Printed, TierBosses
    <3>2. q \in Followed /\ q \in RaidSlug  BY <3>1, AttributionNames DEF TierRaids
    <3> QED  BY <3>1, <3>2, RaidIs
  <2>3. r = RaidOf(b)  BY <1>3, <2>1, <2>2
  <2>4. b \in DeadOf(r)  BY <1>2, <1>4, <2>3, RaidIn DEF DeadOf
  <2>5. ~SameForm(r)  BY <1>1, <1>2, <2>1, <2>4, FormSeeds
  <2>6. ~teamInstall => ~InOrder(r)  BY <1>1, <1>2, <2>1, <2>4, OrderSeeds
  <2> QED  BY <2>5, <2>6
<1> QED  BY <1>1, <1>3, <1>4

LEMMA NamesInit == AttributionInit => NamesInv
<1> SUFFICES ASSUME AttributionInit PROVE NamesInv
  OBVIOUS
<1>1. TierBosses \subseteq AnyBoss /\ \A b \in TierBosses : RaidOf(b) \in Followed
  <2>1. \A r \in TierRaids : r \in Followed /\ r \in RaidSlug  BY AttributionNames DEF TierRaids
  <2> QED  BY <2>1, RaidIs DEF TierBosses
<1>2. \A b \in AnyBoss : b \notin UNION {Range(Bosses[r]) : r \in Followed} => RaidOf(b) \notin Followed
  BY RaidIn
<1>3. Index = {}  BY DEF AttributionInit, Index
<1>4. \A x : Normalize(AtRaiderIO(x)) = x /\ Normalize(InLogs(x)) = x
  BY DEF Normalize, AtRaiderIO, InLogs
<1>5. Printed
  <2>1. \A b \in AnyBoss : \A s : FormOf(b, s) \in {ShortName[b], LongName[b]}  BY DEF FormOf
  <2>2. \A b \in logHistory : b \in AnyBoss /\ (b \in down \/ RaidOf(b) \notin Followed)
    BY <1>1, <1>2 DEF AttributionInit
  <2>3. down \subseteq TierBosses /\ liveRaids \subseteq Followed  BY DEF AttributionInit
  <2>4. CASE /\ \E longSite, longLog \in SUBSET TwoForms :
                  /\ published = [b \in AnyBoss |-> AtRaiderIO(FormOf(b, longSite))]
                  /\ logged = [b \in AnyBoss |-> InLogs(FormOf(b, longLog))]
             /\ liveRaids = {}
    BY <1>4, <2>1, <2>2, <2>3, <2>4 DEF Printed
  <2>5. CASE published = ShortAtRaiderIO /\ logged = ShortInLogs
    BY <1>4, <2>2, <2>3, <2>5 DEF Printed, SamePrinted, ShortAtRaiderIO, ShortInLogs
  <2> QED  BY <2>4, <2>5 DEF AttributionInit
<1> QED
  BY <1>3, <1>5
  DEF AttributionInit, NamesInv, TierKnown, ToldRightly, KillsTold, NightsBelong

(* What is read of the data stays as it is while the data does.            *)
LEMMA DataStays ==
  ASSUME UNCHANGED inputs, UNCHANGED loaded
  PROVE  TierKnown' = TierKnown /\ ToLoad' = ToLoad /\ Index' = Index /\ Covered' = Covered
<1>1. UNCHANGED <<published, logged, liveRaids, zoneNamed, teamInstall, down, logHistory, loaded>>
  BY DEF inputs
<1>2. Index' = Index /\ Covered' = Covered /\ ToLoad' = ToLoad
  BY <1>1 DEF ToLoad, Index, Covered
<1> QED  BY <1>1, <1>2 DEF TierKnown, Printed, SamePrinted

LEMMA NamesStay ==
  ASSUME UNCHANGED inputs, UNCHANGED loaded
  PROVE  /\ \A r : SeedNamesOf(r)' = SeedNamesOf(r) /\ InOrder(r)' = InOrder(r)
         /\ \A b : /\ ResolveRaid(b)' = ResolveRaid(b) /\ Lone(b)' = Lone(b)
                   /\ SamePrinted(b)' = SamePrinted(b) /\ logged'[b] = logged[b]
<1>1. UNCHANGED <<published, logged, liveRaids, zoneNamed, teamInstall, down, logHistory, loaded>>
  BY DEF inputs
<1>2. \A b : ResolveRaid(b)' = ResolveRaid(b)
  BY <1>1 DEF Index, ResolveRaid, FindBoss, OutOfScope
<1>3. \A r : {Normalize(logged[b]) : b \in {b \in logHistory : ResolveRaid(b) = {r}}}'
            = {Normalize(logged[b]) : b \in {b \in logHistory : ResolveRaid(b) = {r}}}
  BY <1>1 DEF Index, ResolveRaid, FindBoss, OutOfScope
<1>4. ASSUME NEW r  PROVE SeedNamesOf(r)' = SeedNamesOf(r)
  BY <1>1, <1>3 DEF Index, SeedNamesOf, ProgressFor
<1>5. /\ \A r : InOrder(r)' = InOrder(r)
      /\ \A b : Lone(b)' = Lone(b) /\ SamePrinted(b)' = SamePrinted(b)
  BY <1>1 DEF InOrder, Lone, SamePrinted
<1> QED  BY <1>1, <1>2, <1>4, <1>5

(* Invariants over kills and nights of a step that leaves them and the data. *)
LEMMA BeliefStays ==
  ASSUME UNCHANGED inputs, UNCHANGED loaded
  PROVE  /\ UNCHANGED <<told, met>> /\ ToldRightly => ToldRightly'
         /\ UNCHANGED <<told, met>> /\ KillsTold => KillsTold'
         /\ UNCHANGED nightTier /\ NightsBelong => NightsBelong'
         /\ UNCHANGED <<announcedKeys, met>> /\ RowsSeeded => RowsSeeded'
<1>1. ASSUME UNCHANGED <<told, met>>, ToldRightly PROVE ToldRightly'
  BY <1>1, NamesStay DEF ToldRightly
<1>2. ASSUME UNCHANGED <<told, met>>, KillsTold PROVE KillsTold'
  <2>1. UNCHANGED <<down, zoneNamed, teamInstall>> /\ Covered' = Covered
    BY DataStays DEF inputs
  <2>2. /\ \A r : InOrder(r)' = InOrder(r)
        /\ \A b : Lone(b)' = Lone(b) /\ SamePrinted(b)' = SamePrinted(b)
    BY NamesStay
  <2> QED  BY <1>2, <2>1, <2>2 DEF KillsTold
<1>3. ASSUME UNCHANGED nightTier, NightsBelong PROVE NightsBelong'
  <2>1. Index' = Index  BY DataStays
  <2> QED  BY <1>3, <2>1 DEF NightsBelong
<1>4. ASSUME UNCHANGED <<announcedKeys, met>>, RowsSeeded PROVE RowsSeeded'
  BY <1>4, NamesStay DEF RowsSeeded
<1> QED  BY <1>1, <1>2, <1>3, <1>4

LEMMA NamesLoads ==
  ASSUME NamesInv, NEW e \in ToLoad, StaticRaids(e)
  PROVE  NamesInv'
<1>1. ~seedDone /\ nightTier = {} /\ told = {} /\ met = {}
  BY DEF NamesInv
<1>2. UNCHANGED <<inputs, seedDone, announcedKeys, told, met, nightTier>>
  BY DEF StaticRaids
<1>3. Index' \subseteq RaidSlug
  <2>1. \A x \in DOMAIN loaded : loaded[x] \subseteq RaidSlug
    BY DEF NamesInv, TierKnown, Index
  <2>2. \A x \in DOMAIN loaded' : loaded'[x] \subseteq RaidSlug
    BY <2>1 DEF StaticRaids
  <2> QED  BY <2>2 DEF Index
<1>4. Printed'  BY <1>2 DEF NamesInv, TierKnown, Printed, inputs, SamePrinted
<1> QED
  BY <1>1, <1>2, <1>3, <1>4 DEF NamesInv, TierKnown, ToldRightly, KillsTold, NightsBelong

LEMMA NamesSeed ==
  ASSUME NamesInv, SeedsFollowed
  PROVE  NamesInv'
<1>1. /\ told = {} /\ met = {} /\ UNCHANGED <<inputs, loaded, told, met, nightTier>>
      /\ ToLoad = {} /\ seedDone' = TRUE
      /\ announcedKeys' = [r \in RaidSlug |-> IF r \in Followed THEN SeedNamesOf(r) ELSE {}]
  BY DEF NamesInv, SeedsFollowed
<1>2. /\ TierKnown' /\ ToLoad' = {}
      /\ \A r : SeedNamesOf(r)' = SeedNamesOf(r)
  <2>1. TierKnown /\ UNCHANGED inputs /\ UNCHANGED loaded  BY <1>1 DEF NamesInv
  <2> QED  BY <1>1, <2>1, DataStays, NamesStay
<1>3. RowsSeeded'
  BY <1>1, <1>2, AttributionNames DEF RowsSeeded
<1>4. ToldRightly' /\ KillsTold' /\ NightsBelong'
  BY <1>1, BeliefStays DEF NamesInv
<1> QED  BY <1>1, <1>2, <1>3, <1>4 DEF NamesInv

LEMMA NamesNight ==
  ASSUME NamesInv, NamesTell, NEW n \in 1..MaxFights, NEW fights \in [1..n -> AnyBoss],
         RecapsNight(fights)
  PROVE  NamesInv'
<1>1. /\ UNCHANGED <<inputs, loaded, seedDone, announcedKeys, told, met>>
      /\ ToLoad = {} /\ liveRaids # {} /\ nightTier' = {<<fights, ReportTier(fights)>>}
  BY DEF RecapsNight
<1>2. TierKnown' /\ ToLoad' = {} /\ TierKnown /\ Index' = Index
  <2>1. TierKnown /\ UNCHANGED inputs /\ UNCHANGED loaded  BY <1>1 DEF NamesInv
  <2> QED  BY <1>1, <2>1, DataStays
<1>3. n \in Nat  BY AttributionBounds
<1>4. (\A i \in DOMAIN fights : RaidOf(fights[i]) \in Index) =>
         /\ (ReportTier(fights) = {}) <=> \A r \in TierRaids : Fights(fights, r) = 0
         /\ \A r \in ReportTier(fights) :
              r \in TierRaids /\ \A q \in TierRaids : Fights(fights, q) <= Fights(fights, r)
  BY <1>1, <1>2, <1>3, ReportBelongs
<1>5. NightsBelong'
  <2>1. \A t \in nightTier' : t[1] = fights /\ t[2] = ReportTier(fights)
    BY <1>1
  <2> HIDE DEF NamesInv
  <2> QED  BY <1>2, <1>4, <2>1 DEF NightsBelong
<1>6. ToldRightly' /\ KillsTold' /\ (seedDone => RowsSeeded')
  BY <1>1, BeliefStays DEF NamesInv
<1> QED  BY <1>1, <1>2, <1>5, <1>6 DEF NamesInv

LEMMA NamesPoll ==
  ASSUME NamesInv, NamesTell, FormsBegin, NEW b \in AnyBoss, PollMeets(b)
  PROVE  NamesInv'
<1> DEFINE key == Normalize(logged[b])
<1>1. /\ UNCHANGED <<inputs, loaded, seedDone, nightTier>> /\ met' = met \cup {b}
      /\ seedDone /\ b \notin met /\ RowsSeeded
  BY DEF PollMeets, NamesInv
<1>2. PICK r \in ResolveRaid(b) :
        IF r = NoSlug THEN UNCHANGED <<announcedKeys, told>> ELSE AnnouncesKill(r, b)
  BY DEF PollMeets
<1>3. /\ TierKnown /\ TierKnown' /\ ToLoad' = ToLoad /\ ToLoad = {}
      /\ \A q : SeedNamesOf(q)' = SeedNamesOf(q)
      /\ \A c : ResolveRaid(c)' = ResolveRaid(c) /\ logged'[c] = logged[c]
  <2>1. TierKnown /\ UNCHANGED inputs /\ UNCHANGED loaded /\ ToLoad = {}  BY <1>1 DEF NamesInv
  <2> QED  BY <2>1, DataStays, NamesStay
<1>4. r # NoSlug =>
        /\ r \in Followed /\ r \in RaidSlug
        /\ r # RaidOf(b) => RaidOf(b) \notin Index /\ liveRaids \cap Index = {r}
  BY <1>2, <1>3, ResolvesNear, AttributionNames
<1>5. r = NoSlug => r \notin Followed  BY AttributionNames
<1> HIDE DEF key
<1>6. \/ UNCHANGED <<announcedKeys, told>> /\ r = NoSlug
      \/ /\ UNCHANGED <<announcedKeys, told>> /\ r \in Followed
         /\ \E k \in announcedKeys[r] : AliasMatch(k, key)
      \/ /\ r \in Followed /\ ~\E k \in announcedKeys[r] : AliasMatch(k, key)
         /\ told' = told \cup {<<r, b>>}
         /\ announcedKeys' = [q \in RaidSlug |-> IF q = r THEN announcedKeys[r] \cup {key}
                                                 ELSE announcedKeys[q]]
  <2>1. announcedKeys = [q \in RaidSlug |-> announcedKeys[q]]  BY DEF NamesInv
  <2>2. CASE r = NoSlug  BY <1>2, <2>2
  <2>3. CASE r # NoSlug
    BY <1>2, <1>4, <2>1, <2>3 DEF AnnouncesKill, key
  <2> QED  BY <2>2, <2>3
<1>7. announcedKeys' = [q \in RaidSlug |-> announcedKeys'[q]]
  BY <1>6 DEF NamesInv
<1>8. RowsSeeded'
  <2> SUFFICES ASSUME NEW q \in Followed
               PROVE  /\ SeedNamesOf(q) \subseteq announcedKeys'[q]
                      /\ \A k \in announcedKeys'[q] :
                           k \in SeedNamesOf(q) \/ \E c \in met' : k = Normalize(logged[c])
    BY <1>3 DEF RowsSeeded
  <2>1. q \in RaidSlug  BY AttributionNames
  <2>2. announcedKeys'[q] = announcedKeys[q]
        \/ announcedKeys'[q] = announcedKeys[q] \cup {key}
    BY <1>6, <2>1
  <2> QED  BY <1>1, <2>2 DEF RowsSeeded, key
<1>9. ToldRightly'
  <2>1. \A card \in told : \E q \in Followed, c \in met' :
          /\ card = <<q, c>> /\ q \in ResolveRaid(c)
          /\ \A k \in SeedNamesOf(q) : ~AliasMatch(k, Normalize(logged[c]))
    BY <1>1 DEF NamesInv, ToldRightly
  <2>2. ASSUME r \in Followed, ~\E k \in announcedKeys[r] : AliasMatch(k, key)
        PROVE  \A k \in SeedNamesOf(r) : ~AliasMatch(k, Normalize(logged[b]))
    BY <1>1, <2>2 DEF RowsSeeded, key
  <2>3. \A card \in told' : \E q \in Followed, c \in met' :
          /\ card = <<q, c>> /\ q \in ResolveRaid(c)
          /\ \A k \in SeedNamesOf(q) : ~AliasMatch(k, Normalize(logged[c]))
    BY <1>1, <1>2, <1>6, <2>1, <2>2
  <2> QED  BY <1>3, <2>3 DEF ToldRightly
<1>10. KillsTold'
  <2>1. told \subseteq told'  BY <1>6
  <2>2. ASSUME /\ RaidOf(b) \in Followed /\ Covered /\ b \notin down /\ Lone(b)
               /\ SamePrinted(b) \/ zoneNamed
               /\ teamInstall \/ InOrder(RaidOf(b))
        PROVE  <<RaidOf(b), b>> \in told'
    <3>1. RaidOf(b) \in Index  BY <2>2 DEF Covered, Index
    <3>2. r = RaidOf(b)  BY <1>2, <1>3, <2>2, <3>1, ResolvesOwn
    <3>3. ASSUME NEW k \in announcedKeys[r], AliasMatch(k, key) PROVE FALSE
      <4>1. CASE k \in SeedNamesOf(r)
        <5>1. b \in Range(Bosses[r])  BY <3>2, RaidIn
        <5>2. PICK c \in AnyBoss \ {b} : k \in {Normalize(published[c]), Normalize(logged[c])}
          BY <1>3, <2>2, <3>1, <3>2, <4>1, <5>1, LivingUnseeded
        <5>3. ~AliasMatch(key, k)  BY <2>2, <5>2 DEF Lone, key
        <5> QED  BY <3>3, <5>3 DEF AliasMatch
      <4>2. CASE \E c \in met : k = Normalize(logged[c])
        <5>1. PICK c \in met : k = Normalize(logged[c])  BY <4>2
        <5>2. c \in AnyBoss \ {b}  BY <1>1 DEF NamesInv
        <5>3. ~AliasMatch(key, k)  BY <2>2, <5>1, <5>2 DEF Lone, key
        <5> QED  BY <3>3, <5>3 DEF AliasMatch
      <4> QED  BY <1>1, <2>2, <3>2, <4>1, <4>2 DEF RowsSeeded
    <3>4. r # NoSlug  BY <1>5, <2>2, <3>2
    <3> QED  BY <1>6, <3>2, <3>3, <3>4
  <2>3. \A c \in met' : c = b \/ c \in met  BY <1>1
  <2>4. /\ Covered' = Covered
        /\ \A q : InOrder(q)' = InOrder(q)
        /\ \A c : Lone(c)' = Lone(c) /\ SamePrinted(c)' = SamePrinted(c)
    <3>1. UNCHANGED inputs /\ UNCHANGED loaded  BY <1>1
    <3> QED  BY <3>1, DataStays, NamesStay
  <2>5. UNCHANGED <<down, zoneNamed, teamInstall>>  BY <1>1 DEF inputs
  <2>6. KillsTold  BY DEF NamesInv
  <2> QED  BY <2>1, <2>2, <2>3, <2>4, <2>5, <2>6 DEF KillsTold
<1>11. NightsBelong'  BY <1>1, BeliefStays DEF NamesInv
<1>12. seedDone' \in BOOLEAN /\ met' \subseteq AnyBoss /\ seedDone'  BY <1>1 DEF NamesInv
<1> QED  BY <1>3, <1>7, <1>8, <1>9, <1>10, <1>11, <1>12 DEF NamesInv

LEMMA NamesStep ==
  ASSUME NamesTell, FormsBegin, NamesInv, [AttributionNext]_attributionVars
  PROVE  NamesInv'
<1>1. CASE UNCHANGED attributionVars
  <2>1. UNCHANGED <<inputs, loaded, seedDone, announcedKeys, told, met, nightTier>>
    BY <1>1 DEF attributionVars, inputs
  <2>2. TierKnown' /\ ToLoad' = ToLoad
    <3>1. TierKnown /\ UNCHANGED inputs /\ UNCHANGED loaded  BY <2>1 DEF NamesInv
    <3> QED  BY <3>1, DataStays
  <2>3. ToldRightly' /\ KillsTold' /\ NightsBelong' /\ (seedDone => RowsSeeded')
    BY <2>1, BeliefStays DEF NamesInv
  <2> QED  BY <2>1, <2>2, <2>3 DEF NamesInv
<1>2. ASSUME NEW e \in ToLoad, StaticRaids(e) PROVE NamesInv'
  BY <1>2, NamesLoads
<1>3. CASE SeedsFollowed  BY <1>3, NamesSeed
<1>4. ASSUME NEW b \in AnyBoss, PollMeets(b) PROVE NamesInv'
  BY <1>4, NamesPoll
<1>5. ASSUME NEW n \in 1..MaxFights, NEW fights \in [1..n -> AnyBoss], RecapsNight(fights)
      PROVE  NamesInv'
  BY <1>5, NamesNight
<1> QED  BY <1>1, <1>2, <1>3, <1>4, <1>5 DEF AttributionNext

(* A first kill is told, and told of its own raid, unless Raider.IO's data  *)
(* for that was not loaded and one raid is live; what was dead at the seed   *)
(* is not told; a night is given to the raid with most of its fights         *)
(* (raiderio.py): for any raids and expansions, names that tell the bosses   *)
(* apart and begin with their short form, any spelling either side uses,     *)
(* any history and kills, and expansions that failed to load.                *)
THEOREM KillsAreItsRaids ==
  ASSUME NamesTell, FormsBegin
  PROVE  AttributionSpec => []KillsBelong
<1>1. NamesInv => KillsBelong  BY CardsRight DEF NamesInv, KillsBelong
<1>2. NamesInv /\ [AttributionNext]_attributionVars => NamesInv'  BY NamesStep
<1> QED  BY <1>1, <1>2, NamesInit, PTL DEF AttributionSpec

-----------------------------------------------------------------------------
(* What the night's card says *)

LEMMA MaxIs ==
  ASSUME NEW S \in SUBSET Nat, S # {}, NEW n \in Nat, \A x \in S : x <= n
  PROVE  Max(S) \in S /\ \A x \in S : x <= Max(S)
<1> DEFINE U == {u \in Nat : \A x \in S : x <= u}
<1>1. PICK u \in U : \A v \in U : u <= v  BY LeastNumber
<1>2. u \in S
  <2>1. SUFFICES ASSUME u \notin S PROVE FALSE  OBVIOUS
  <2>2. \A x \in S : x \in Nat /\ x <= u /\ x # u  BY <1>1, <2>1
  <2>3. PICK x \in S : TRUE  OBVIOUS
  <2>4. u - 1 \in Nat  BY <1>1, <2>2, <2>3
  <2>5. u - 1 \in U  BY <1>1, <2>2, <2>4
  <2> QED  BY <1>1, <2>4, <2>5
<1>3. \E x \in S : \A y \in S : x >= y  BY <1>1, <1>2
<1> QED  BY <1>3 DEF Max

LEMMA MinOfTwo ==
  ASSUME NEW a \in Nat, NEW b \in Nat
  PROVE  Min({a, b}) = IF a <= b THEN a ELSE b
BY DEF Min

(* The folds of the card: over the entries of one person in one log, of     *)
(* which there is at most one, and over the two logs.                       *)
PersonTotal(table) == MapThenSumSet(LAMBDA e : e.total, table)

LEMMA OneEntry ==
  ASSUME NEW x, x.total \in Nat
  PROVE  PersonTotal({x}) = x.total
<1> DEFINE F(g) == [s \in SUBSET {x} |-> IF s = {} THEN 0
                                        ELSE LET y == CHOOSE z \in s : TRUE IN y.total + g[s \ {y}]]
           g0 == [s \in SUBSET {x} |-> IF s = {} THEN 0 ELSE x.total]
           h == CHOOSE g : g = F(g)
<1>1. PersonTotal({x}) = h[{x}]  BY DEF PersonTotal, MapThenSumSet, MapThenFoldSet
<1>2. g0 = F(g0)  OBVIOUS
<1>3. h = F(h)  BY <1>2
<1>4. h[{}] = 0  BY <1>3
<1>5. h[{x}] = x.total + h[{}]  BY <1>3
<1> QED  BY <1>1, <1>4, <1>5

LEMMA NoEntry == PersonTotal({}) = 0
<1> DEFINE F(g) == [s \in SUBSET {} |-> IF s = {} THEN 0
                                        ELSE LET y == CHOOSE z \in s : TRUE IN y.total + g[s \ {y}]]
           g0 == [s \in SUBSET {} |-> 0]
           h == CHOOSE g : g = F(g)
<1>1. PersonTotal({}) = h[{}]  BY DEF PersonTotal, MapThenSumSet, MapThenFoldSet
<1>2. g0 = F(g0)  OBVIOUS
<1>3. h = F(h)  BY <1>2
<1> QED  BY <1>1, <1>3

Sums(g, v) == g = [s \in SUBSET LogNo |->
                     IF s = {} THEN 0 ELSE LET y == CHOOSE z \in s : TRUE IN v[y] + g[s \ {y}]]

LEMMA SumOfBoth ==
  ASSUME NEW v \in [LogNo -> Nat]
  PROVE  /\ \E g : Sums(g, v)
         /\ \A g : Sums(g, v) => g[LogNo] = v[1] + v[2]
<1>1. v[1] \in Nat /\ v[2] \in Nat  BY DEF LogNo
<1>2. \A s \in SUBSET LogNo : s # {} => (CHOOSE z \in s : TRUE) \in s  OBVIOUS
<1>3. \E g : Sums(g, v)
  <2> DEFINE g0 == [s \in SUBSET LogNo |-> (IF 1 \in s THEN v[1] ELSE 0) + (IF 2 \in s THEN v[2] ELSE 0)]
  <2>1. \A s \in SUBSET LogNo : \A y \in s : g0[s] = v[y] + g0[s \ {y}]
    <3>1. TAKE s \in SUBSET LogNo
    <3>2. TAKE y \in s
    <3>3. s \ {y} \in SUBSET LogNo /\ (y = 1 \/ y = 2)  BY DEF LogNo
    <3>4. g0[s \ {y}] = (IF 1 \in s \ {y} THEN v[1] ELSE 0) + (IF 2 \in s \ {y} THEN v[2] ELSE 0)
      BY <3>3
    <3>5. g0[s] = (IF 1 \in s THEN v[1] ELSE 0) + (IF 2 \in s THEN v[2] ELSE 0)
      OBVIOUS
    <3> HIDE DEF g0
    <3> QED  BY <1>1, <3>3, <3>4, <3>5
  <2>2. g0[{}] = 0 /\ g0 = [s \in SUBSET LogNo |-> g0[s]]  OBVIOUS
  <2> HIDE DEF g0
  <2>3. \A s \in SUBSET LogNo :
          g0[s] = IF s = {} THEN 0 ELSE LET y == CHOOSE z \in s : TRUE IN v[y] + g0[s \ {y}]
    BY <1>2, <2>1, <2>2
  <2>4. [s \in SUBSET LogNo |-> g0[s]] =
        [s \in SUBSET LogNo |->
           IF s = {} THEN 0 ELSE LET y == CHOOSE z \in s : TRUE IN v[y] + g0[s \ {y}]]
    BY <2>3
  <2>5. Sums(g0, v)  BY <2>2, <2>4 DEF Sums
  <2> QED  BY <2>5
<1>4. ASSUME NEW g, Sums(g, v) PROVE g[LogNo] = v[1] + v[2]
  <2>1. \A s \in SUBSET LogNo : s # {} =>
          LET y == CHOOSE z \in s : TRUE IN g[s] = v[y] + g[s \ {y}]
    BY <1>4 DEF Sums
  <2>2. g[{}] = 0  BY <1>4 DEF Sums
  <2>3. \A n \in LogNo : /\ {n} \in SUBSET LogNo /\ {n} # {} /\ {n} \ {n} = {}
                         /\ (CHOOSE z \in {n} : TRUE) = n
    OBVIOUS
  <2>4. \A n \in LogNo : g[{n}] = v[n]  BY <2>1, <2>2, <2>3
  <2>5. LogNo = {1, 2} /\ LogNo \ {1} = {2} /\ LogNo \ {2} = {1}  BY DEF LogNo
  <2>6. \E y \in {1, 2} : g[LogNo] = v[y] + g[LogNo \ {y}]
    BY <1>2, <2>1, <2>5
  <2> QED  BY <1>1, <2>4, <2>5, <2>6
<1> QED  BY <1>3, <1>4

LEMMA BothLogs ==
  ASSUME NEW p, \A l \in LogNo : PersonTotal(OfPerson(l, p, Table(l))) \in Nat
  PROVE  Totals(p) = PersonTotal(OfPerson(1, p, Table(1))) + PersonTotal(OfPerson(2, p, Table(2)))
<1> DEFINE of(l) == PersonTotal(OfPerson(l, p, Table(l)))
           F(g) == [s \in SUBSET LogNo |-> IF s = {} THEN 0
                                           ELSE LET y == CHOOSE z \in s : TRUE IN of(y) + g[s \ {y}]]
           h == CHOOSE g : g = F(g)
           v == [l \in LogNo |-> of(l)]
<1>1. Totals(p) = h[LogNo]
  BY DEF Totals, PersonTotal, MapThenSumSet, MapThenFoldSet
<1>2. v \in [LogNo -> Nat] /\ v[1] = of(1) /\ v[2] = of(2)  BY DEF LogNo
<1>3. ASSUME NEW g PROVE g = F(g) <=> Sums(g, v)
  <2> HIDE DEF of
  <2>1. \A s \in SUBSET LogNo : s # {} => v[CHOOSE z \in s : TRUE] = of(CHOOSE z \in s : TRUE)
    OBVIOUS
  <2> HIDE DEF v
  <2>2. F(g) = [s \in SUBSET LogNo |->
                  IF s = {} THEN 0 ELSE LET y == CHOOSE z \in s : TRUE IN v[y] + g[s \ {y}]]
    BY <2>1
  <2> QED  BY <2>2 DEF Sums
<1> HIDE DEF of, v
<1>4. Sums(h, v)
  <2>1. PICK g : Sums(g, v)  BY <1>2, SumOfBoth
  <2> HIDE DEF F
  <2>2. g = F(g)  BY <1>3, <2>1
  <2>3. h = F(h)  BY <2>2
  <2> HIDE DEF h
  <2> QED  BY <1>3, <2>3
<1>5. h[LogNo] = v[1] + v[2]  BY <1>2, <1>4, SumOfBoth
<1> QED  BY <1>1, <1>2, <1>5 DEF of

LEMMA BothDeaths ==
  ASSUME NEW p, \A l \in LogNo : Cardinality(OfPerson(l, p, died[l])) \in Nat
  PROVE  DeathCount(p) = Cardinality(OfPerson(1, p, died[1])) + Cardinality(OfPerson(2, p, died[2]))
<1> DEFINE of(l) == Cardinality(OfPerson(l, p, died[l]))
           F(g) == [s \in SUBSET LogNo |-> IF s = {} THEN 0
                                           ELSE LET y == CHOOSE z \in s : TRUE IN of(y) + g[s \ {y}]]
           h == CHOOSE g : g = F(g)
           v == [l \in LogNo |-> of(l)]
<1>1. DeathCount(p) = h[LogNo]
  BY DEF DeathCount, MapThenSumSet, MapThenFoldSet
<1>2. v \in [LogNo -> Nat] /\ v[1] = of(1) /\ v[2] = of(2)  BY DEF LogNo
<1>3. ASSUME NEW g PROVE g = F(g) <=> Sums(g, v)
  <2> HIDE DEF of
  <2>1. \A s \in SUBSET LogNo : s # {} => v[CHOOSE z \in s : TRUE] = of(CHOOSE z \in s : TRUE)
    OBVIOUS
  <2> HIDE DEF v
  <2>2. F(g) = [s \in SUBSET LogNo |->
                  IF s = {} THEN 0 ELSE LET y == CHOOSE z \in s : TRUE IN v[y] + g[s \ {y}]]
    BY <2>1
  <2> QED  BY <2>2 DEF Sums
<1> HIDE DEF of, v
<1>4. Sums(h, v)
  <2>1. PICK g : Sums(g, v)  BY <1>2, SumOfBoth
  <2> HIDE DEF F
  <2>2. g = F(g)  BY <1>3, <2>1
  <2>3. h = F(h)  BY <2>2
  <2> HIDE DEF h
  <2> QED  BY <1>3, <2>3
<1>5. h[LogNo] = v[1] + v[2]  BY <1>2, <1>4, SumOfBoth
<1> QED  BY <1>1, <1>2, <1>5 DEF of

(* What a night is: pulls, deaths, a split, and ids that name one person    *)
(* each in the log that gave them.                                          *)
SomePull == [boss : Nat, kill : BOOLEAN, tier : BOOLEAN, who : SUBSET Attendee]
NightOK ==
  /\ \E n \in Nat : night.pulls \in [1..n -> SomePull]
  /\ night.deaths \subseteq DeathAt /\ IsFiniteSet(night.deaths)
  /\ night.split \in Nat
  /\ \A l \in LogNo : night.ids[l] \in Injection(Attendee, 1..Cardinality(Attendee))

LEMMA IdsNumber ==
  /\ Cardinality(Attendee) \in Nat
  /\ Numbering \in Injection(Attendee, 1..Cardinality(Attendee))
  /\ Renumbered \in Injection(Attendee, 1..Cardinality(Attendee))
<1> DEFINE N == Cardinality(Attendee)
<1>1. N \in Nat /\ ExistsBijection(1..N, Attendee)  BY FS_CardinalityType, FigureBounds
<1>2. PICK b \in Bijection(1..N, Attendee) : TRUE  BY <1>1 DEF ExistsBijection
<1>3. Numberings # {}
  <2> DEFINE n == [p \in Attendee |-> CHOOSE k \in 1..N : b[k] = p]
  <2>1. \A p \in Attendee : \E k \in 1..N : b[k] = p
    BY <1>2 DEF Bijection, Surjection
  <2>2. \A p \in Attendee : n[p] \in 1..N /\ b[n[p]] = p  BY <2>1
  <2>3. n \in [Attendee -> 1..N]  BY <2>2
  <2> HIDE DEF n
  <2> QED  BY <2>2, <2>3 DEF Numberings
<1>4. Numbering \in Numberings  BY <1>3 DEF Numbering
<1>5. Numbering \in [Attendee -> 1..N] /\ \A p, q \in Attendee : Numbering[p] = Numbering[q] => p = q
  BY <1>4 DEF Numberings
<1> HIDE DEF N
<1>6. Renumbered = [p \in Attendee |-> IF Numbering[p] = N THEN 1 ELSE Numbering[p] + 1]
  BY DEF Renumbered, N
<1>7. \A p \in Attendee : /\ Renumbered[p] = IF Numbering[p] = N THEN 1 ELSE Numbering[p] + 1
                          /\ Numbering[p] \in 1..N /\ Renumbered[p] \in 1..N
  BY <1>1, <1>5, <1>6
<1>8. Renumbered \in [Attendee -> 1..N]  BY <1>6, <1>7
<1>9. \A p, q \in Attendee : Renumbered[p] = Renumbered[q] => Numbering[p] = Numbering[q]
  BY <1>1, <1>7
<1> QED  BY <1>1, <1>5, <1>8, <1>9 DEF Injection, IsInjective, N

LEMMA DeathsFinite == IsFiniteSet(DeathAt)
<1> DEFINE A == 1..FigurePulls  B == Attendee  C == 0..1
           f == [x \in (A \X B) \X C |-> [pull |-> x[1][1], who |-> x[1][2], tick |-> x[2]]]
<1>1. IsFiniteSet(A) /\ IsFiniteSet(B) /\ IsFiniteSet(C)
  <2>1. FigurePulls \in Int /\ 0 \in Int /\ 1 \in Int  BY FigureBounds
  <2>2. IsFiniteSet(1..FigurePulls)  BY <2>1, FS_Interval
  <2>3. IsFiniteSet(0..1)  BY <2>1, FS_Interval
  <2>4. IsFiniteSet(Attendee)  BY FigureBounds
  <2> QED  BY <2>2, <2>3, <2>4
<1>2. IsFiniteSet(A \X B)  BY <1>1, FS_Product
<1>3. IsFiniteSet((A \X B) \X C)  BY <1>1, <1>2, FS_Product
<1>4. f \in Surjection((A \X B) \X C, DeathAt)
  <2>1. f \in [(A \X B) \X C -> DeathAt]  BY DEF DeathAt
  <2>2. ASSUME NEW d \in DeathAt PROVE \E x \in (A \X B) \X C : f[x] = d
    <3>1. <<<<d.pull, d.who>>, d.tick>> \in (A \X B) \X C  BY DEF DeathAt
    <3>2. f[<<<<d.pull, d.who>>, d.tick>>] = d  BY <3>1 DEF DeathAt
    <3> QED  BY <3>1, <3>2
  <2> HIDE DEF f, A, B, C
  <2> QED  BY <2>1, <2>2 DEF Surjection
<1> HIDE DEF f, A, B, C
<1> QED  BY <1>3, <1>4, FS_Surjection

LEMMA NightInit ==
  ASSUME FiguresInit \/ FiguresIdle
  PROVE  NightOK
<1>1. \A l \in LogNo : <<Numbering, Renumbered>>[l] \in Injection(Attendee, 1..Cardinality(Attendee))
  <2>1. /\ <<Numbering, Renumbered>>[1] \in Injection(Attendee, 1..Cardinality(Attendee))
        /\ <<Numbering, Renumbered>>[2] \in Injection(Attendee, 1..Cardinality(Attendee))
    BY IdsNumber
  <2>2. \A l \in LogNo : l = 1 \/ l = 2  BY DEF LogNo
  <2> HIDE DEF Numbering, Renumbered
  <2> QED  BY <2>1, <2>2
<1>2. CASE FiguresIdle
  <2>1. night = [pulls |-> <<>>, deaths |-> {}, split |-> 0, ids |-> <<Numbering, Renumbered>>]
    BY <1>2 DEF FiguresIdle
  <2>2. night.pulls \in [1..0 -> SomePull]  BY <2>1
  <2>3. IsFiniteSet(night.deaths)  BY <2>1, FS_EmptySet
  <2> QED  BY <1>1, <2>1, <2>2, <2>3 DEF NightOK
<1>3. ASSUME NEW split \in 1..FigurePulls,
             NEW pulls \in UNION {[1..n -> PullAt] : n \in 1..FigurePulls},
             night = [pulls |-> pulls, deaths |-> {}, split |-> split,
                      ids |-> <<Numbering, Renumbered>>]
      PROVE  NightOK
  <2>1. PICK n \in 1..FigurePulls : pulls \in [1..n -> PullAt]  OBVIOUS
  <2>2. n \in Nat /\ split \in Nat /\ PullAt \subseteq SomePull
    BY FigureBounds DEF PullAt, SomePull
  <2>3. IsFiniteSet(night.deaths)  BY <1>3, FS_EmptySet
  <2> QED  BY <1>1, <1>3, <2>1, <2>2, <2>3 DEF NightOK
<1>4. ASSUME NEW split \in 1..FigurePulls,
             NEW deaths \in UNION {kSubset(k, DeathAt) : k \in 1..FigureDeaths},
             night = [pulls |-> [i \in 1..FigurePulls |->
                                  [boss |-> 1, kill |-> FALSE, tier |-> TRUE, who |-> Attendee]],
                      deaths |-> deaths, split |-> split, ids |-> <<Numbering, Renumbered>>]
      PROVE  NightOK
  <2>1. deaths \subseteq DeathAt  BY DEF kSubset
  <2>2. IsFiniteSet(deaths)  BY <2>1, DeathsFinite, FS_Subset
  <2>3. night.pulls \in [1..FigurePulls -> SomePull]  BY <1>4 DEF SomePull
  <2>4. FigurePulls \in Nat /\ split \in Nat  BY FigureBounds
  <2> QED  BY <1>1, <1>4, <2>1, <2>2, <2>3, <2>4 DEF NightOK
<1> QED  BY <1>2, <1>3, <1>4 DEF FiguresInit

LEMMA Scopes ==
  ASSUME NightOK
  PROVE  \E n \in Nat :
           /\ \A l \in LogNo : ScopeOf(l) \subseteq 1..n
           /\ \A l \in LogNo : \A i \in ScopeOf(l) : LogOf(i) = l
           /\ ScopeOf(1) \cap ScopeOf(2) = {}
           /\ \A i \in 1..n : night.pulls[i] \in SomePull /\ LogOf(i) \in LogNo
           /\ NightPulls = {i \in 1..n : night.pulls[i].tier}
           /\ IsFiniteSet(NightPulls) /\ \A l \in LogNo : IsFiniteSet(ScopeOf(l))
           /\ \A l \in LogNo : ScopeOf(l) = {i \in NightPulls : LogOf(i) = l}
<1>1. PICK n \in Nat : night.pulls \in [1..n -> SomePull]  BY DEF NightOK
<1>2. \A l \in LogNo : ScopeOf(l) = {i \in 1..n : LogOf(i) = l /\ night.pulls[i].tier}
  BY <1>1 DEF ScopeOf, PullsOf
<1>3. \A i \in 1..n : LogOf(i) \in LogNo  BY DEF LogOf, LogNo
<1>4. 1 \in LogNo /\ 2 \in LogNo /\ \A l \in LogNo : l = 1 \/ l = 2  BY DEF LogNo
<1>5. NightPulls = {i \in 1..n : night.pulls[i].tier}
  BY <1>2, <1>3, <1>4 DEF NightPulls
<1>6. IsFiniteSet(1..n)
  <2>1. 1 \in Int /\ n \in Int  OBVIOUS
  <2> QED  BY <2>1, FS_Interval
<1>7. IsFiniteSet(NightPulls)  BY <1>5, <1>6, FS_Subset
<1>8. \A l \in LogNo : ScopeOf(l) \subseteq 1..n  BY <1>2
<1>9. \A l \in LogNo : IsFiniteSet(ScopeOf(l))  BY <1>6, <1>8, FS_Subset
<1>10. \A l \in LogNo : \A i \in ScopeOf(l) : LogOf(i) = l  BY <1>2
<1>11. ScopeOf(1) \cap ScopeOf(2) = {}  BY <1>4, <1>10
<1>12. \A i \in 1..n : night.pulls[i] \in SomePull  BY <1>1
<1>13. \A l \in LogNo : ScopeOf(l) = {i \in NightPulls : LogOf(i) = l}  BY <1>2, <1>5
<1> QED  BY <1>3, <1>5, <1>7, <1>8, <1>9, <1>10, <1>11, <1>12, <1>13

LEMMA IdsName ==
  ASSUME NightOK, NEW l \in LogNo
  PROVE  /\ RaidedIn(l) \subseteq Attendee /\ CountsIn(l) \subseteq RaidedIn(l)
         /\ EligibleIn(l) = {night.ids[l][p] : p \in CountsIn(l)}
         /\ \A p \in Attendee : /\ ActorPerson(l, night.ids[l][p]) = p
                                /\ night.ids[l][p] # Pet
                                /\ night.ids[l][p] \in EligibleIn(l) <=> p \in CountsIn(l)
         /\ \A p, q \in Attendee : night.ids[l][p] = night.ids[l][q] => p = q
<1> DEFINE id == night.ids[l]
<1>1. id \in [Attendee -> 1..Cardinality(Attendee)] /\ \A p, q \in Attendee : id[p] = id[q] => p = q
  BY DEF NightOK, Injection, IsInjective
<1>2. PICK n \in Nat : ScopeOf(l) \subseteq 1..n /\ \A i \in 1..n : night.pulls[i] \in SomePull
  BY Scopes
<1>3. RaidedIn(l) \subseteq Attendee  BY <1>2 DEF RaidedIn, SomePull
<1>4. CountsIn(l) \subseteq RaidedIn(l)  BY DEF CountsIn
<1>5. \A p \in Attendee : ActorPerson(l, id[p]) = p
  <2>1. TAKE p \in Attendee
  <2>2. ActorPerson(l, id[p]) = CHOOSE q \in Attendee : id[q] = id[p]
    BY DEF ActorPerson, ActorIndex
  <2>3. \A q \in Attendee : id[q] = id[p] <=> q = p  BY <1>1
  <2> QED  BY <2>2, <2>3
<1>6. \A p \in Attendee : id[p] # Pet
  <2>1. \A p \in Attendee : id[p] \in 1..Cardinality(Attendee)  BY <1>1
  <2>2. Cardinality(Attendee) \in Nat  BY IdsNumber
  <2> HIDE DEF id
  <2>3. Pet \notin 1..Cardinality(Attendee)  BY <2>2 DEF Pet
  <2> QED  BY <2>1, <2>3
<1>7. EligibleIn(l) = {id[p] : p \in CountsIn(l)}
  <2> DEFINE there == {id[p] : p \in RaidedIn(l)}
             keep == {a \in there : ActorPerson(l, a) \in OnRoster}
  <2>1. EligibleIn(l) = IF keep = {} THEN there ELSE keep  BY DEF EligibleIn, RaidedIn
  <2>2. keep = {id[p] : p \in RaidedIn(l) \cap OnRoster}  BY <1>3, <1>5
  <2>3. keep = {} <=> RaidedIn(l) \cap OnRoster = {}  BY <2>2
  <2> HIDE DEF keep
  <2> QED  BY <2>1, <2>2, <2>3 DEF CountsIn
<1> HIDE DEF id
<1>8. \A p \in Attendee : id[p] \in EligibleIn(l) <=> p \in CountsIn(l)
  BY <1>1, <1>3, <1>4, <1>7
<1> QED  BY <1>1, <1>3, <1>4, <1>5, <1>6, <1>7, <1>8 DEF id

LEMMA Keys ==
  ASSUME NightOK
  PROVE  /\ RaiderKeys = CountsIn(1) \cup CountsIn(2)
         /\ RaiderKeys \subseteq Attendee
<1>1. 1 \in LogNo /\ 2 \in LogNo /\ \A l \in LogNo : l = 1 \/ l = 2  BY DEF LogNo
<1>2. ASSUME NEW l \in LogNo PROVE {ActorPerson(l, a) : a \in EligibleIn(l)} = CountsIn(l)
  <2>1. CountsIn(l) \subseteq Attendee  BY IdsName
  <2>2. \A p \in CountsIn(l) : ActorPerson(l, night.ids[l][p]) = p  BY <2>1, IdsName
  <2>3. EligibleIn(l) = {night.ids[l][p] : p \in CountsIn(l)}  BY IdsName
  <2> QED  BY <2>2, <2>3
<1>3. \A l \in LogNo : CountsIn(l) \subseteq Attendee  BY IdsName
<1> QED  BY <1>1, <1>2, <1>3 DEF RaiderKeys

(* The pulls of a log a person stood in, and what the log says of them. *)
StoodIn(l, p) == {i \in ScopeOf(l) : p \in night.pulls[i].who}
EntryOf(l, p) == [id |-> night.ids[l][p], total |-> Cardinality(StoodIn(l, p)),
                  ilvl |-> Max({0} \cup StoodIn(l, p))]

LEMMA EntriesOf ==
  ASSUME NightOK, noTables = {}, NEW l \in LogNo, NEW p \in Attendee
  PROVE  OfPerson(l, p, Table(l)) = IF p \in CountsIn(l) THEN {EntryOf(l, p)} ELSE {}
<1> DEFINE there == {EntryOf(l, q) : q \in RaidedIn(l)}
<1>1. Table(l) = there \cup {[id |-> Pet, total |-> 9, ilvl |-> 9]}
  BY DEF Table, Entries, EntryOf, StoodIn, RaidedIn
<1>2. Pet \notin EligibleIn(l)
  <2>1. \A q \in CountsIn(l) : q \in Attendee  BY IdsName
  <2>2. \A q \in Attendee : night.ids[l][q] # Pet  BY IdsName
  <2>3. EligibleIn(l) = {night.ids[l][q] : q \in CountsIn(l)}  BY IdsName
  <2> QED  BY <2>1, <2>2, <2>3
<1>3. \A q \in RaidedIn(l) : /\ q \in Attendee /\ EntryOf(l, q).id = night.ids[l][q]
                             /\ ActorPerson(l, night.ids[l][q]) = q
                             /\ night.ids[l][q] \in EligibleIn(l) <=> q \in CountsIn(l)
  BY IdsName DEF EntryOf
<1>4. CountsIn(l) \subseteq RaidedIn(l)  BY IdsName
<1>5. OfPerson(l, p, Table(l)) =
        {e \in there : e.id \in EligibleIn(l) /\ ActorPerson(l, e.id) = p}
  BY <1>1, <1>2 DEF OfPerson
<1>6. \A e \in there : e.id \in EligibleIn(l) /\ ActorPerson(l, e.id) = p =>
                       p \in CountsIn(l) /\ e = EntryOf(l, p)
  BY <1>3
<1>7. p \in CountsIn(l) =>
        /\ EntryOf(l, p) \in there /\ EntryOf(l, p).id \in EligibleIn(l)
        /\ ActorPerson(l, EntryOf(l, p).id) = p
  BY <1>3, <1>4
<1> HIDE DEF there
<1> QED  BY <1>5, <1>6, <1>7

LEMMA StoodFinite ==
  ASSUME NightOK, NEW l \in LogNo, NEW p
  PROVE  /\ IsFiniteSet(StoodIn(l, p)) /\ Cardinality(StoodIn(l, p)) \in Nat
         /\ StoodIn(l, p) \subseteq NightPulls
<1>1. IsFiniteSet(ScopeOf(l)) /\ ScopeOf(l) \subseteq NightPulls  BY Scopes
<1>2. StoodIn(l, p) \in SUBSET ScopeOf(l)  BY DEF StoodIn
<1>3. IsFiniteSet(StoodIn(l, p))  BY <1>1, <1>2, FS_Subset
<1> QED  BY <1>1, <1>2, <1>3, FS_CardinalityType

(* The pulls that count for a person's row. *)
RowPulls(p) == {i \in {i \in NightPulls : p \in CountsIn(LogOf(i))} : p \in night.pulls[i].who}
Counting(l, p) == IF p \in CountsIn(l) THEN StoodIn(l, p) ELSE {}

LEMMA RowIs ==
  ASSUME NightOK, NEW p
  PROVE  /\ RowPulls(p) = Counting(1, p) \cup Counting(2, p)
         /\ Counting(1, p) \cap Counting(2, p) = {}
         /\ \A l \in LogNo : IsFiniteSet(Counting(l, p)) /\ Cardinality(Counting(l, p)) \in Nat
         /\ Cardinality(RowPulls(p)) = Cardinality(Counting(1, p)) + Cardinality(Counting(2, p))
<1>0. 1 \in LogNo /\ 2 \in LogNo /\ \A l \in LogNo : l = 1 \/ l = 2  BY DEF LogNo
<1>1. \A l \in LogNo : IsFiniteSet(Counting(l, p)) /\ Cardinality(Counting(l, p)) \in Nat
  BY StoodFinite, FS_EmptySet DEF Counting
<1>2. \A l \in LogNo : ScopeOf(l) = {i \in NightPulls : LogOf(i) = l}  BY Scopes
<1>3. \A i \in NightPulls : LogOf(i) = 1 \/ LogOf(i) = 2  BY DEF LogOf
<1>4. Counting(1, p) \cap Counting(2, p) = {}  BY <1>0, <1>2 DEF Counting, StoodIn
<1>5. RowPulls(p) = Counting(1, p) \cup Counting(2, p)
  BY <1>0, <1>2, <1>3 DEF Counting, StoodIn, RowPulls
<1>6. Cardinality(Counting(1, p) \cup Counting(2, p)) =
        Cardinality(Counting(1, p)) + Cardinality(Counting(2, p)) - Cardinality({})
  BY <1>0, <1>1, <1>4, FS_Union
<1>7. Cardinality({}) = 0  BY FS_EmptySet
<1>8. Cardinality(Counting(1, p)) \in Nat /\ Cardinality(Counting(2, p)) \in Nat  BY <1>0, <1>1
<1> QED  BY <1>1, <1>4, <1>5, <1>6, <1>7, <1>8

LEMMA DamageIs ==
  ASSUME NightOK, noTables = {}, NEW p \in Attendee
  PROVE  Totals(p) = Cardinality(RowPulls(p))
<1>1. ASSUME NEW l \in LogNo
      PROVE  PersonTotal(OfPerson(l, p, Table(l))) = Cardinality(Counting(l, p))
  <2>1. CASE p \in CountsIn(l)
    <3>1. OfPerson(l, p, Table(l)) = {EntryOf(l, p)}  BY <2>1, EntriesOf
    <3>2. EntryOf(l, p).total = Cardinality(Counting(l, p))  BY <2>1 DEF EntryOf, Counting
    <3>3. EntryOf(l, p).total \in Nat  BY <3>2, RowIs
    <3> QED  BY <3>1, <3>2, <3>3, OneEntry
  <2>2. CASE p \notin CountsIn(l)
    BY <2>2, EntriesOf, NoEntry, FS_EmptySet DEF Counting
  <2> QED  BY <2>1, <2>2
<1>2. \A l \in LogNo : PersonTotal(OfPerson(l, p, Table(l))) \in Nat  BY <1>1, RowIs
<1>3. 1 \in LogNo /\ 2 \in LogNo  BY DEF LogNo
<1> QED  BY <1>1, <1>2, <1>3, BothLogs, RowIs

LEMMA ItemLevelIs ==
  ASSUME NightOK, noTables = {}, NEW p \in CountsIn(1) \cup CountsIn(2)
  PROVE  ItemLevel(p) = Max(RowPulls(p))
<1>0. 1 \in LogNo /\ 2 \in LogNo /\ \A l \in LogNo : l = 1 \/ l = 2  BY DEF LogNo
<1>1. PICK n \in Nat : NightPulls \subseteq 1..n  BY Scopes
<1>2. p \in Attendee  BY <1>0, IdsName
<1>3. ASSUME NEW l \in LogNo
      PROVE  {e.ilvl : e \in OfPerson(l, p, Table(l))} =
               IF p \in CountsIn(l) THEN {Max({0} \cup StoodIn(l, p))} ELSE {}
  <2>1. EntryOf(l, p).ilvl = Max({0} \cup StoodIn(l, p))  BY DEF EntryOf
  <2>2. OfPerson(l, p, Table(l)) = IF p \in CountsIn(l) THEN {EntryOf(l, p)} ELSE {}
    BY <1>2, EntriesOf
  <2> QED  BY <2>1, <2>2
<1>4. ASSUME NEW l \in LogNo, p \in CountsIn(l)
      PROVE  /\ Max({0} \cup StoodIn(l, p)) \in StoodIn(l, p)
             /\ \A i \in StoodIn(l, p) : i <= Max({0} \cup StoodIn(l, p))
  <2>1. p \in RaidedIn(l)  BY <1>4, IdsName
  <2>2. StoodIn(l, p) # {}  BY <2>1 DEF RaidedIn, StoodIn
  <2>3. StoodIn(l, p) \subseteq 1..n  BY <1>1, StoodFinite
  <2> DEFINE S == {0} \cup StoodIn(l, p)
  <2>4. S \in SUBSET Nat /\ S # {} /\ \A x \in S : x <= n  BY <2>3
  <2>5. Max(S) \in S /\ \A x \in S : x <= Max(S)  BY <2>4, MaxIs
  <2>6. \A i \in StoodIn(l, p) : i >= 1  BY <2>3
  <2>7. PICK i \in StoodIn(l, p) : TRUE  BY <2>2
  <2>8. Max(S) # 0  BY <2>3, <2>5, <2>6, <2>7
  <2> QED  BY <2>5, <2>8
<1> DEFINE U == {0} \cup UNION {{e.ilvl : e \in OfPerson(l, p, Table(l))} : l \in LogNo}
           R == RowPulls(p)
<1>5. R = UNION {Counting(l, p) : l \in LogNo} /\ R \subseteq 1..n /\ R # {}
  <2>1. R = UNION {Counting(l, p) : l \in LogNo}  BY <1>0, RowIs
  <2>2. R \subseteq 1..n  BY <1>1 DEF RowPulls
  <2>3. \E l \in LogNo : p \in CountsIn(l)  BY <1>0
  <2> QED  BY <1>4, <2>1, <2>2, <2>3 DEF Counting
<1>6. Max(R) \in R /\ \A x \in R : x <= Max(R)
  <2>1. R \in SUBSET Nat /\ \A x \in R : x <= n  BY <1>5
  <2> HIDE DEF R
  <2> QED  BY <1>5, <2>1, MaxIs
<1>7. U = {0} \cup {Max({0} \cup StoodIn(l, p)) : l \in {l \in LogNo : p \in CountsIn(l)}}
  BY <1>3
<1>8. U \subseteq {0} \cup R  BY <1>4, <1>5, <1>7 DEF Counting
<1>9. \A x \in R : \E u \in U : x <= u  BY <1>4, <1>5, <1>7 DEF Counting
<1>10. U \in SUBSET Nat /\ U # {} /\ \A u \in U : u <= n  BY <1>5, <1>8
<1> HIDE DEF U, R
<1>11. Max(U) \in U /\ \A x \in U : x <= Max(U)  BY <1>10, MaxIs
<1>12. Max(R) \in 1..n  BY <1>5, <1>6
<1>13. Max(U) \in Nat /\ Max(R) <= Max(U)
  <2>1. PICK u \in U : Max(R) <= u  BY <1>6, <1>9
  <2>2. Max(R) \in Nat
    <3> DEFINE m == Max(R)
    <3>1. m \in 1..n  BY <1>12
    <3> HIDE DEF m
    <3>2. m \in Nat  BY <3>1
    <3> QED  BY <3>2 DEF m
  <2>3. u \in Nat /\ Max(U) \in Nat  BY <1>10, <1>11, <2>1
  <2>4. u <= Max(U)  BY <1>11, <2>1
  <2> QED  BY <2>1, <2>2, <2>3, <2>4
<1>14. Max(U) \in R  BY <1>8, <1>11, <1>12, <1>13
<1>15. Max(U) = Max(R)  BY <1>6, <1>12, <1>13, <1>14
<1> QED  BY <1>15 DEF ItemLevel, U, R

LEMMA ParsesAre ==
  ASSUME NightOK, noTables = {}, NEW p \in RaiderKeys
  PROVE  ParseRows(p) = {i \in NightPulls : night.pulls[i].kill /\ p \in night.pulls[i].who}
<1>1. \A l \in LogNo : Ranked(l) \cap ScopeOf(l) = {i \in ScopeOf(l) : night.pulls[i].kill}
  BY DEF Ranked, ScopeOf
<1>2. NightPulls = UNION {ScopeOf(l) : l \in LogNo}  BY DEF NightPulls, LogNo
<1> QED  BY <1>1, <1>2 DEF ParseRows

(* The deaths of a log, as its table would answer them. *)
DeathEntry(l, d) == [id |-> night.ids[l][d.who], at |-> When(d), fight |-> d.pull]
AllDeaths(l) == {DeathEntry(l, d) : d \in DeathsOf(l)}
FellIn(l, p) == IF p \in CountsIn(l) THEN {d \in DeathsOf(l) : d.who = p} ELSE {}
RowDeaths(p) == {d \in night.deaths : d.who = p /\ d.pull \in {i \in NightPulls : p \in CountsIn(LogOf(i))}}

LEMMA EntriesApart ==
  ASSUME NightOK, NEW l \in LogNo, NEW d \in DeathsOf(l), NEW e \in DeathsOf(l),
         DeathEntry(l, d) = DeathEntry(l, e)
  PROVE  d = e
<1>1. d \in DeathAt /\ e \in DeathAt  BY DEF DeathsOf, NightOK
<1>2. d.who \in Attendee /\ e.who \in Attendee /\ night.ids[l][d.who] = night.ids[l][e.who]
  BY <1>1 DEF DeathEntry, DeathAt
<1>3. d.who = e.who  BY <1>2, IdsName
<1>4. d.pull = e.pull /\ When(d) = When(e)  BY DEF DeathEntry
<1>5. d.pull \in Nat /\ d.tick \in Nat /\ e.tick \in Nat  BY <1>1, FigureBounds DEF DeathAt
<1>6. d.tick = e.tick  BY <1>4, <1>5 DEF When
<1> QED  BY <1>1, <1>3, <1>4, <1>6 DEF DeathAt

LEMMA DeathsCounted ==
  ASSUME NightOK, NEW l \in LogNo, NEW p \in Attendee, died[l] \subseteq AllDeaths(l)
  PROVE  /\ IsFiniteSet(FellIn(l, p)) /\ Cardinality(FellIn(l, p)) \in Nat
         /\ Cardinality(OfPerson(l, p, died[l])) \in Nat
         /\ Cardinality(OfPerson(l, p, died[l])) <= Cardinality(FellIn(l, p))
         /\ AllDeaths(l) \subseteq died[l] =>
              Cardinality(OfPerson(l, p, died[l])) = Cardinality(FellIn(l, p))
<1> DEFINE fell == FellIn(l, p)
           T == {DeathEntry(l, d) : d \in fell}
           f == [d \in fell |-> DeathEntry(l, d)]
           O == OfPerson(l, p, died[l])
<1>1. fell \subseteq night.deaths /\ fell \subseteq DeathsOf(l)  BY DEF FellIn, DeathsOf
<1>2. IsFiniteSet(fell) /\ Cardinality(fell) \in Nat
  <2>1. IsFiniteSet(night.deaths)  BY DEF NightOK
  <2>2. IsFiniteSet(fell)  BY <1>1, <2>1, FS_Subset
  <2> QED  BY <2>2, FS_CardinalityType
<1>3. f \in Bijection(fell, T)
  <2>1. \A d, e \in fell : f[d] = f[e] => d = e  BY <1>1, EntriesApart
  <2>2. \A t \in T : \E d \in fell : f[d] = t  OBVIOUS
  <2>3. f \in [fell -> T]  OBVIOUS
  <2> HIDE DEF f, T, fell
  <2> QED  BY <2>1, <2>2, <2>3 DEF Bijection, Injection, Surjection, IsInjective
<1>4. IsFiniteSet(T) /\ Cardinality(T) = Cardinality(fell)
  <2>1. ExistsBijection(fell, T)  BY <1>3 DEF ExistsBijection
  <2> QED  BY <1>2, <2>1, FS_Bijection
<1>5. \A d \in DeathsOf(l) : /\ DeathEntry(l, d).id = night.ids[l][d.who]
                             /\ d.who \in Attendee
                             /\ ActorPerson(l, night.ids[l][d.who]) = d.who
                             /\ night.ids[l][d.who] \in EligibleIn(l) <=> d.who \in CountsIn(l)
  <2>1. TAKE d \in DeathsOf(l)
  <2>2. d.who \in Attendee  BY DEF DeathsOf, NightOK, DeathAt
  <2> QED  BY <2>2, IdsName DEF DeathEntry
<1>6. O \subseteq T
  <2>1. SUFFICES ASSUME NEW e \in O PROVE e \in T  OBVIOUS
  <2>2. e \in died[l] /\ e.id \in EligibleIn(l) /\ ActorPerson(l, e.id) = p  BY <2>1 DEF OfPerson
  <2>3. PICK d \in DeathsOf(l) : e = DeathEntry(l, d)  BY <2>2 DEF AllDeaths
  <2>4. d.who = p /\ p \in CountsIn(l)  BY <1>5, <2>2, <2>3
  <2> QED  BY <2>3, <2>4 DEF FellIn
<1>7. AllDeaths(l) \subseteq died[l] => O = T
  <2>1. SUFFICES ASSUME AllDeaths(l) \subseteq died[l], NEW e \in T PROVE e \in O  BY <1>6
  <2>2. PICK d \in fell : e = DeathEntry(l, d)  BY <2>1
  <2>3. d \in DeathsOf(l) /\ d.who = p /\ p \in CountsIn(l)  BY DEF FellIn
  <2>4. e \in died[l]  BY <2>1, <2>2, <2>3 DEF AllDeaths
  <2> QED  BY <1>5, <2>2, <2>3, <2>4 DEF OfPerson
<1>8. IsFiniteSet(O) /\ Cardinality(O) <= Cardinality(T)
  <2> HIDE DEF O, T
  <2> QED  BY <1>4, <1>6, FS_Subset
<1>9. Cardinality(O) \in Nat  BY <1>8, FS_CardinalityType
<1> QED  BY <1>2, <1>4, <1>7, <1>8, <1>9

LEMMA RowDeathsAre ==
  ASSUME NightOK, NEW p \in Attendee, \A l \in LogNo : died[l] \subseteq AllDeaths(l)
  PROVE  Cardinality(RowDeaths(p)) = Cardinality(FellIn(1, p)) + Cardinality(FellIn(2, p))
<1>0. 1 \in LogNo /\ 2 \in LogNo /\ \A l \in LogNo : l = 1 \/ l = 2  BY DEF LogNo
<1>1. \A l \in LogNo : IsFiniteSet(FellIn(l, p)) /\ Cardinality(FellIn(l, p)) \in Nat
  BY DeathsCounted
<1>2. \A l \in LogNo : ScopeOf(l) = {i \in NightPulls : LogOf(i) = l}  BY Scopes
<1>3. \A i \in NightPulls : LogOf(i) = 1 \/ LogOf(i) = 2  BY DEF LogOf
<1>4. FellIn(1, p) \cap FellIn(2, p) = {}  BY <1>0, <1>2 DEF FellIn, DeathsOf
<1>5. RowDeaths(p) = FellIn(1, p) \cup FellIn(2, p)
  BY <1>0, <1>2, <1>3 DEF FellIn, DeathsOf, RowDeaths
<1>6. Cardinality(FellIn(1, p) \cup FellIn(2, p)) =
        Cardinality(FellIn(1, p)) + Cardinality(FellIn(2, p)) - Cardinality({})
  BY <1>0, <1>1, <1>4, FS_Union
<1>7. Cardinality({}) = 0  BY FS_EmptySet
<1>8. Cardinality(FellIn(1, p)) \in Nat /\ Cardinality(FellIn(2, p)) \in Nat  BY <1>0, <1>1
<1> QED  BY <1>5, <1>6, <1>7, <1>8

LEMMA DeathsAre ==
  ASSUME NightOK, NEW p \in Attendee, \A l \in LogNo : died[l] \subseteq AllDeaths(l)
  PROVE  /\ DeathCount(p) <= Cardinality(RowDeaths(p))
         /\ (\A l \in LogNo : AllDeaths(l) \subseteq died[l]) => DeathCount(p) = Cardinality(RowDeaths(p))
<1> DEFINE o(l) == Cardinality(OfPerson(l, p, died[l]))
           c(l) == Cardinality(FellIn(l, p))
<1>0. 1 \in LogNo /\ 2 \in LogNo /\ \A l \in LogNo : l = 1 \/ l = 2  BY DEF LogNo
<1>1. \A l \in LogNo : /\ o(l) \in Nat /\ c(l) \in Nat /\ o(l) <= c(l)
                       /\ AllDeaths(l) \subseteq died[l] => o(l) = c(l)
  BY DeathsCounted
<1>2. DeathCount(p) = o(1) + o(2)
  BY <1>1, BothDeaths
<1>3. Cardinality(RowDeaths(p)) = c(1) + c(2)  BY RowDeathsAre
<1> HIDE DEF o, c
<1> QED  BY <1>0, <1>1, <1>2, <1>3

(* The kills of the night in the order the card gives them. *)
NightKills == {i \in NightPulls : night.pulls[i].kill}
EarlierKills(i) == {j \in NightKills : KillsEarlier(j, i)}
RankOf(i) == Cardinality(EarlierKills(i)) + 1

LEMMA Ordered ==
  ASSUME NightOK
  PROVE  /\ \A i \in NightKills : ~KillsEarlier(i, i)
         /\ \A i, j \in NightKills : i # j => KillsEarlier(i, j) \/ KillsEarlier(j, i)
         /\ \A i, j, k \in NightKills : KillsEarlier(i, j) /\ KillsEarlier(j, k) => KillsEarlier(i, k)
<1>1. PICK n \in Nat : NightPulls \subseteq 1..n  BY Scopes
<1>2. NightKills \subseteq Nat
  <2>1. 1..n \subseteq Nat  OBVIOUS
  <2> QED  BY <1>1, <2>1 DEF NightKills
<1>3. \A i \in NightKills : RelStart(i) \in Int  BY <1>2 DEF RelStart, NightOK
<1> QED  BY <1>2, <1>3 DEF KillsEarlier

LEMMA RanksAre ==
  ASSUME NightOK
  PROVE  /\ IsFiniteSet(NightKills) /\ Cardinality(NightKills) \in Nat
         /\ \A i \in NightKills : RankOf(i) \in 1..Cardinality(NightKills)
         /\ \A i, j \in NightKills : RankOf(i) = RankOf(j) => i = j
         /\ \A n \in 1..Cardinality(NightKills) : \E i \in NightKills : RankOf(i) = n
<1> DEFINE K == Cardinality(NightKills)
<1>1. IsFiniteSet(NightKills)
  <2>1. IsFiniteSet(NightPulls)  BY Scopes
  <2>2. NightKills \in SUBSET NightPulls  BY DEF NightKills
  <2> QED  BY <2>1, <2>2, FS_Subset
<1>2. K \in Nat  BY <1>1, FS_CardinalityType
<1>3. ASSUME NEW i \in NightKills
      PROVE  IsFiniteSet(EarlierKills(i)) /\ Cardinality(EarlierKills(i)) \in Nat
  <2>1. EarlierKills(i) \in SUBSET NightKills  BY DEF EarlierKills
  <2>2. IsFiniteSet(EarlierKills(i))  BY <1>1, <2>1, FS_Subset
  <2> QED  BY <2>2, FS_CardinalityType
<1>4. ASSUME NEW i \in NightKills PROVE Cardinality(EarlierKills(i)) < K
  <2>1. EarlierKills(i) \in SUBSET NightKills  BY DEF EarlierKills
  <2>2. EarlierKills(i) # NightKills  BY Ordered DEF EarlierKills
  <2>3. Cardinality(EarlierKills(i)) <= K /\ (K = Cardinality(EarlierKills(i)) => NightKills = EarlierKills(i))
    BY <1>1, <2>1, FS_Subset
  <2> QED  BY <1>2, <1>3, <2>2, <2>3
<1>5. ASSUME NEW i \in NightKills, NEW j \in NightKills, KillsEarlier(i, j)
      PROVE  RankOf(i) < RankOf(j)
  <2> DEFINE I == EarlierKills(i)  J == EarlierKills(j)
  <2>1. I \in SUBSET J  BY <1>5, Ordered DEF EarlierKills
  <2>2. i \in J /\ i \notin I  BY <1>5, Ordered DEF EarlierKills
  <2>3. IsFiniteSet(J) /\ Cardinality(I) \in Nat /\ Cardinality(J) \in Nat  BY <1>3
  <2> HIDE DEF I, J
  <2>4. Cardinality(I) <= Cardinality(J) /\ (Cardinality(J) = Cardinality(I) => J = I)
    BY <2>1, <2>3, FS_Subset
  <2>5. Cardinality(I) < Cardinality(J)  BY <2>2, <2>3, <2>4
  <2> QED  BY <2>3, <2>5 DEF RankOf, I, J
<1>6. \A i \in NightKills : RankOf(i) \in 1..K
  <2>1. TAKE i \in NightKills
  <2>2. Cardinality(EarlierKills(i)) \in Nat /\ Cardinality(EarlierKills(i)) < K  BY <1>3, <1>4
  <2> HIDE DEF K
  <2> QED  BY <1>2, <2>2 DEF RankOf
<1>7. \A i, j \in NightKills : RankOf(i) = RankOf(j) => i = j
  <2>1. SUFFICES ASSUME NEW i \in NightKills, NEW j \in NightKills, RankOf(i) = RankOf(j), i # j
                 PROVE  FALSE
    OBVIOUS
  <2>2. RankOf(i) < RankOf(j) \/ RankOf(j) < RankOf(i)  BY <1>5, <2>1, Ordered
  <2>3. RankOf(i) \in Nat /\ RankOf(j) \in Nat  BY <1>3 DEF RankOf
  <2> QED  BY <2>1, <2>2, <2>3
<1>8. \A n \in 1..K : \E i \in NightKills : RankOf(i) = n
  <2> DEFINE f == [i \in NightKills |-> RankOf(i)]
  <2>1. f \in [NightKills -> 1..K]  BY <1>6
  <2>2. \A i, j \in NightKills : f[i] = f[j] => i = j  BY <1>7
  <2>3. IsFiniteSet(1..K) /\ Cardinality(1..K) = K
    <3> HIDE DEF K
    <3>1. 1 \in Int /\ K \in Int  BY <1>2
    <3>2. IsFiniteSet(1..K) /\ Cardinality(1..K) = IF 1 > K THEN 0 ELSE K - 1 + 1
      BY <3>1, FS_Interval
    <3> QED  BY <1>2, <3>2
  <2> HIDE DEF f
  <2>4. f \in Injection(NightKills, 1..K)  BY <2>1, <2>2 DEF Injection, IsInjective
  <2>5. f \in Surjection(NightKills, 1..K)  BY <2>3, <2>4, FS_Injection
  <2> QED  BY <2>5 DEF Surjection, f
<1> QED  BY <1>1, <1>2, <1>6, <1>7, <1>8

LEMMA BossesAre ==
  ASSUME NightOK, NEW b
  PROVE  (\E n \in DOMAIN BossesKilled : BossesKilled[n] = b) <=>
           \E i \in NightKills : night.pulls[i].boss = b
<1>1. BossesKilled = [n \in 1..Cardinality(NightKills) |->
                        night.pulls[CHOOSE i \in NightKills : RankOf(i) = n].boss]
  BY DEF BossesKilled, NightKills, RankOf, EarlierKills
<1>2. \A n \in 1..Cardinality(NightKills) :
        /\ (CHOOSE i \in NightKills : RankOf(i) = n) \in NightKills
        /\ RankOf(CHOOSE i \in NightKills : RankOf(i) = n) = n
  BY RanksAre
<1>3. \A i \in NightKills : (CHOOSE j \in NightKills : RankOf(j) = RankOf(i)) = i
  BY RanksAre
<1>4. \A i \in NightKills : RankOf(i) \in 1..Cardinality(NightKills)  BY RanksAre
<1>5. ASSUME NEW i \in NightKills, night.pulls[i].boss = b
      PROVE  \E n \in DOMAIN BossesKilled : BossesKilled[n] = b
  BY <1>1, <1>3, <1>4, <1>5
<1> QED  BY <1>1, <1>2, <1>5

LEMMA BossPulls ==
  ASSUME NightOK, NEW b
  PROVE  /\ Cardinality(PullsOn(b)) \in Nat /\ Cardinality(Wipes(b)) \in Nat
         /\ Cardinality(Wipes(b)) <= Cardinality(PullsOn(b))
         /\ Cardinality(PullsOn(b)) <= Cardinality(NightPulls)
         /\ Cardinality(NightPulls) \in Nat
         /\ Wipes(b) = {} <=> Cardinality(Wipes(b)) = 0
<1>1. IsFiniteSet(NightPulls)  BY Scopes
<1>2. PullsOn(b) \in SUBSET NightPulls /\ Wipes(b) \in SUBSET PullsOn(b)  BY DEF PullsOn, Wipes
<1>3. IsFiniteSet(PullsOn(b)) /\ Cardinality(PullsOn(b)) <= Cardinality(NightPulls)
  BY <1>1, <1>2, FS_Subset
<1>4. IsFiniteSet(Wipes(b)) /\ Cardinality(Wipes(b)) <= Cardinality(PullsOn(b))
  BY <1>2, <1>3, FS_Subset
<1>5. Cardinality(PullsOn(b)) \in Nat /\ Cardinality(Wipes(b)) \in Nat /\ Cardinality(NightPulls) \in Nat
  BY <1>1, <1>3, <1>4, FS_CardinalityType
<1>6. Wipes(b) = {} <=> Cardinality(Wipes(b)) = 0  BY <1>4, FS_EmptySet
<1> QED  BY <1>3, <1>4, <1>5, <1>6

LEMMA MostOf ==
  ASSUME NEW S, S # {}, NEW v, \A x \in S : v[x] \in Nat, NEW n \in Nat, \A x \in S : v[x] <= n
  PROVE  \E x \in S : \A y \in S : v[y] <= v[x]
<1> DEFINE V == {v[x] : x \in S}
<1>1. V \in SUBSET Nat /\ V # {} /\ \A m \in V : m <= n  OBVIOUS
<1> HIDE DEF V
<1>2. Max(V) \in V /\ \A m \in V : m <= Max(V)  BY <1>1, MaxIs
<1> QED  BY <1>2 DEF V

LEMMA ProgIs ==
  ASSUME NightOK
  PROVE  ProgEncounter = {} <=> \A i \in NightPulls : night.pulls[i].kill
<1> DEFINE w == [b \in Pulled |-> Cardinality(Wipes(b))]
           q == [b \in Pulled |-> Cardinality(PullsOn(b))]
<1>0. PICK n \in Nat : \A i \in NightPulls : night.pulls[i] \in SomePull
  BY Scopes
<1>1. CASE \A i \in NightPulls : night.pulls[i].kill
  BY <1>1 DEF ProgEncounter, Wipes, PullsOn
<1>2. ASSUME NEW i \in NightPulls, ~night.pulls[i].kill PROVE ProgEncounter # {}
  <2>1. night.pulls[i].boss \in Pulled /\ i \in Wipes(night.pulls[i].boss)
    BY <1>2 DEF Pulled, Wipes, PullsOn
  <2>2. \A b \in Pulled : /\ w[b] \in Nat /\ q[b] \in Nat
                          /\ w[b] <= Cardinality(NightPulls) /\ q[b] <= Cardinality(NightPulls)
                          /\ Wipes(b) = {} <=> w[b] = 0
    BY BossPulls
  <2>3. Cardinality(NightPulls) \in Nat  BY BossPulls
  <2> HIDE DEF w, q
  <2>4. PICK most \in Pulled : \A c \in Pulled : w[c] <= w[most]  BY <2>1, <2>2, <2>3, MostOf
  <2> DEFINE S == {c \in Pulled : w[c] = w[most]}
  <2>5. \E b \in S : \A c \in S : q[c] <= q[b]
    <3>1. S # {} /\ \A c \in S : q[c] \in Nat /\ q[c] <= Cardinality(NightPulls)  BY <2>2, <2>4
    <3> HIDE DEF S
    <3> QED  BY <2>3, <3>1, MostOf
  <2>6. PICK b \in S : \A c \in S : q[c] <= q[b]  BY <2>5
  <2>7. b \in Pulled /\ w[b] = w[most]  BY <2>6
  <2>8. w[b] # 0  BY <2>1, <2>2, <2>4, <2>7
  <2>9. \A c \in Pulled : w[c] < w[b] \/ (w[c] = w[b] /\ q[c] <= q[b])
    BY <2>2, <2>4, <2>6, <2>7
  <2>10. \A c \in Pulled : w[c] = Cardinality(Wipes(c)) /\ q[c] = Cardinality(PullsOn(c))
    BY DEF w, q
  <2>11. Wipes(b) # {}  BY <2>2, <2>7, <2>8
  <2>12. b \in ProgEncounter  BY <2>7, <2>9, <2>10, <2>11 DEF ProgEncounter
  <2> QED  BY <2>12
<1> QED  BY <1>0, <1>1, <1>2 DEF SomePull

-----------------------------------------------------------------------------
(* What is read of a night, and what can be missed. *)

(* A death is read once the walk is past it; a log once it is left, unless  *)
(* it was cut short.                                                        *)
ReadingInv ==
  /\ reading \in 0..3 /\ pagesRead \in Nat /\ deathsFrom \in Nat
  /\ reading \in LogNo => pagesRead + 1 <= MaxPages
  /\ died \in [LogNo -> SUBSET (UNION {AllDeaths(l) : l \in LogNo})]
  /\ \A l \in LogNo : died[l] \subseteq AllDeaths(l)
  /\ cutShort = {} => \A l \in LogNo :
       /\ reading = l => \A x \in AllDeaths(l) : x.at < deathsFrom => x \in died[l]
       /\ reading > l => AllDeaths(l) \subseteq died[l]

FiguresInv ==
  /\ NightOK /\ ReadingInv
  /\ figures # {} => reading = 3 /\ FiguresTrue

CardTrue(f) == /\ DOMAIN f.rows = CountsIn(1) \cup CountsIn(2)
               /\ \A p \in DOMAIN f.rows : RowIsTrue(p, f.rows[p])
               /\ BossesAreTrue(f)

LEMMA SummaryIsTrue ==
  ASSUME NightOK, ReadingInv, reading = 3
  PROVE  CardTrue(Summarise)
<1> DEFINE f == Summarise
<1>1. /\ DOMAIN f.rows = RaiderKeys /\ f.bosses = BossesKilled /\ f.unkilled = Unkilled
      /\ f.pulls = PullCounts /\ f.prog = ProgEncounter
  BY DEF Summarise, RaiderRows
<1>2. \A p \in RaiderKeys : /\ f.rows[p].damage = Totals(p) /\ f.rows[p].deaths = DeathCount(p)
                            /\ f.rows[p].ilvl = ItemLevel(p) /\ f.rows[p].parses = ParseRows(p)
  BY DEF Summarise, RaiderRows
<1> HIDE DEF f
<1>3. DOMAIN f.rows = CountsIn(1) \cup CountsIn(2)  BY <1>1, Keys
<1>4. ASSUME NEW p \in DOMAIN f.rows
      PROVE  RowIsTrue(p, f.rows[p])
  <2>1. p \in RaiderKeys /\ p \in Attendee /\ p \in CountsIn(1) \cup CountsIn(2)
    BY <1>1, Keys
  <2>2. \A l \in LogNo : died[l] \subseteq AllDeaths(l)  BY DEF ReadingInv
  <2>3. cutShort = {} => \A l \in LogNo : AllDeaths(l) \subseteq died[l]
    BY DEF ReadingInv, LogNo
  <2>4. /\ DeathCount(p) <= Cardinality(RowDeaths(p))
        /\ cutShort = {} => DeathCount(p) = Cardinality(RowDeaths(p))
    BY <2>1, <2>2, <2>3, DeathsAre
  <2>5. noTables = {} => /\ Totals(p) = Cardinality(RowPulls(p)) /\ ItemLevel(p) = Max(RowPulls(p))
                         /\ ParseRows(p) = {i \in NightPulls : /\ night.pulls[i].kill
                                                               /\ p \in night.pulls[i].who}
    BY <2>1, DamageIs, ItemLevelIs, ParsesAre
  <2> QED  BY <1>2, <2>1, <2>4, <2>5 DEF RowIsTrue, RowPulls, RowDeaths
<1>5. \A c, d \in f.pulls : /\ \E i \in NightPulls : night.pulls[i].boss = c.boss
                            /\ c.boss = d.boss => c = d
  BY <1>1 DEF PullCounts, Pulled
<1>6. ASSUME NEW i \in NightPulls
      PROVE  LET b == night.pulls[i].boss IN
               /\ (\E n \in DOMAIN f.bosses : f.bosses[n] = b) <=> ~\E u \in f.unkilled : u.boss = b
               /\ \E c \in f.pulls : /\ c.boss = b /\ c.wipes <= c.pulls
                                     /\ c.pulls = Cardinality(PullsOn(b))
  <2> DEFINE b == night.pulls[i].boss
  <2>1. b \in Pulled  BY DEF Pulled
  <2>2. Fell(b) <=> \E j \in NightKills : night.pulls[j].boss = b
    BY DEF Fell, PullsOn, NightKills
  <2> HIDE DEF b
  <2>3. (\E u \in Unkilled : u.boss = b) <=> ~Fell(b)
    <3>1. \A u \in Unkilled : ~Fell(u.boss)  BY DEF Unkilled
    <3>2. ~Fell(b) => [boss |-> b, pulls |-> Cardinality(PullsOn(b))] \in Unkilled
      BY <2>1 DEF Unkilled
    <3> QED  BY <3>1, <3>2
  <2>4. (\E n \in DOMAIN f.bosses : f.bosses[n] = b) <=> Fell(b)
    BY <1>1, <2>2, BossesAre
  <2>5. \E c \in f.pulls : /\ c.boss = b /\ c.wipes <= c.pulls
                           /\ c.pulls = Cardinality(PullsOn(b))
    <3> DEFINE c == [boss |-> b, pulls |-> Cardinality(PullsOn(b)),
                     wipes |-> Cardinality(Wipes(b)), downed |-> Fell(b)]
    <3>1. c \in f.pulls  BY <1>1, <2>1 DEF PullCounts
    <3>2. c.wipes <= c.pulls  BY BossPulls
    <3> QED  BY <3>1, <3>2
  <2> QED  BY <1>1, <2>3, <2>4, <2>5 DEF b
<1>7. f.prog = {} <=> \A i \in NightPulls : night.pulls[i].kill  BY <1>1, ProgIs
<1>8. BossesAreTrue(f)  BY <1>5, <1>6, <1>7 DEF BossesAreTrue
<1>9. CardTrue(f)  BY <1>3, <1>4, <1>8 DEF CardTrue
<1> QED  BY <1>9 DEF f

LEMMA FiguresStart ==
  ASSUME FiguresInit \/ FiguresIdle
  PROVE  FiguresInv
<1>1. NightOK  BY NightInit
<1>2. /\ reading \in {0, 1} /\ deathsFrom = 0 /\ pagesRead = 0 /\ died = [l \in LogNo |-> {}]
      /\ noTables = {} /\ figures = {} /\ cutShort = {}
  BY DEF FiguresInit, FiguresIdle
<1>3. \A l \in LogNo : \A x \in AllDeaths(l) : x.at \in Nat
  BY <1>1, FigureBounds DEF AllDeaths, DeathEntry, When, DeathsOf, NightOK, DeathAt
<1>4. MaxPages \in Nat /\ MaxPages > 0  BY FigureBounds
<1>5. ReadingInv  BY <1>2, <1>3, <1>4 DEF ReadingInv, LogNo
<1> QED  BY <1>1, <1>2, <1>5 DEF FiguresInv

(* The night does not change while it is read, so neither does what its     *)
(* logs hold.                                                               *)
LEMMA NightStays ==
  ASSUME UNCHANGED night
  PROVE  /\ NightOK' <=> NightOK
         /\ \A l \in LogNo : AllDeaths(l)' = AllDeaths(l)
<1>1. NightOK' <=> NightOK  BY DEF NightOK
<1>2. \A l \in LogNo : ScopeOf(l)' = ScopeOf(l)  BY DEF ScopeOf, PullsOf, LogOf
<1>3. \A l \in LogNo : DeathsOf(l)' = DeathsOf(l)  BY <1>2 DEF DeathsOf
<1>4. \A l \in LogNo : AllDeaths(l)' = AllDeaths(l)  BY <1>3 DEF AllDeaths, DeathEntry
<1> QED  BY <1>1, <1>4

LEMMA AnswersAre ==
  ASSUME NightOK, NEW l \in LogNo, deathsFrom \in Nat, NEW answer \in Answered(l)
  PROVE  /\ StillToRead(l) = {x \in AllDeaths(l) : x.at >= deathsFrom}
         /\ answer \subseteq StillToRead(l)
         /\ ~Truncated(answer) => answer = StillToRead(l)
         /\ Truncated(answer) => /\ Max({d.at : d \in answer}) \in Nat
                                 /\ \A d \in answer : d.at <= Max({e.at : e \in answer})
                                 /\ \A e \in StillToRead(l) \ answer : Max({d.at : d \in answer}) <= e.at
<1> DEFINE S == StillToRead(l)
<1>1. S = {x \in AllDeaths(l) : x.at >= deathsFrom}
  BY DEF StillToRead, AllDeaths, DeathEntry
<1>2. answer \subseteq S  BY DEF Answered
<1>3. IsFiniteSet(S)
  <2> DEFINE f == [d \in DeathsOf(l) |-> DeathEntry(l, d)]
  <2>1. IsFiniteSet(DeathsOf(l))
    <3>1. IsFiniteSet(night.deaths)  BY DEF NightOK
    <3>2. DeathsOf(l) \in SUBSET night.deaths  BY DEF DeathsOf
    <3> QED  BY <3>1, <3>2, FS_Subset
  <2>2. f \in Surjection(DeathsOf(l), AllDeaths(l))
    <3>1. f \in [DeathsOf(l) -> AllDeaths(l)]  BY DEF AllDeaths
    <3>2. \A t \in AllDeaths(l) : \E d \in DeathsOf(l) : f[d] = t  BY DEF AllDeaths
    <3> HIDE DEF f
    <3> QED  BY <3>1, <3>2 DEF Surjection
  <2> HIDE DEF f
  <2>3. IsFiniteSet(AllDeaths(l))  BY <2>1, <2>2, FS_Surjection
  <2>4. S \in SUBSET AllDeaths(l)  BY <1>1
  <2> HIDE DEF S
  <2> QED  BY <2>3, <2>4, FS_Subset
<1>4. Cardinality(S) \in Nat  BY <1>3, FS_CardinalityType
<1>5. Cardinality(answer) = IF PageCap <= Cardinality(S) THEN PageCap ELSE Cardinality(S)
  BY <1>4, FigureBounds, MinOfTwo DEF Answered
<1>6. ASSUME ~Truncated(answer) PROVE answer = S
  <2>1. ~(Cardinality(answer) >= PageCap)  BY <1>6 DEF Truncated
  <2>2. Cardinality(answer) = Cardinality(S)
    <3> DEFINE s == Cardinality(S)  a == Cardinality(answer)
    <3>1. s \in Nat /\ PageCap \in Nat /\ a = (IF PageCap <= s THEN PageCap ELSE s) /\ ~(a >= PageCap)
      BY <1>4, <1>5, <2>1, FigureBounds
    <3> HIDE DEF s, a
    <3>2. a = s  BY <3>1
    <3> QED  BY <3>2 DEF s, a
  <2> HIDE DEF S
  <2>3. answer \in SUBSET S  BY <1>2
  <2> QED  BY <1>3, <2>2, <2>3, FS_Subset
<1>7. ASSUME Truncated(answer)
      PROVE  /\ Max({d.at : d \in answer}) \in {d.at : d \in answer}
             /\ Max({d.at : d \in answer}) \in Nat
             /\ \A d \in answer : d.at <= Max({e.at : e \in answer})
  <2> DEFINE A == {d.at : d \in answer}
  <2>1. Cardinality(answer) # 0  BY <1>7, FigureBounds DEF Truncated
  <2>2. answer # {}  BY <2>1, FS_EmptySet
  <2>3. \A x \in AllDeaths(l) : x.at \in 0..(2 * FigurePulls + 1)
    BY FigureBounds DEF AllDeaths, DeathEntry, When, DeathsOf, NightOK, DeathAt
  <2>4. A \subseteq 0..(2 * FigurePulls + 1)  BY <1>1, <1>2, <2>3
  <2>5. A \in SUBSET Nat /\ A # {} /\ \A x \in A : x <= 2 * FigurePulls + 1  BY <2>2, <2>4
  <2>6. 2 * FigurePulls + 1 \in Nat  BY FigureBounds
  <2> HIDE DEF A
  <2>7. Max(A) \in A /\ \A x \in A : x <= Max(A)  BY <2>5, <2>6, MaxIs
  <2> QED  BY <2>5, <2>7 DEF A
<1>8. ASSUME Truncated(answer)
      PROVE  \A e \in S \ answer : Max({d.at : d \in answer}) <= e.at
  <2>1. PICK d \in answer : d.at = Max({x.at : x \in answer})  BY <1>7, <1>8
  <2>2. \A e \in S \ answer : d.at <= e.at  BY DEF Answered
  <2> QED  BY <2>1, <2>2
<1> QED  BY <1>1, <1>2, <1>6, <1>7, <1>8

LEMMA ReadingTables ==
  ASSUME FiguresInv, ReadsTables
  PROVE  FiguresInv'
<1>1. UNCHANGED night /\ NightOK'  BY NightStays DEF ReadsTables, FiguresInv
<1>2. \A l \in LogNo : AllDeaths(l)' = AllDeaths(l)  BY <1>1, NightStays
<1>3. \A l \in LogNo : \A x \in AllDeaths(l) : x.at \in Nat /\ x.at >= 1
  BY FigureBounds DEF FiguresInv, AllDeaths, DeathEntry, When, DeathsOf, NightOK, DeathAt
<1>4. ReadingInv /\ figures = {}  BY DEF FiguresInv, ReadsTables, LogNo
<1>5. /\ UNCHANGED <<reading, pagesRead, died, cutShort, figures>> /\ deathsFrom' = 1
      /\ reading \in LogNo
  BY DEF ReadsTables
<1>6. ReadingInv'
  <2>1. reading' \in 0..3 /\ pagesRead' \in Nat /\ deathsFrom' \in Nat
    BY <1>4, <1>5 DEF ReadingInv
  <2>2. reading' \in LogNo => pagesRead' + 1 <= MaxPages  BY <1>4, <1>5 DEF ReadingInv
  <2>3. died' \in [LogNo -> SUBSET (UNION {AllDeaths(l)' : l \in LogNo})]
    BY <1>2, <1>4, <1>5 DEF ReadingInv
  <2>4. \A l \in LogNo : died'[l] \subseteq AllDeaths(l)'  BY <1>2, <1>4, <1>5 DEF ReadingInv
  <2>5. cutShort' = {} => \A l \in LogNo :
          /\ reading' = l => \A x \in AllDeaths(l)' : x.at < deathsFrom' => x \in died'[l]
          /\ reading' > l => AllDeaths(l)' \subseteq died'[l]
    BY <1>2, <1>3, <1>4, <1>5 DEF ReadingInv
  <2> QED  BY <2>1, <2>2, <2>3, <2>4, <2>5 DEF ReadingInv
<1> QED  BY <1>1, <1>4, <1>5, <1>6 DEF FiguresInv

LEMMA ReadingDeaths ==
  ASSUME FiguresInv, ReadsDeaths
  PROVE  FiguresInv'
<1>1. UNCHANGED night /\ NightOK'  BY NightStays DEF ReadsDeaths, FiguresInv
<1>2. \A l \in LogNo : AllDeaths(l)' = AllDeaths(l)  BY <1>1, NightStays
<1>3. NightOK /\ ReadingInv /\ figures = {} /\ figures' = {} /\ reading \in LogNo
  BY DEF FiguresInv, ReadsDeaths, LogNo
<1> DEFINE r == reading
<1>4. PICK answer \in Answered(r) :
        /\ died' = [died EXCEPT ![r] = @ \cup answer]
        /\ IF Truncated(answer) /\ pagesRead + 1 < MaxPages
           THEN /\ deathsFrom' = NextStamp(answer) /\ pagesRead' = pagesRead + 1
                /\ UNCHANGED reading
           ELSE NextLog
        /\ LET beyond == {d \in StillToRead(r) \ answer :
                           \/ d.at = Max({e.at : e \in answer})
                           \/ pagesRead + 1 = MaxPages}
           IN cutShort' = IF beyond = {} THEN cutShort ELSE cutShort \cup {r}
  BY DEF ReadsDeaths
<1> DEFINE still == StillToRead(r)
<1>5. /\ still = {x \in AllDeaths(r) : x.at >= deathsFrom} /\ answer \subseteq still
      /\ ~Truncated(answer) => answer = still
      /\ Truncated(answer) => /\ Max({d.at : d \in answer}) \in Nat
                              /\ \A d \in answer : d.at <= Max({e.at : e \in answer})
                              /\ \A e \in still \ answer : Max({d.at : d \in answer}) <= e.at
  BY <1>3, AnswersAre DEF ReadingInv
<1>6. \A l \in LogNo : \A x \in AllDeaths(l) : x.at \in Nat
  BY <1>3, FigureBounds DEF AllDeaths, DeathEntry, When, DeathsOf, NightOK, DeathAt
<1>7. /\ died \in [LogNo -> SUBSET (UNION {AllDeaths(l) : l \in LogNo})]
      /\ \A l \in LogNo : died[l] \subseteq AllDeaths(l)
  BY <1>3 DEF ReadingInv
<1>8. /\ \A l \in LogNo : died'[l] = IF l = r THEN died[l] \cup answer ELSE died[l]
      /\ died' \in [LogNo -> SUBSET (UNION {AllDeaths(l) : l \in LogNo})]
      /\ \A l \in LogNo : died'[l] \subseteq AllDeaths(l)
  <2>1. answer \subseteq AllDeaths(r)  BY <1>5
  <2>2. \A l \in LogNo : died'[l] = IF l = r THEN died[l] \cup answer ELSE died[l]
    BY <1>3, <1>4, <1>7
  <2>3. \A l \in LogNo : died'[l] \subseteq AllDeaths(l)  BY <1>7, <2>1, <2>2
  <2>4. \A l \in LogNo : died'[l] \subseteq UNION {AllDeaths(k) : k \in LogNo}  BY <2>3
  <2>5. DOMAIN died' = LogNo /\ died' = [l \in LogNo |-> died'[l]]  BY <1>4, <1>7
  <2> QED  BY <2>2, <2>3, <2>4, <2>5
<1>9. cutShort' = {} =>
        /\ cutShort = {}
        /\ \A d \in still \ answer : d.at # Max({e.at : e \in answer}) /\ pagesRead + 1 # MaxPages
  BY <1>4
<1>10. cutShort' = {} => /\ \A x \in AllDeaths(r) : x.at < deathsFrom => x \in died[r]
                         /\ \A l \in LogNo : reading > l => AllDeaths(l) \subseteq died[l]
  BY <1>3, <1>9 DEF ReadingInv
<1> DEFINE top == Max({e.at : e \in answer})
<1>11. CASE Truncated(answer) /\ pagesRead + 1 < MaxPages
  <2>1. deathsFrom' = top + 1 /\ pagesRead' = pagesRead + 1 /\ reading' = r
    BY <1>4, <1>11 DEF NextStamp
  <2>2. /\ top \in Nat /\ \A d \in answer : d.at <= top
        /\ \A e \in still \ answer : top <= e.at
    BY <1>5, <1>11
  <2>3. /\ reading' \in 0..3 /\ pagesRead' \in Nat /\ deathsFrom' \in Nat
        /\ pagesRead' + 1 <= MaxPages
    BY <1>3, <1>11, <2>1, <2>2, FigureBounds DEF ReadingInv
  <2>4. ASSUME cutShort' = {}, NEW x \in AllDeaths(r), x.at < deathsFrom'
        PROVE  x \in died'[r]
    <3>1. x \in died[r] \/ x.at >= deathsFrom  BY <1>3, <1>6, <1>10, <2>4 DEF ReadingInv
    <3>2. CASE x \in died[r]  BY <1>3, <1>8, <3>2
    <3>3. CASE x.at >= deathsFrom
      <4>1. x \in still  BY <1>5, <2>4, <3>3
      <4>2. x.at <= top  BY <1>3, <1>6, <2>1, <2>2, <2>4
      <4>3. x \in answer
        <5>1. SUFFICES ASSUME x \notin answer PROVE FALSE  OBVIOUS
        <5>2. top <= x.at /\ x.at # top  BY <1>9, <2>2, <2>4, <4>1, <5>1
        <5> QED  BY <1>3, <1>6, <2>2, <4>2, <5>2
      <4> QED  BY <1>3, <1>8, <4>3
    <3> QED  BY <3>1, <3>2, <3>3
  <2>5. cutShort' = {} => \A l \in LogNo :
          /\ reading' = l => \A x \in AllDeaths(l)' : x.at < deathsFrom' => x \in died'[l]
          /\ reading' > l => AllDeaths(l)' \subseteq died'[l]
    BY <1>2, <1>8, <1>10, <2>1, <2>4
  <2>6. ReadingInv'  BY <1>2, <1>8, <2>3, <2>5 DEF ReadingInv
  <2> QED  BY <1>1, <1>3, <2>6 DEF FiguresInv
<1>12. CASE ~(Truncated(answer) /\ pagesRead + 1 < MaxPages)
  <2>1. /\ reading' = IF r = 1 /\ PullsOf(2) # {} THEN 2 ELSE 3
        /\ deathsFrom' = 0 /\ pagesRead' = 0
    BY <1>4, <1>12 DEF NextLog
  <2>2. r \in {1, 2} /\ reading' \in {2, 3} /\ reading' > r  BY <1>3, <2>1 DEF LogNo
  <2>3. cutShort' = {} => answer = still
    <3>1. CASE ~Truncated(answer)  BY <1>5, <3>1
    <3>2. CASE Truncated(answer)
      <4>1. pagesRead + 1 = MaxPages
        <5>1. pagesRead \in Nat /\ pagesRead + 1 <= MaxPages /\ MaxPages \in Nat
          BY <1>3, FigureBounds DEF ReadingInv
        <5> QED  BY <1>12, <3>2, <5>1
      <4> QED  BY <1>5, <1>9, <4>1
    <3> QED  BY <3>1, <3>2
  <2>4. cutShort' = {} => AllDeaths(r) \subseteq died'[r]
    <3>1. SUFFICES ASSUME cutShort' = {}, NEW x \in AllDeaths(r) PROVE x \in died'[r]  OBVIOUS
    <3>2. x \in died[r] \/ x.at >= deathsFrom  BY <1>3, <1>6, <1>10, <3>1 DEF ReadingInv
    <3>3. x.at >= deathsFrom => x \in answer  BY <1>5, <2>3, <3>1
    <3> QED  BY <1>3, <1>8, <3>2, <3>3
  <2>5. r = 1 /\ PullsOf(2) = {} => AllDeaths(2) = {}
    BY DEF AllDeaths, DeathsOf, ScopeOf
  <2>6. cutShort' = {} => \A l \in LogNo : reading' > l => AllDeaths(l) \subseteq died'[l]
    <3>1. SUFFICES ASSUME cutShort' = {}, NEW l \in LogNo, reading' > l
                   PROVE  AllDeaths(l) \subseteq died'[l]
      OBVIOUS
    <3>2. l = r \/ r > l \/ (l = 2 /\ r = 1 /\ PullsOf(2) = {})
      BY <2>1, <2>2, <3>1 DEF LogNo
    <3>3. r > l => AllDeaths(l) \subseteq died'[l]
      BY <1>8, <1>10, <2>2, <3>1
    <3> QED  BY <2>4, <2>5, <3>1, <3>2, <3>3
  <2>7. cutShort' = {} => \A l \in LogNo :
          /\ reading' = l => \A x \in AllDeaths(l)' : x.at < deathsFrom' => x \in died'[l]
          /\ reading' > l => AllDeaths(l)' \subseteq died'[l]
    BY <1>2, <1>6, <2>1, <2>6
  <2>8. MaxPages \in Nat /\ MaxPages > 0  BY FigureBounds
  <2>9. ReadingInv'  BY <1>2, <1>8, <2>1, <2>2, <2>7, <2>8 DEF ReadingInv
  <2> QED  BY <1>1, <1>3, <2>9 DEF FiguresInv
<1> QED  BY <1>11, <1>12

(* What is true of the card stays true while what it was made of stays. *)
LEMMA CardStays ==
  ASSUME UNCHANGED night, UNCHANGED noTables, UNCHANGED cutShort, NEW f
  PROVE  CardTrue(f)' <=> CardTrue(f)
<1>1. \A l : ScopeOf(l)' = ScopeOf(l)  BY DEF ScopeOf, PullsOf, LogOf
<1>2. \A i : LogOf(i)' = LogOf(i)  BY DEF LogOf
<1>3. NightPulls' = NightPulls  BY <1>1 DEF NightPulls
<1>4. \A l : RaidedIn(l)' = RaidedIn(l)  BY <1>1 DEF RaidedIn
<1>5. \A l : CountsIn(l)' = CountsIn(l)  BY <1>4 DEF CountsIn
<1>6. \A b : PullsOn(b)' = PullsOn(b)  BY <1>3 DEF PullsOn
<1>7. ASSUME NEW p, NEW row PROVE RowIsTrue(p, row)' <=> RowIsTrue(p, row)
  <2> DEFINE counted == {i \in NightPulls : p \in CountsIn(LogOf(i))}
             inPulls == {i \in counted : p \in night.pulls[i].who}
             fell == {d \in night.deaths : d.who = p /\ d.pull \in counted}
             ranked == {i \in NightPulls : night.pulls[i].kill /\ p \in night.pulls[i].who}
  <2>1. counted' = counted  BY <1>2, <1>3, <1>5
  <2>2. inPulls' = inPulls /\ fell' = fell  BY <2>1
  <2>3. ranked' = ranked  BY <1>3
  <2>4. RowIsTrue(p, row) <=>
          /\ row.deaths <= Cardinality(fell)
          /\ cutShort = {} => row.deaths = Cardinality(fell)
          /\ noTables = {} =>
               /\ row.damage = Cardinality(inPulls) /\ row.ilvl = Max(inPulls)
               /\ row.parses = ranked
    BY DEF RowIsTrue
  <2>5. RowIsTrue(p, row)' <=>
          /\ row.deaths <= Cardinality(fell')
          /\ cutShort' = {} => row.deaths = Cardinality(fell')
          /\ noTables' = {} =>
               /\ row.damage = Cardinality(inPulls') /\ row.ilvl = Max(inPulls')
               /\ row.parses = ranked'
    BY DEF RowIsTrue
  <2> HIDE DEF inPulls, fell, ranked
  <2> QED  BY <2>2, <2>3, <2>4, <2>5
<1>8. BossesAreTrue(f)' <=> BossesAreTrue(f)
  BY <1>3, <1>6 DEF BossesAreTrue
<1> QED  BY <1>5, <1>7, <1>8 DEF CardTrue

LEMMA FiguresMove ==
  ASSUME FiguresInv, [FiguresNext]_figureVars
  PROVE  FiguresInv'
<1>1. ASSUME UNCHANGED <<night, reading, deathsFrom, pagesRead, died, cutShort>>
      PROVE  NightOK' /\ ReadingInv'
  <2>1. UNCHANGED night  BY <1>1
  <2>2. NightOK' /\ \A l \in LogNo : AllDeaths(l)' = AllDeaths(l)
    BY <2>1, NightStays DEF FiguresInv
  <2>3. died' \in [LogNo -> SUBSET (UNION {AllDeaths(l)' : l \in LogNo})]
    BY <1>1, <2>2 DEF ReadingInv, FiguresInv
  <2>4. ReadingInv'  BY <1>1, <2>2, <2>3 DEF ReadingInv, FiguresInv
  <2> QED  BY <2>2, <2>4
<1>2. CASE UNCHANGED figureVars
  <2>1. /\ UNCHANGED <<night, reading, deathsFrom, pagesRead, died, cutShort>>
        /\ UNCHANGED night /\ UNCHANGED noTables /\ UNCHANGED cutShort /\ UNCHANGED figures
    BY <1>2 DEF figureVars
  <2>2. FiguresTrue' <=> FiguresTrue
    <3>1. ASSUME NEW f PROVE CardTrue(f)' <=> CardTrue(f)  BY <2>1, CardStays
    <3> QED  BY <2>1, <3>1 DEF FiguresTrue, CardTrue
  <2> QED  BY <1>1, <2>1, <2>2 DEF FiguresInv
<1>3. CASE ReadsTables  BY <1>3, ReadingTables
<1>4. CASE ReadsDeaths  BY <1>4, ReadingDeaths
<1>5. CASE Summarises
  <2>1. /\ UNCHANGED <<night, reading, deathsFrom, pagesRead, died, cutShort>> /\ reading = 3
        /\ night' = night /\ noTables' = noTables /\ died' = died
        /\ figures' = {Summarise}
    BY <1>5 DEF Summarises
  <2>2. NightOK' /\ ReadingInv'  BY <1>1, <2>1
  <2>3. FiguresTrue'
    <3>1. PICK g : g = Summarise  OBVIOUS
    <3>2. CardTrue(g)  BY <2>1, <3>1, SummaryIsTrue DEF FiguresInv
    <3>3. CardTrue(g)'
      <4>1. UNCHANGED night /\ UNCHANGED noTables /\ UNCHANGED cutShort  BY <2>1
      <4> QED  BY <3>2, <4>1, CardStays
    <3>4. figures' = {g}  BY <2>1, <3>1
    <3> QED  BY <3>3, <3>4 DEF FiguresTrue, CardTrue
  <2> QED  BY <2>1, <2>2, <2>3 DEF FiguresInv
<1> QED  BY <1>2, <1>3, <1>4, <1>5 DEF FiguresNext

FiguresSafety == (FiguresInit \/ FiguresIdle) /\ [][FiguresNext]_figureVars

(* The card of a night tells the night (recap.py): for any night, any way  *)
(* its two logs number the same people and hold other content, any roster, *)
(* pages of any length that cut ties where they like, and tables that come *)
(* back empty.                                                             *)
THEOREM CardTellsTheNight == FiguresSafety => []FiguresTrue
<1>1. FiguresInv => FiguresTrue  BY DEF FiguresInv, FiguresTrue
<1>2. FiguresInv /\ [FiguresNext]_figureVars => FiguresInv'  BY FiguresMove
<1>3. FiguresInit \/ FiguresIdle => FiguresInv  BY FiguresStart
<1> QED  BY <1>1, <1>2, <1>3, PTL DEF FiguresSafety
=============================================================================
