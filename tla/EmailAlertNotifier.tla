------------------------ MODULE EmailAlertNotifier ------------------------
(***************************************************************************)
(* The email alert service: users register alerts and switch them on and   *)
(* off, the pipeline announces the cities it has crawled, and one notifier *)
(* thread mails to the users the ads of the day that match their alerts.   *)
(* notifyNewAnnounces and the notifier share the queue works and one       *)
(* condition variable.  The notifier holds its lock from the moment it     *)
(* takes a city until it waits again.                                      *)
(* The scans are those of a client that is alone on dynamodb_access.       *)
(***************************************************************************)
EXTENDS DynamoTable, Sequences

CONSTANTS
  Cities,
  Users,
  NAlerts,       \* the IDs of alerts are 1..NAlerts
  NAds,          \* the IDs of ads are 1..NAds
  Alerts,        \* the alerts users register: CITY, USERID and the criteria
  AdItems,       \* the ads adapt_model writes, without their FIRST_TIMESTAMP
  MaxWorks,      \* bound: cities waiting in works
  MaxDay,        \* bound: the days that pass
  OldAds,        \* the sets of ads there may be at the start
  MaxChanges,    \* bound: changes of alerts and ads
  Failures       \* whether exceptions and restarts happen

ASSUME SizesAssumption ==
  /\ NAlerts \in Nat /\ NAds \in Nat /\ MaxWorks \in Nat
  /\ MaxDay \in Nat \ {0} /\ MaxChanges \in Nat
  /\ Failures \in BOOLEAN /\ OldAds \subseteq SUBSET (1..NAds)

(* What registerEmailAlert and adapt_model write always: the handler sets the city and the user of
   an alert itself, and the IDs in DUPLICATES are numbers. *)
ASSUME ItemsAssumption ==
  /\ Cities # {}
  /\ \A alert \in Alerts : {"CITY", "USERID"} \subseteq DOMAIN alert /\ alert.USERID \in Users
  /\ \A ad \in AdItems : "DUPLICATES" \in DOMAIN ad => ad.DUPLICATES \subseteq Nat

AlertIds == 1..NAlerts
AdIds    == 1..NAds
Statuses == {"ON", "OFF", "DELETED"}

VARIABLES
  alerts,             \* alert_tablename, in DynamoDB
  ads,                \* ad_tablename, FR_SUMMARY, in DynamoDB
  today,
  works,              \* the queue of cities
  npc,                \* where the notifier is
  city,               \* checkAndNotifyUsers' city
  active_alert_list,  \* the alerts it has scanned
  datenow,            \* the day whose ads it selects
  new_ads,            \* the ads it has scanned
  lastKey,            \* where its current scan is
  userToNotify,       \* the users not mailed yet, with their ads_list
  left,               \* the pairs <<ad, alert>> that the loops over new_ads have still to look at
  changes,            \* how many there were
  \* History of the current run: a scan of it failed, what it could have found, who it mailed.
  failed,
  due,                \* the pairs <<alert, ad>> of city that matched all along
  everOn, everNew,    \* the alerts ON, and the ads there, at some moment
  notified            \* the pairs <<user, ad>> mailed in all runs, or declared duplicates in it

tables   == <<alerts, ads, today>>
notifier == <<city, active_alert_list, datenow, new_ads, lastKey, userToNotify, left>>
history  == <<failed, due, everOn, everNew, notified>>
vars     == <<tables, works, npc, notifier, changes, history>>

Nobody == [u \in {} |-> <<>>]

(* The notifier has the lock: it is scanning, composing the lists, or mailing. *)
Holding == {"alerts", "ads", "prepare", "listing", "mailing"}

-----------------------------------------------------------------------------
ads_match(ad, alert) ==
  /\ ad.PROPERTY_TYPE = alert.PROPERTY_TYPE
  /\ ad.SEARCH_TYPE = alert.SEARCH_TYPE
  /\ {"ROOMS"} \subseteq DOMAIN ad \cap DOMAIN alert => ad.ROOMS = alert.ROOMS
  /\ alert.PRICE_MIN <= ad.PRICE /\ ad.PRICE <= alert.PRICE_MAX
  /\ alert.AREA_MIN <= ad.SURFACE /\ ad.SURFACE <= alert.AREA_MAX

DuplicatesOf(ad) == IF "DUPLICATES" \in DOMAIN ad THEN ad.DUPLICATES ELSE {}

ActiveAlerts(tbl, c)   == Matching(tbl, [CITY |-> c, ALERT_STATUS |-> "ON"])
AdsOfCity(tbl, c)      == Matching(tbl, [CITY |-> c])
AdsOfDay(tbl, c, day)  == Matching(tbl, [CITY |-> c, FIRST_TIMESTAMP |-> day])

-----------------------------------------------------------------------------
(* The pairs of alerts and ads of city c that match *)
Pairs(alertTable, adTable, c) ==
  {p \in ActiveAlerts(alertTable, c) \X AdsOfCity(adTable, c) :
     ads_match(adTable[p[2]], alertTable[p[1]])}

Init ==
  /\ alerts \in UNION {[ids -> {Merge(a, [ALERT_STATUS |-> "ON"]) : a \in Alerts}] :
                         ids \in SUBSET AlertIds}
  /\ ads \in UNION {[ids -> {Merge(item, [FIRST_TIMESTAMP |-> 1]) : item \in AdItems}] : ids \in OldAds}
  /\ today = 1
  /\ works = <<>>
  /\ npc = "ready"
  /\ city = CHOOSE c \in Cities : TRUE
  /\ active_alert_list = EmptyTable /\ new_ads = EmptyTable
  /\ datenow = 0 /\ lastKey = NoKey
  /\ userToNotify = Nobody /\ left = {}
  /\ changes = 0
  /\ failed = FALSE /\ due = {} /\ everOn = {} /\ everNew = {} /\ notified = {}

(* What a run could have found follows every change of the tables. *)
Remember ==
  /\ due'     = due \cap Pairs(alerts', ads', city)
  /\ everOn'  = IF npc \in Holding THEN everOn \cup ActiveAlerts(alerts', city) ELSE {}
  /\ everNew' = IF npc \in Holding THEN everNew \cup AdsOfCity(ads', city) ELSE {}
  /\ UNCHANGED <<failed, notified>>

-----------------------------------------------------------------------------
(* The calls of the users.  The ID of an alert is the hash of its user and of the time. *)
registerEmailAlert(id, alert) ==
  /\ changes < MaxChanges /\ changes' = changes + 1
  /\ id \in AlertIds \ DOMAIN alerts
  /\ alerts' = PutItem(alerts, id, Merge(alert, [ALERT_STATUS |-> "ON"]))
  /\ UNCHANGED <<ads, today, works, npc, notifier>>
  /\ Remember

changeAlertStatus(alert_id, alert_status) ==
  /\ changes < MaxChanges /\ changes' = changes + 1
  /\ alerts' = UpdateItem(alerts, alert_id, [ALERT_STATUS |-> alert_status])
  /\ UNCHANGED <<ads, today, works, npc, notifier>>
  /\ Remember

(* adapt_model writes an ad crawled today or before, the purge removes one. *)
PublishAd(id, item, day) ==
  /\ changes < MaxChanges /\ changes' = changes + 1
  /\ ads' = PutItem(ads, id, Merge(item, [FIRST_TIMESTAMP |-> day]))
  /\ UNCHANGED <<alerts, today, works, npc, notifier>>
  /\ Remember

RemoveAd(id) ==
  /\ changes < MaxChanges /\ changes' = changes + 1
  /\ ads' = DeleteItem(ads, id)
  /\ UNCHANGED <<alerts, today, works, npc, notifier>>
  /\ Remember

NextDay ==
  /\ today < MaxDay
  /\ today' = today + 1
  /\ UNCHANGED <<alerts, ads, works, npc, notifier, changes, history>>

-----------------------------------------------------------------------------
(* The caller has the lock for one instant; it always answers success. *)
notifyNewAnnounces(c) ==
  /\ npc \notin Holding /\ Len(works) < MaxWorks
  /\ works' = Append(works, c)
  /\ npc'   = IF npc = "waiting" THEN "ready" ELSE npc
  /\ UNCHANGED <<tables, notifier, changes, history>>

(* One turn of do_work: a city if there is one, and otherwise the notifier waits. *)
TakeWork ==
  /\ npc = "ready" /\ works # <<>>
  /\ city'    = Head(works)
  /\ works'   = Tail(works)
  /\ npc'     = "alerts"
  /\ due'     = Pairs(alerts, ads, Head(works))
  /\ everOn'  = ActiveAlerts(alerts, Head(works))
  /\ everNew' = AdsOfCity(ads, Head(works))
  /\ failed'  = FALSE
  /\ UNCHANGED <<tables, active_alert_list, datenow, new_ads, lastKey, userToNotify, left, changes,
                 notified>>

(* Seeded fault: the notifier waits before it has looked at the queue. *)
WaitFirst ==
  /\ npc = "ready"
  /\ npc' = "waiting"
  /\ UNCHANGED <<tables, works, notifier, changes, history>>

NoWork ==
  /\ npc = "ready" /\ works = <<>>
  /\ npc' = "waiting"
  /\ UNCHANGED <<tables, works, notifier, changes, history>>

(* One call of a scan of tbl that looks for found: it reads on to some item or to the end,
   or fails, which ends the scan too. *)
ScanPage(tbl, found, upto) == [id \in {i \in found : lastKey < i /\ i <= upto} |-> tbl[id]]

ScanAlerts ==
  /\ npc = "alerts"
  /\ \/ \E upto \in {i \in DOMAIN alerts : lastKey < i} :
          /\ active_alert_list' =
               Merge(active_alert_list, ScanPage(alerts, ActiveAlerts(alerts, city), upto))
          /\ lastKey' = upto
          /\ UNCHANGED <<npc, datenow, failed>>
     \/ /\ active_alert_list' =
             Merge(active_alert_list, ScanPage(alerts, ActiveAlerts(alerts, city), NAlerts))
        /\ lastKey' = NoKey /\ npc' = "ads" /\ datenow' = today
        /\ UNCHANGED failed
     \/ /\ lastKey' = NoKey /\ npc' = "ads" /\ datenow' = today
        /\ failed' = TRUE
        /\ UNCHANGED active_alert_list
  /\ UNCHANGED <<tables, works, city, new_ads, userToNotify, left, changes, due, everOn, everNew, notified>>

(* Seeded fault: the scan of the ads stops after its first page. *)
ScanFirstPage ==
  /\ npc = "ads"
  /\ \E upto \in AdIds :
       new_ads' = Merge(new_ads, ScanPage(ads, AdsOfDay(ads, city, datenow), upto))
  /\ lastKey' = NoKey /\ npc' = "prepare"
  /\ UNCHANGED <<tables, works, city, active_alert_list, datenow, userToNotify, left, changes, history>>

(* Seeded fault: the scan goes on after the item that follows the last one read. *)
ScanNextKey ==
  /\ npc = "ads"
  /\ \E upto \in {i \in DOMAIN ads : lastKey < i} :
       /\ new_ads' = Merge(new_ads, ScanPage(ads, AdsOfDay(ads, city, datenow), upto))
       /\ lastKey' = upto + 1
  /\ UNCHANGED <<tables, works, npc, city, active_alert_list, datenow, userToNotify, left, changes, history>>

ScanAds ==
  /\ npc = "ads"
  /\ \/ \E upto \in {i \in DOMAIN ads : lastKey < i} :
          /\ new_ads' = Merge(new_ads, ScanPage(ads, AdsOfDay(ads, city, datenow), upto))
          /\ lastKey' = upto
          /\ UNCHANGED <<npc, failed>>
     \/ /\ new_ads' = Merge(new_ads, ScanPage(ads, AdsOfDay(ads, city, datenow), NAds))
        /\ lastKey' = NoKey /\ npc' = "prepare"
        /\ UNCHANGED failed
     \/ /\ lastKey' = NoKey /\ npc' = "prepare"
        /\ failed' = TRUE
        /\ UNCHANGED new_ads
  /\ UNCHANGED <<tables, works, city, active_alert_list, datenow, userToNotify, left, changes,
                 due, everOn, everNew, notified>>

(* Each user with an active alert has an empty ads_list. *)
PrepareLists ==
  /\ npc = "prepare" /\ npc' = "listing"
  /\ userToNotify' = [u \in {active_alert_list[al].USERID : al \in DOMAIN active_alert_list} |-> <<>>]
  /\ left' = (DOMAIN new_ads) \X (DOMAIN active_alert_list)
  /\ UNCHANGED <<tables, works, city, active_alert_list, datenow, new_ads, lastKey, changes, history>>

(* ads_list and forbidden_ads of a user: the latter are what the former declare to be their
   duplicates. *)
ads_list(u)      == {userToNotify[u][i] : i \in 1..Len(userToNotify[u])}
forbidden_ads(u) == UNION {DuplicatesOf(new_ads[id]) : id \in ads_list(u)}

Before(p, q) == p[1] < q[1] \/ (p[1] = q[1] /\ p[2] < q[2])

(* Seeded fault: no ad is forbidden. *)
ListAnyAd(p) ==
  /\ npc = "listing" /\ p \in left /\ \A q \in left \ {p} : Before(p, q)
  /\ left' = left \ {p}
  /\ LET u == active_alert_list[p[2]].USERID
     IN  userToNotify' = IF ads_match(new_ads[p[1]], active_alert_list[p[2]])
                         THEN [userToNotify EXCEPT ![u] = Append(@, p[1])] ELSE userToNotify
  /\ UNCHANGED <<tables, works, npc, city, active_alert_list, datenow, new_ads, lastKey, changes, history>>

(* One turn of the inner loop: the ads in the order of the scan, and for each the alerts in
   theirs.  A match goes to its user's list, unless it is a duplicate of one that is there. *)
ListAd(p) ==
  /\ npc = "listing" /\ p \in left /\ \A q \in left \ {p} : Before(p, q)
  /\ left' = left \ {p}
  /\ LET u == active_alert_list[p[2]].USERID
     IN  userToNotify' =
           IF ads_match(new_ads[p[1]], active_alert_list[p[2]]) /\ p[1] \notin forbidden_ads(u)
           THEN [userToNotify EXCEPT ![u] = Append(@, p[1])] ELSE userToNotify
  /\ UNCHANGED <<tables, works, npc, city, active_alert_list, datenow, new_ads, lastKey, changes, history>>

(* The mail server accepts the login. *)
Login ==
  /\ npc = "listing" /\ left = {}
  /\ npc' = "mailing"
  /\ UNCHANGED <<tables, works, notifier, changes, history>>

(* sendmail to the users with a list, in any order: it is that of a dictionary *)
SendMail(u) ==
  /\ npc = "mailing" /\ u \in DOMAIN userToNotify
  /\ notified' = notified \cup ({u} \X (ads_list(u) \cup forbidden_ads(u)))
  /\ userToNotify' = [v \in DOMAIN userToNotify \ {u} |-> userToNotify[v]]
  /\ UNCHANGED <<tables, works, npc, city, active_alert_list, datenow, new_ads, lastKey, left, changes,
                 failed, due, everOn, everNew>>

(* The locals of checkAndNotifyUsers go with it; ended is whether it went to its end. *)
Forget(ended) ==
  /\ active_alert_list' = EmptyTable /\ new_ads' = EmptyTable
  /\ lastKey' = NoKey /\ userToNotify' = Nobody /\ left' = {}
  /\ everOn' = {} /\ everNew' = {}
  /\ failed' = (failed /\ ended) /\ due' = IF ended THEN due ELSE {}
  /\ datenow' = IF ended THEN datenow ELSE 0
  /\ UNCHANGED <<city, changes, notified>>

(* Seeded fault: the list of active alerts outlives the run, as a member would. *)
KeepAlerts ==
  /\ npc = "mailing" /\ DOMAIN userToNotify = {}
  /\ npc' = "waiting"
  /\ new_ads' = EmptyTable
  /\ UNCHANGED <<tables, works, city, active_alert_list, datenow, lastKey, userToNotify, left, changes, history>>

(* All are mailed: the notifier waits, whatever is in the queue. *)
Finish ==
  /\ npc = "mailing" /\ DOMAIN userToNotify = {}
  /\ npc' = "waiting"
  /\ Forget(TRUE)
  /\ UNCHANGED <<tables, works>>

(* Any exception but Queue.Empty ends the notifier thread, and leaves the lock free: one of a
   remote call, of the mail server, or of an attribute an ad or an alert doesn't have. *)
Raise ==
  /\ Failures
  /\ npc \in Holding
  /\ npc' = "dead"
  /\ Forget(FALSE)
  /\ UNCHANGED <<tables, works>>

(* The service is started again, with an empty queue. *)
Restart ==
  /\ Failures
  /\ works' = <<>>
  /\ npc' = "ready"
  /\ Forget(FALSE)
  /\ UNCHANGED tables

Notify ==
  \/ TakeWork \/ NoWork
  \/ ScanAlerts \/ ScanAds
  \/ PrepareLists \/ (\E p \in left : ListAd(p)) \/ Login
  \/ (\E u \in Users : SendMail(u))
  \/ Finish

Next ==
  \/ \E id \in AlertIds, alert \in Alerts : registerEmailAlert(id, alert)
  \/ \E id \in AlertIds, s \in Statuses : changeAlertStatus(id, s)
  \/ \E id \in AdIds, item \in AdItems, day \in 1..today : PublishAd(id, item, day)
  \/ \E id \in AdIds : RemoveAd(id)
  \/ NextDay
  \/ \E c \in Cities : notifyNewAnnounces(c)
  \/ Notify
  \/ Raise
  \/ Restart

Spec == Init /\ [][Next]_vars

(* The notifier gets the lock when it is free.  FairSpec: what it calls returns, too. *)
TurnSpec == Spec /\ WF_vars(TakeWork \/ NoWork)
FairSpec == Spec /\ WF_vars(Notify)

-----------------------------------------------------------------------------
(* Values have the types the code gives them. *)
TypeOK ==
  /\ DOMAIN alerts \subseteq AlertIds /\ DOMAIN ads \subseteq AdIds /\ today \in 1..MaxDay
  /\ \A id \in DOMAIN alerts : alerts[id].ALERT_STATUS \in Statuses
  /\ works \in Seq(Cities) /\ Len(works) <= MaxWorks
  /\ npc \in Holding \cup {"ready", "waiting", "dead"}
  /\ city \in Cities /\ datenow \in 0..today
  /\ DOMAIN active_alert_list \subseteq AlertIds /\ DOMAIN new_ads \subseteq AdIds
  /\ lastKey \in 0..NAlerts \cup 0..NAds
  /\ DOMAIN userToNotify \subseteq Users /\ left \subseteq AdIds \X AlertIds
  /\ failed \in BOOLEAN /\ due \subseteq AlertIds \X AdIds
  /\ everOn \subseteq AlertIds /\ everNew \subseteq AdIds /\ notified \subseteq Users \X Nat

(* A user is only mailed for an alert that was on, and an ad that was there, at some moment of
   the run: who switched an alert off before the city came up hears no more of it. *)
MailedWanted ==
  \A u \in DOMAIN userToNotify : \A id \in ads_list(u) :
    /\ id \in everNew \cap DOMAIN new_ads
    /\ \E al \in everOn \cap DOMAIN active_alert_list :
         active_alert_list[al].USERID = u /\ ads_match(new_ads[id], active_alert_list[al])

(* A mail lists no ad after one that declares it a duplicate of itself. *)
NoDuplicatesInMail ==
  \A u \in DOMAIN userToNotify : \A i, j \in 1..Len(userToNotify[u]) :
    i < j => userToNotify[u][j] \notin DuplicatesOf(new_ads[userToNotify[u][i]])

Informed(al, id) == <<alerts[al].USERID, id>> \in notified

RunEnded == npc = "waiting" /\ ~failed

(* Once a run has ended in which no scan failed, the user of every alert that was on all along
   has been mailed every matching ad of the day that was there all along. *)
RunComplete ==
  RunEnded => \A p \in due : ads[p[2]].FIRST_TIMESTAMP = datenow => Informed(p[1], p[2])

(* A notifier that is awake and has the lock within reach serves the city at the head of the
   queue: a notification that finds the queue empty is never lost. *)
AwakeServes ==
  \A c \in Cities :
    (npc = "ready" /\ works # <<>> /\ Head(works) = c) ~>
      \/ npc \in Holding /\ city = c
      \/ works = <<>>

(* A queued city gets its turn: the log says "notification sent for city". *)
AcceptedIsServed ==
  \A c \in Cities : (\E i \in 1..Len(works) : works[i] = c) ~> (npc \in Holding /\ city = c)

=============================================================================
