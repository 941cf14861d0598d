--------------------- MODULE EmailAlertNotifier_proofs ---------------------
(* Whom the notifier mails about what, for any users, alerts, ads, cities and days. *)
EXTENDS EmailAlertNotifier, SequenceTheorems, TLAPS

(* An item is a function; an alert that has a city was registered, and one that was not (only its
   status is set) has none. *)
IsItem(item) == item = [a \in DOMAIN item |-> item[a]]
AlertOK(item) ==
  /\ IsItem(item) /\ "ALERT_STATUS" \in DOMAIN item /\ item.ALERT_STATUS \in Statuses
  /\ "CITY" \in DOMAIN item => "USERID" \in DOMAIN item /\ item.USERID \in Users
AdOK(item) ==
  /\ "FIRST_TIMESTAMP" \in DOMAIN item
  /\ "DUPLICATES" \in DOMAIN item => item.DUPLICATES \subseteq Nat

TablesInv ==
  /\ DOMAIN alerts \subseteq AlertIds /\ \A id \in DOMAIN alerts : AlertOK(alerts[id])
  /\ DOMAIN ads \subseteq AdIds /\ \A id \in DOMAIN ads : AdOK(ads[id])

(* The locals of a run: where the notifier has not come yet, they are as a run finds them. *)
Lists == [DOMAIN userToNotify -> Seq(DOMAIN new_ads)]
LocalsInv ==
  /\ \A al \in DOMAIN active_alert_list : active_alert_list[al].USERID \in Users
  /\ \A id \in DOMAIN new_ads : AdOK(new_ads[id])
  /\ npc \notin Holding => active_alert_list = EmptyTable /\ lastKey = NoKey
  /\ npc \notin Holding \/ npc = "alerts" => new_ads = EmptyTable
  /\ npc \notin {"listing", "mailing"} => userToNotify = Nobody /\ left = {}
  /\ userToNotify \in Lists
  /\ left \subseteq (DOMAIN new_ads) \X (DOMAIN active_alert_list)
  /\ npc = "listing" => \A al \in DOMAIN active_alert_list :
                          active_alert_list[al].USERID \in DOMAIN userToNotify
  /\ DOMAIN userToNotify \subseteq Users

(* What the run has scanned was there. *)
ScannedInv ==
  npc \in Holding =>
    /\ ActiveAlerts(alerts, city) \subseteq everOn /\ DOMAIN active_alert_list \subseteq everOn
    /\ AdsOfCity(ads, city) \subseteq everNew /\ DOMAIN new_ads \subseteq everNew

WantedInv ==
  \A u \in DOMAIN userToNotify : \A id \in ads_list(u) :
    \E al \in DOMAIN active_alert_list :
      active_alert_list[al].USERID = u /\ ads_match(new_ads[id], active_alert_list[al])

(* What matched all along is in the tables as it was scanned, *)
DueInv ==
  /\ due \subseteq Pairs(alerts, ads, city)
  /\ \A p \in due :
       /\ p[1] \in DOMAIN active_alert_list => active_alert_list[p[1]] = alerts[p[1]]
       /\ p[2] \in DOMAIN new_ads => new_ads[p[2]] = ads[p[2]]

(* and goes from the scans to the lists to the mails. *)
Composed(u, id) == id \in ads_list(u) \cup forbidden_ads(u)
PairInv(p) ==
  LET user == alerts[p[1]].USERID
      ofDay == ads[p[2]].FIRST_TIMESTAMP = datenow
  IN  /\ npc = "alerts" /\ p[1] <= lastKey => p[1] \in DOMAIN active_alert_list
      /\ npc \in {"ads", "prepare", "listing", "mailing"} => p[1] \in DOMAIN active_alert_list
      /\ npc = "ads" /\ ofDay /\ p[2] <= lastKey => p[2] \in DOMAIN new_ads
      /\ npc \in {"prepare", "listing", "mailing"} /\ ofDay => p[2] \in DOMAIN new_ads
      /\ npc = "listing" /\ ofDay => <<p[2], p[1]>> \in left \/ Composed(user, p[2])
      /\ npc = "mailing" /\ ofDay => \/ user \in DOMAIN userToNotify /\ Composed(user, p[2])
                                     \/ <<user, p[2]>> \in notified
      /\ npc \in {"waiting", "ready"} /\ ofDay => <<user, p[2]>> \in notified
CompleteInv == ~failed => \A p \in due : PairInv(p)

NotifierInv ==
  /\ TypeOK /\ TablesInv /\ LocalsInv
  /\ ScannedInv /\ WantedInv /\ NoDuplicatesInMail
  /\ DueInv /\ CompleteInv

-----------------------------------------------------------------------------
(* What the calls do to a table. *)
PutFrom(tbl, new, id, item) ==
  /\ DOMAIN new = DOMAIN tbl \cup {id}
  /\ \A i \in DOMAIN tbl : new[i] = tbl[i]
  /\ id \notin DOMAIN tbl => new[id] = item

UpdatedFrom(tbl, new, id, values) ==
  /\ DOMAIN new = DOMAIN tbl \cup {id}
  /\ \A i \in DOMAIN tbl \ {id} : new[i] = tbl[i]
  /\ new[id] = IF id \in DOMAIN tbl THEN Merge(tbl[id], values) ELSE values

DeletedFrom(tbl, new, id) ==
  DOMAIN new = DOMAIN tbl \ {id} /\ \A i \in DOMAIN new : new[i] = tbl[i]

MergedFrom(old, new, both) ==
  /\ DOMAIN both = DOMAIN old \cup DOMAIN new /\ IsItem(both)
  /\ \A a \in DOMAIN new : both[a] = new[a]
  /\ \A a \in DOMAIN old \ DOMAIN new : both[a] = old[a]

LEMMA Putting == \A tbl, id, item : PutFrom(tbl, PutItem(tbl, id, item), id, item)
BY DEF PutFrom, PutItem, Store

LEMMA Updating == \A tbl, id, values : UpdatedFrom(tbl, UpdateItem(tbl, id, values), id, values)
BY DEF UpdatedFrom, UpdateItem, Store

LEMMA Deleting == \A tbl, id : DeletedFrom(tbl, DeleteItem(tbl, id), id)
BY DEF DeletedFrom, DeleteItem

LEMMA Merging == \A old, new : MergedFrom(old, new, Merge(old, new))
BY DEF MergedFrom, Merge, IsItem

(* What is set on an alert or an ad. *)
StatusIs(s) == [ALERT_STATUS |-> s]
Stamp(day)  == [FIRST_TIMESTAMP |-> day]

LEMMA NewValues ==
  /\ \A s : DOMAIN StatusIs(s) = {"ALERT_STATUS"} /\ StatusIs(s).ALERT_STATUS = s /\ IsItem(StatusIs(s))
  /\ \A day : DOMAIN Stamp(day) = {"FIRST_TIMESTAMP"} /\ Stamp(day).FIRST_TIMESTAMP = day
BY DEF StatusIs, Stamp, IsItem

(* What the filters of the scans select. *)
LEMMA Filters ==
  /\ \A tbl, c, id :
       id \in ActiveAlerts(tbl, c) <=>
         /\ id \in DOMAIN tbl /\ {"CITY", "ALERT_STATUS"} \subseteq DOMAIN tbl[id]
         /\ tbl[id].CITY = c /\ tbl[id].ALERT_STATUS = "ON"
  /\ \A tbl, c, id :
       id \in AdsOfCity(tbl, c) <=>
         id \in DOMAIN tbl /\ "CITY" \in DOMAIN tbl[id] /\ tbl[id].CITY = c
  /\ \A tbl, c, day, id :
       id \in AdsOfDay(tbl, c, day) <=>
         /\ id \in AdsOfCity(tbl, c)
         /\ "FIRST_TIMESTAMP" \in DOMAIN tbl[id] /\ tbl[id].FIRST_TIMESTAMP = day
BY DEF ActiveAlerts, AdsOfCity, AdsOfDay, Matching, Matches

LEMMA PairsFacts ==
  \A alertTable, adTable, c, p :
    p \in Pairs(alertTable, adTable, c) <=>
      /\ p \in ActiveAlerts(alertTable, c) \X AdsOfCity(adTable, c)
      /\ ads_match(adTable[p[2]], alertTable[p[1]])
BY DEF Pairs

LEMMA Paging ==
  /\ \A tbl, found, upto, i :
       i \in DOMAIN ScanPage(tbl, found, upto) <=> i \in found /\ lastKey < i /\ i <= upto
  /\ \A tbl, found, upto, i :
       i \in DOMAIN ScanPage(tbl, found, upto) => ScanPage(tbl, found, upto)[i] = tbl[i]
BY DEF ScanPage

(* Of the lists, before and after a step. *)
LEMMA Listing ==
  /\ \A u, x : x \in ads_list(u) <=> \E i \in 1..Len(userToNotify[u]) : x = userToNotify[u][i]
  /\ \A u, x : x \in ads_list(u)' <=> \E i \in 1..Len(userToNotify'[u]) : x = userToNotify'[u][i]
BY DEF ads_list

LEMMA Forbidding ==
  /\ \A u, x : x \in forbidden_ads(u) <=> \E id \in ads_list(u) : x \in DuplicatesOf(new_ads[id])
  /\ \A u, x : x \in forbidden_ads(u)' <=> \E id \in ads_list(u)' : x \in DuplicatesOf(new_ads'[id])
BY DEF forbidden_ads

LEMMA SameLists ==
  ASSUME UNCHANGED <<userToNotify, new_ads>>
  PROVE  \A u : ads_list(u)' = ads_list(u) /\ forbidden_ads(u)' = forbidden_ads(u)
<1> SUFFICES ASSUME NEW u  PROVE ads_list(u)' = ads_list(u) /\ forbidden_ads(u)' = forbidden_ads(u)
  OBVIOUS
<1>1. ads_list(u)' = ads_list(u)
  BY DEF ads_list
<1>2. forbidden_ads(u)' = forbidden_ads(u)
  BY <1>1 DEF forbidden_ads
<1>3. QED BY <1>1, <1>2

LEMMA Empty == DOMAIN EmptyTable = {} /\ DOMAIN Nobody = {}
  BY DEF EmptyTable, Nobody

(* The values of npc differ. *)
LEMMA Places == /\ {"alerts", "ads", "prepare", "listing", "mailing"} = Holding
                /\ \A p \in {"ready", "waiting", "dead"} : p \notin Holding
  BY DEF Holding

-----------------------------------------------------------------------------
(* A change of the tables leaves every item with the attributes an alert or an ad has. *)
ChangeAlerts ==
  \/ \E id \in AlertIds, alert \in Alerts : registerEmailAlert(id, alert)
  \/ \E id \in AlertIds, s \in Statuses : changeAlertStatus(id, s)
ChangeAds ==
  \/ \E id \in AdIds, item \in AdItems, day \in 1..today : PublishAd(id, item, day)
  \/ \E id \in AdIds : RemoveAd(id)

(* An alert keeps its attributes but for its status, and one that is active stays as it is while
   it is active. *)
LEMMA AlertsChange ==
  ASSUME ItemsAssumption, TablesInv, ChangeAlerts
  PROVE  /\ DOMAIN alerts \subseteq DOMAIN alerts' /\ DOMAIN alerts' \subseteq AlertIds
         /\ \A id \in DOMAIN alerts' : AlertOK(alerts'[id])
         /\ \A c : \A id \in ActiveAlerts(alerts, c) \cap ActiveAlerts(alerts', c) : alerts'[id] = alerts[id]
<1>1. CASE \E id \in AlertIds, alert \in Alerts : registerEmailAlert(id, alert)
  <2>1. PICK id \in AlertIds, alert \in Alerts : registerEmailAlert(id, alert)
    BY <1>1
  <2> DEFINE item == Merge(alert, StatusIs("ON"))
  <2>2. id \notin DOMAIN alerts /\ alerts' = PutItem(alerts, id, item)
    BY <2>1 DEF registerEmailAlert, StatusIs
  <2>3. MergedFrom(alert, StatusIs("ON"), item)
    BY Merging
  <2> HIDE DEF item
  <2>4. PutFrom(alerts, alerts', id, item)
    BY <2>2, Putting
  <2>5. AlertOK(item)
    BY <2>3, NewValues, ItemsAssumption DEF AlertOK, MergedFrom, ItemsAssumption, Statuses
  <2>6. QED BY <2>2, <2>4, <2>5 DEF TablesInv, PutFrom, ActiveAlerts, Matching
<1>2. CASE \E id \in AlertIds, s \in Statuses : changeAlertStatus(id, s)
  <2>1. PICK id \in AlertIds, s \in Statuses : changeAlertStatus(id, s)
    BY <1>2
  <2> DEFINE item == IF id \in DOMAIN alerts THEN Merge(alerts[id], StatusIs(s)) ELSE StatusIs(s)
  <2>2. alerts' = UpdateItem(alerts, id, StatusIs(s))
    BY <2>1 DEF changeAlertStatus, StatusIs
  <2>3. UpdatedFrom(alerts, alerts', id, StatusIs(s))
    BY <2>2, Updating
  <2>4. IF id \in DOMAIN alerts THEN MergedFrom(alerts[id], StatusIs(s), item) ELSE item = StatusIs(s)
    BY Merging
  <2>5. /\ DOMAIN alerts' = DOMAIN alerts \cup {id} /\ alerts'[id] = item
        /\ \A i \in DOMAIN alerts \ {id} : alerts'[i] = alerts[i]
    BY <2>3 DEF UpdatedFrom
  <2> HIDE DEF item
  <2>6. AlertOK(item)
    BY <2>4, NewValues DEF AlertOK, TablesInv, MergedFrom
  <2>7. ASSUME id \in DOMAIN alerts, alerts[id].ALERT_STATUS = item.ALERT_STATUS  PROVE item = alerts[id]
    <3>1. IsItem(alerts[id]) /\ "ALERT_STATUS" \in DOMAIN alerts[id]
      BY <2>7 DEF TablesInv, AlertOK
    <3>2. item.ALERT_STATUS = s /\ IsItem(item)
      BY <2>4, <2>7, NewValues DEF MergedFrom
    <3>3. DOMAIN item = DOMAIN alerts[id] /\ \A a \in DOMAIN item : item[a] = alerts[id][a]
      <4>1. DOMAIN StatusIs(s) = {"ALERT_STATUS"}
        BY NewValues
      <4>2. /\ DOMAIN item = DOMAIN alerts[id] \cup {"ALERT_STATUS"}
            /\ \A a \in DOMAIN alerts[id] \ {"ALERT_STATUS"} : item[a] = alerts[id][a]
        BY <2>4, <2>7, <4>1 DEF MergedFrom
      <4>3. QED BY <2>7, <3>1, <4>2
    <3>4. item = [a \in DOMAIN item |-> item[a]] /\ alerts[id] = [a \in DOMAIN alerts[id] |-> alerts[id][a]]
      BY <3>1, <3>2 DEF IsItem
    <3>5. [a \in DOMAIN item |-> item[a]] = [a \in DOMAIN alerts[id] |-> alerts[id][a]]
      BY <3>3
    <3>6. QED BY <3>4, <3>5
  <2>8. \A c : \A i \in ActiveAlerts(alerts, c) \cap ActiveAlerts(alerts', c) : alerts'[i] = alerts[i]
    <3> SUFFICES ASSUME NEW c, NEW i \in ActiveAlerts(alerts, c) \cap ActiveAlerts(alerts', c)
                 PROVE  alerts'[i] = alerts[i]
      OBVIOUS
    <3>1. i \in DOMAIN alerts /\ alerts[i].ALERT_STATUS = "ON" /\ alerts'[i].ALERT_STATUS = "ON"
      BY Filters
    <3>2. CASE i = id
      BY <2>5, <2>7, <3>1, <3>2
    <3>3. CASE i # id
      BY <2>5, <3>1, <3>3
    <3>4. QED BY <3>2, <3>3
  <2>9. QED BY <2>5, <2>6, <2>8 DEF TablesInv
<1>3. QED BY <1>1, <1>2 DEF ChangeAlerts

LEMMA AdsChange ==
  ASSUME ItemsAssumption, TablesInv, ChangeAds
  PROVE  /\ DOMAIN ads' \subseteq AdIds
         /\ \A id \in DOMAIN ads' : AdOK(ads'[id])
         /\ \A id \in DOMAIN ads \cap DOMAIN ads' : ads'[id] = ads[id]
<1>1. CASE \E id \in AdIds, item \in AdItems, day \in 1..today : PublishAd(id, item, day)
  <2>1. PICK id \in AdIds, ad \in AdItems, day \in 1..today : PublishAd(id, ad, day)
    BY <1>1
  <2> DEFINE item == Merge(ad, Stamp(day))
  <2>2. ads' = PutItem(ads, id, item)
    BY <2>1 DEF PublishAd, Stamp
  <2>3. MergedFrom(ad, Stamp(day), item)
    BY Merging
  <2> HIDE DEF item
  <2>4. PutFrom(ads, ads', id, item)
    BY <2>2, Putting
  <2>5. AdOK(item)
    BY <2>3, NewValues, ItemsAssumption DEF AdOK, MergedFrom, ItemsAssumption
  <2>6. QED BY <2>4, <2>5 DEF TablesInv, PutFrom
<1>2. CASE \E id \in AdIds : RemoveAd(id)
  <2>1. PICK id \in AdIds : RemoveAd(id)
    BY <1>2
  <2>2. DeletedFrom(ads, ads', id)
    BY <2>1, Deleting DEF RemoveAd
  <2>3. QED BY <2>2 DEF TablesInv, DeletedFrom
<1>3. QED BY <1>1, <1>2 DEF ChangeAds

-----------------------------------------------------------------------------
(* The invariant under each step.  A change of the tables leaves the locals alone, and what was due
   is due no more when it changes or goes. *)
LEMMA TablesStep ==
  ASSUME SizesAssumption, ItemsAssumption, NotifierInv, ChangeAlerts \/ ChangeAds
  PROVE  NotifierInv'
<1>1. UNCHANGED <<today, works, npc, notifier>> /\ Remember
  BY DEF ChangeAlerts, ChangeAds, registerEmailAlert, changeAlertStatus, PublishAd, RemoveAd
<1>2. /\ TablesInv'
      /\ \A id \in ActiveAlerts(alerts, city) \cap ActiveAlerts(alerts', city) : alerts'[id] = alerts[id]
      /\ \A id \in DOMAIN ads \cap DOMAIN ads' : ads'[id] = ads[id]
  <2>1. CASE ChangeAlerts
    <3>1. ads' = ads
      BY <2>1 DEF ChangeAlerts, registerEmailAlert, changeAlertStatus
    <3>2. QED BY <2>1, <3>1, AlertsChange DEF NotifierInv, TablesInv
  <2>2. CASE ChangeAds
    <3>1. alerts' = alerts
      BY <2>2 DEF ChangeAds, PublishAd, RemoveAd
    <3>2. QED BY <2>2, <3>1, AdsChange DEF NotifierInv, TablesInv
  <2>3. QED BY <2>1, <2>2
<1>3. /\ due' \subseteq due /\ due' \subseteq Pairs(alerts', ads', city')
      /\ failed' = failed /\ notified' = notified
      /\ npc \in Holding => /\ everOn' = everOn \cup ActiveAlerts(alerts', city)
                            /\ everNew' = everNew \cup AdsOfCity(ads', city)
      /\ npc \notin Holding => everOn' = {} /\ everNew' = {}
  BY <1>1 DEF Remember, notifier
<1>4. \A p \in due' : alerts'[p[1]] = alerts[p[1]] /\ ads'[p[2]] = ads[p[2]]
  BY <1>1, <1>2, <1>3, PairsFacts, Filters DEF NotifierInv, DueInv, notifier
<1>5. TypeOK'
  <2>1. ActiveAlerts(alerts', city) \subseteq AlertIds /\ AdsOfCity(ads', city) \subseteq AdIds
    BY <1>2, Filters DEF TablesInv
  <2>2. everOn' \subseteq AlertIds /\ everNew' \subseteq AdIds
    BY <1>3, <2>1 DEF NotifierInv, TypeOK
  <2>3. QED BY <1>1, <1>2, <1>3, <2>2 DEF NotifierInv, TypeOK, TablesInv, AlertOK, notifier
<1>6. LocalsInv'
  BY <1>1 DEF NotifierInv, LocalsInv, Lists, notifier
<1>7. ScannedInv'
  BY <1>1, <1>3 DEF NotifierInv, ScannedInv, notifier
<1>8. WantedInv' /\ NoDuplicatesInMail'
  BY <1>1, SameLists DEF NotifierInv, WantedInv, NoDuplicatesInMail, notifier
<1>9. DueInv'
  BY <1>1, <1>3, <1>4 DEF NotifierInv, DueInv, notifier
<1>10. CompleteInv'
  <2> SUFFICES ASSUME ~failed', NEW p \in due'  PROVE PairInv(p)'
    BY DEF CompleteInv
  <2>1. PairInv(p)
    BY <1>3 DEF NotifierInv, CompleteInv
  <2>2. QED BY <1>1, <1>3, <1>4, <2>1, SameLists DEF PairInv, Composed, notifier
<1>11. QED BY <1>2, <1>5, <1>6, <1>7, <1>8, <1>9, <1>10 DEF NotifierInv

(* The days pass, the queue fills and the notifier waits: nothing of a run is touched. *)
LEMMA IdleStep ==
  ASSUME SizesAssumption, NotifierInv,
         NextDay \/ (\E c \in Cities : notifyNewAnnounces(c)) \/ NoWork \/ UNCHANGED vars
  PROVE  NotifierInv'
<1>1. /\ UNCHANGED <<alerts, ads, notifier, history>>
      /\ npc' = npc \/ (npc \notin Holding /\ {npc, npc'} = {"ready", "waiting"})
  BY DEF NextDay, notifyNewAnnounces, NoWork, vars, tables, Holding
<1>2. TypeOK'
  <2>1. today' \in 1..MaxDay /\ today <= today'
    BY DEF NextDay, notifyNewAnnounces, NoWork, vars, tables, NotifierInv, TypeOK, SizesAssumption
  <2>2. works' \in Seq(Cities) /\ Len(works') <= MaxWorks
    <3>1. CASE \E c \in Cities : notifyNewAnnounces(c)
      BY <3>1, AppendProperties DEF notifyNewAnnounces, NotifierInv, TypeOK, SizesAssumption
    <3>2. CASE works' = works
      BY <3>2 DEF NotifierInv, TypeOK
    <3>3. QED BY <3>1, <3>2 DEF NextDay, NoWork, vars
  <2>3. datenow' \in 0..today'
    BY <1>1, <2>1 DEF NotifierInv, TypeOK, notifier, SizesAssumption
  <2>4. npc' \in Holding \cup {"ready", "waiting", "dead"}
    BY <1>1 DEF NotifierInv, TypeOK
  <2>5. QED BY <1>1, <2>1, <2>2, <2>3, <2>4 DEF NotifierInv, TypeOK, notifier, history
<1>3. TablesInv' /\ LocalsInv' /\ ScannedInv'
  BY <1>1, Places DEF NotifierInv, TablesInv, LocalsInv, Lists, ScannedInv, notifier, history
<1>4. WantedInv' /\ NoDuplicatesInMail' /\ DueInv'
  BY <1>1, SameLists DEF NotifierInv, WantedInv, NoDuplicatesInMail, DueInv, notifier, history
<1>5. CompleteInv'
  BY <1>1, SameLists, Places DEF NotifierInv, CompleteInv, PairInv, Composed, notifier, history
<1>6. QED BY <1>2, <1>3, <1>4, <1>5 DEF NotifierInv

(* A run begins with what the tables have, and no page read. *)
LEMMA TakeWorkStep ==
  ASSUME SizesAssumption, NotifierInv, TakeWork
  PROVE  NotifierInv'
<1>1. /\ UNCHANGED <<alerts, ads, today, active_alert_list, datenow, new_ads, lastKey, userToNotify, left,
                      notified>>
      /\ npc = "ready" /\ npc' = "alerts" /\ failed' = FALSE
      /\ due' = Pairs(alerts, ads, city')
      /\ everOn' = ActiveAlerts(alerts, city') /\ everNew' = AdsOfCity(ads, city')
  BY DEF TakeWork, tables
<1>2. city' \in Cities /\ works' \in Seq(Cities) /\ Len(works') <= MaxWorks
  BY HeadTailProperties DEF TakeWork, NotifierInv, TypeOK, SizesAssumption
<1>3. /\ active_alert_list = EmptyTable /\ new_ads = EmptyTable /\ lastKey = NoKey
      /\ userToNotify = Nobody /\ left = {}
  BY <1>1, Places DEF NotifierInv, LocalsInv
<1>4. everOn' \subseteq AlertIds /\ everNew' \subseteq AdIds /\ due' \subseteq AlertIds \X AdIds
  BY <1>1, Filters, PairsFacts DEF NotifierInv, TablesInv
<1>5. TypeOK'
  BY <1>1, <1>2, <1>4, Places DEF NotifierInv, TypeOK
<1>6. TablesInv' /\ LocalsInv' /\ ScannedInv'
  BY <1>1, <1>3, Empty DEF NotifierInv, TablesInv, LocalsInv, Lists, ScannedInv
<1>7. WantedInv' /\ NoDuplicatesInMail'
  BY <1>1, <1>3, Empty DEF WantedInv, NoDuplicatesInMail
<1>8. DueInv'
  BY <1>1, <1>3, Empty DEF DueInv
<1>9. CompleteInv'
  <2> SUFFICES ASSUME NEW p \in due'  PROVE PairInv(p)'
    BY DEF CompleteInv
  <2>1. p[1] \in AlertIds
    BY <1>4
  <2>2. ~ (p[1] <= lastKey')
    BY <1>1, <1>3, <2>1 DEF NoKey, AlertIds, SizesAssumption
  <2>3. QED BY <1>1, <2>2 DEF PairInv
<1>10. QED BY <1>5, <1>6, <1>7, <1>8, <1>9 DEF NotifierInv

(* A scan of the alerts: what a page brings is in the table now. *)
LEMMA ScanAlertsStep ==
  ASSUME SizesAssumption, NotifierInv, ScanAlerts
  PROVE  NotifierInv'
<1>1. /\ UNCHANGED <<alerts, ads, today, works, city, new_ads, userToNotify, left, due, everOn, everNew, notified>>
      /\ npc = "alerts" /\ npc' \in {"alerts", "ads"}
      /\ npc' = "alerts" => datenow' = datenow
      /\ npc' = "ads" => datenow' = today /\ lastKey' = NoKey
  BY DEF ScanAlerts, tables
<1>2. new_ads = EmptyTable /\ userToNotify = Nobody /\ left = {}
  BY <1>1 DEF NotifierInv, LocalsInv
<1> DEFINE page(upto) == ScanPage(alerts, ActiveAlerts(alerts, city), upto)
           read(upto) == active_alert_list' = Merge(active_alert_list, page(upto))
<1>3. \/ /\ npc' = "alerts" /\ lastKey' \in DOMAIN alerts /\ failed' = failed
         /\ read(lastKey')
      \/ npc' = "ads" /\ failed' = failed /\ read(NAlerts)
      \/ npc' = "ads" /\ failed' = TRUE /\ active_alert_list' = active_alert_list
  BY DEF ScanAlerts
<1>4. \A upto \in Int : read(upto) =>
        /\ \A i : i \in DOMAIN active_alert_list' <=>
                  \/ i \in DOMAIN active_alert_list
                  \/ i \in ActiveAlerts(alerts, city) /\ lastKey < i /\ i <= upto
        /\ \A i \in DOMAIN active_alert_list' :
             \/ i \in ActiveAlerts(alerts, city) /\ active_alert_list'[i] = alerts[i]
             \/ i \in DOMAIN active_alert_list /\ active_alert_list'[i] = active_alert_list[i]
  <2> TAKE upto \in Int
  <2> HAVE read(upto)
  <2>1. MergedFrom(active_alert_list, page(upto), active_alert_list')
    BY Merging
  <2>2. /\ \A i : i \in DOMAIN page(upto) <=> i \in ActiveAlerts(alerts, city) /\ lastKey < i /\ i <= upto
        /\ \A i \in DOMAIN page(upto) : page(upto)[i] = alerts[i]
    BY Paging
  <2> HIDE DEF page
  <2>3. QED BY <2>1, <2>2 DEF MergedFrom
<1> HIDE DEF read, page
<1>4a. lastKey \in Int /\ lastKey' \in Int /\ NAlerts \in Int
  BY <1>1, <1>3 DEF NotifierInv, TypeOK, TablesInv, AlertIds, NoKey, SizesAssumption
<1>5. /\ DOMAIN active_alert_list \subseteq DOMAIN active_alert_list'
      /\ \A i \in DOMAIN active_alert_list' :
           \/ i \in ActiveAlerts(alerts, city) /\ active_alert_list'[i] = alerts[i]
           \/ i \in DOMAIN active_alert_list /\ active_alert_list'[i] = active_alert_list[i]
  BY <1>4a, <1>3, <1>4
<1>6. \A i \in ActiveAlerts(alerts, city) : i \in AlertIds /\ alerts[i].USERID \in Users
  BY Filters DEF NotifierInv, TablesInv, AlertOK
<1>7. \A i \in DOMAIN active_alert_list' : i \in AlertIds /\ active_alert_list'[i].USERID \in Users
  BY <1>5, <1>6 DEF NotifierInv, LocalsInv, TypeOK
<1>8. TypeOK'
  <2>1. lastKey' \in 0..NAlerts /\ datenow' \in 0..today
    BY <1>1, <1>3 DEF NotifierInv, TypeOK, AlertIds, NoKey, SizesAssumption
  <2>2. failed' \in BOOLEAN
    BY <1>3 DEF NotifierInv, TypeOK
  <2>3. QED BY <1>1, <1>7, <2>1, <2>2, Places DEF NotifierInv, TypeOK
<1>9. TablesInv' /\ LocalsInv'
  BY <1>1, <1>2, <1>7, Places DEF NotifierInv, TablesInv, LocalsInv, Lists
<1>10. ScannedInv'
  BY <1>1, <1>5, Places DEF NotifierInv, ScannedInv
<1>11. WantedInv' /\ NoDuplicatesInMail'
  BY <1>1, <1>2, Empty DEF WantedInv, NoDuplicatesInMail
<1>12. DueInv'
  BY <1>1, <1>5 DEF NotifierInv, DueInv
<1>13. CompleteInv'
  <2> SUFFICES ASSUME ~failed', NEW p \in due'  PROVE PairInv(p)'
    BY DEF CompleteInv
  <2>1. p[1] \in ActiveAlerts(alerts, city) /\ p[1] \in AlertIds /\ p[2] \in AdIds
    BY <1>1, <1>6, PairsFacts, Filters DEF NotifierInv, DueInv, TablesInv
  <2>2. ~failed /\ (p[1] <= lastKey => p[1] \in DOMAIN active_alert_list)
    BY <1>1, <1>3 DEF NotifierInv, CompleteInv, PairInv, TypeOK
  <2>3. lastKey \in Int /\ NAlerts \in Int /\ p[1] \in Int /\ p[2] \in Int /\ p[1] <= NAlerts /\ ~(p[2] <= 0)
    BY <2>1 DEF NotifierInv, TypeOK, AlertIds, AdIds, SizesAssumption
  <2>4. CASE npc' = "alerts"
    <3>1. p[1] <= lastKey' => p[1] \in DOMAIN active_alert_list'
      BY <1>4a, <1>3, <1>4, <2>1, <2>2, <2>3, <2>4
    <3>2. QED BY <2>4, <3>1 DEF PairInv
  <2>5. CASE npc' = "ads"
    <3>1. p[1] \in DOMAIN active_alert_list'
      BY <1>4a, <1>3, <1>4, <2>1, <2>2, <2>3, <2>5
    <3>2. QED BY <1>1, <2>3, <2>5, <3>1 DEF PairInv, NoKey
  <2>6. QED BY <1>1, <2>4, <2>5
<1>14. QED BY <1>8, <1>9, <1>10, <1>11, <1>12, <1>13 DEF NotifierInv

(* A scan of the ads of the day, in the same way. *)
LEMMA ScanAdsStep ==
  ASSUME SizesAssumption, NotifierInv, ScanAds
  PROVE  NotifierInv'
<1>1. /\ UNCHANGED <<alerts, ads, today, works, city, active_alert_list, datenow, userToNotify, left, due,
                      everOn, everNew, notified>>
      /\ npc = "ads" /\ npc' \in {"ads", "prepare"}
      /\ npc' = "prepare" => lastKey' = NoKey
  BY DEF ScanAds, tables
<1>2. userToNotify = Nobody /\ left = {}
  BY <1>1 DEF NotifierInv, LocalsInv
<1> DEFINE page(upto) == ScanPage(ads, AdsOfDay(ads, city, datenow), upto)
           read(upto) == new_ads' = Merge(new_ads, page(upto))
<1>3. \/ /\ npc' = "ads" /\ lastKey' \in DOMAIN ads /\ failed' = failed
         /\ read(lastKey')
      \/ npc' = "prepare" /\ failed' = failed /\ read(NAds)
      \/ npc' = "prepare" /\ failed' = TRUE /\ new_ads' = new_ads
  BY DEF ScanAds
<1>4. \A upto \in Int : read(upto) =>
        /\ \A i : i \in DOMAIN new_ads' <=>
                  \/ i \in DOMAIN new_ads
                  \/ i \in AdsOfDay(ads, city, datenow) /\ lastKey < i /\ i <= upto
        /\ \A i \in DOMAIN new_ads' :
             \/ i \in AdsOfDay(ads, city, datenow) /\ new_ads'[i] = ads[i]
             \/ i \in DOMAIN new_ads /\ new_ads'[i] = new_ads[i]
  <2> TAKE upto \in Int
  <2> HAVE read(upto)
  <2>1. MergedFrom(new_ads, page(upto), new_ads')
    BY Merging
  <2>2. /\ \A i : i \in DOMAIN page(upto) <=>
                  i \in AdsOfDay(ads, city, datenow) /\ lastKey < i /\ i <= upto
        /\ \A i \in DOMAIN page(upto) : page(upto)[i] = ads[i]
    BY Paging
  <2> HIDE DEF page
  <2>3. QED BY <2>1, <2>2 DEF MergedFrom
<1> HIDE DEF read, page
<1>4a. lastKey \in Int /\ lastKey' \in Int /\ NAds \in Int
  BY <1>1, <1>3 DEF NotifierInv, TypeOK, TablesInv, AdIds, AlertIds, NoKey, SizesAssumption
<1>5. /\ DOMAIN new_ads \subseteq DOMAIN new_ads'
      /\ \A i \in DOMAIN new_ads' :
           \/ i \in AdsOfDay(ads, city, datenow) /\ new_ads'[i] = ads[i]
           \/ i \in DOMAIN new_ads /\ new_ads'[i] = new_ads[i]
  BY <1>4a, <1>3, <1>4
<1>6. \A i \in AdsOfDay(ads, city, datenow) : i \in AdsOfCity(ads, city) /\ i \in AdIds /\ AdOK(ads[i])
  BY Filters DEF NotifierInv, TablesInv
<1>7. \A i \in DOMAIN new_ads' : i \in AdIds /\ AdOK(new_ads'[i])
  BY <1>5, <1>6 DEF NotifierInv, LocalsInv, TypeOK
<1>8. TypeOK'
  <2>1. lastKey' \in 0..NAds
    BY <1>1, <1>3 DEF NotifierInv, TypeOK, AdIds, NoKey, SizesAssumption
  <2>2. failed' \in BOOLEAN
    BY <1>3 DEF NotifierInv, TypeOK
  <2>3. QED BY <1>1, <1>7, <2>1, <2>2, Places DEF NotifierInv, TypeOK
<1>9. TablesInv' /\ LocalsInv'
  <2>1. userToNotify' \in Lists'
    BY <1>1, <1>2, Empty DEF Lists, Nobody
  <2>2. QED BY <1>1, <1>2, <1>7, <2>1, Places, Empty DEF NotifierInv, TablesInv, LocalsInv
<1>10. ScannedInv'
  BY <1>1, <1>5, <1>6, Places DEF NotifierInv, ScannedInv
<1>11. WantedInv' /\ NoDuplicatesInMail'
  BY <1>1, <1>2, Empty DEF WantedInv, NoDuplicatesInMail
<1>12. DueInv'
  BY <1>1, <1>5 DEF NotifierInv, DueInv
<1>13. CompleteInv'
  <2> SUFFICES ASSUME ~failed', NEW p \in due'  PROVE PairInv(p)'
    BY DEF CompleteInv
  <2>1. /\ p[2] \in AdIds /\ p[1] \in DOMAIN active_alert_list
        /\ ads[p[2]].FIRST_TIMESTAMP = datenow => p[2] \in AdsOfDay(ads, city, datenow)
    <3>1. p \in Pairs(alerts, ads, city) /\ PairInv(p)
      BY <1>1, <1>3 DEF NotifierInv, DueInv, CompleteInv, TypeOK
    <3>2. p[2] \in AdsOfCity(ads, city)
      BY <3>1, PairsFacts
    <3>3. p[2] \in DOMAIN ads
      BY <3>2, Filters
    <3>4. QED BY <1>1, <3>1, <3>2, <3>3, Filters DEF PairInv, NotifierInv, TablesInv, AdOK
  <2>2. ads[p[2]].FIRST_TIMESTAMP = datenow /\ p[2] <= lastKey => p[2] \in DOMAIN new_ads
    BY <1>1, <1>3 DEF NotifierInv, CompleteInv, PairInv, TypeOK
  <2>3. p[2] \in Int /\ p[2] <= NAds
    BY <2>1 DEF AdIds, SizesAssumption
  <2>4. CASE npc' = "ads"
    <3>1. ads[p[2]].FIRST_TIMESTAMP = datenow /\ p[2] <= lastKey' => p[2] \in DOMAIN new_ads'
      BY <1>4a, <1>3, <1>4, <2>1, <2>2, <2>3, <2>4
    <3>2. QED BY <1>1, <2>1, <2>4, <3>1 DEF PairInv
  <2>5. CASE npc' = "prepare"
    <3>1. ads[p[2]].FIRST_TIMESTAMP = datenow => p[2] \in DOMAIN new_ads'
      BY <1>4a, <1>3, <1>4, <2>1, <2>2, <2>3, <2>5
    <3>2. QED BY <1>1, <2>1, <2>5, <3>1 DEF PairInv
  <2>6. QED BY <1>1, <2>4, <2>5
<1>14. QED BY <1>8, <1>9, <1>10, <1>11, <1>12, <1>13 DEF NotifierInv

(* Each user with an active alert begins with an empty list, and every pair is still to be looked at. *)
LEMMA PrepareStep ==
  ASSUME NotifierInv, PrepareLists
  PROVE  NotifierInv'
<1>1. /\ UNCHANGED <<alerts, ads, today, works, city, active_alert_list, datenow, new_ads, lastKey, history>>
      /\ npc = "prepare" /\ npc' = "listing"
      /\ left' = (DOMAIN new_ads) \X (DOMAIN active_alert_list)
      /\ userToNotify' = [u \in {active_alert_list[al].USERID : al \in DOMAIN active_alert_list} |-> <<>>]
  BY DEF PrepareLists, tables
<1>2. /\ DOMAIN userToNotify' \subseteq Users
      /\ \A al \in DOMAIN active_alert_list : active_alert_list[al].USERID \in DOMAIN userToNotify'
      /\ \A u \in DOMAIN userToNotify' : userToNotify'[u] = <<>>
      /\ userToNotify' \in Lists'
  BY <1>1 DEF NotifierInv, LocalsInv, Lists
<1>3. TypeOK'
  BY <1>1, <1>2, Places DEF NotifierInv, TypeOK, history
<1>4. TablesInv' /\ LocalsInv' /\ ScannedInv'
  BY <1>1, <1>2, Places DEF NotifierInv, TablesInv, LocalsInv, ScannedInv, history
<1>5. \A u \in DOMAIN userToNotify' : Len(userToNotify'[u]) = 0
  BY <1>2
<1>6. WantedInv' /\ NoDuplicatesInMail'
  BY <1>5, Listing DEF WantedInv, NoDuplicatesInMail
<1>7. DueInv' /\ CompleteInv'
  BY <1>1 DEF NotifierInv, DueInv, CompleteInv, PairInv, history
<1>8. QED BY <1>3, <1>4, <1>6, <1>7 DEF NotifierInv

(* A turn of the inner loop: the ad goes to the end of the user's list, unless it doesn't match or is
   forbidden. *)
LEMMA ListAdStep ==
  ASSUME NotifierInv, NEW p \in left, ListAd(p)
  PROVE  NotifierInv'
<1> DEFINE ad    == p[1]
           alert == p[2]
           user  == active_alert_list[alert].USERID
           wants == ads_match(new_ads[ad], active_alert_list[alert]) /\ ad \notin forbidden_ads(user)
<1>1. /\ UNCHANGED <<alerts, ads, today, works, npc, city, active_alert_list, datenow, new_ads, lastKey, history>>
      /\ npc = "listing" /\ left' = left \ {p}
      /\ userToNotify' = IF wants THEN [userToNotify EXCEPT ![user] = Append(@, ad)] ELSE userToNotify
  BY DEF ListAd, tables
<1>2. /\ p = <<ad, alert>> /\ ad \in DOMAIN new_ads /\ alert \in DOMAIN active_alert_list
      /\ user \in DOMAIN userToNotify
  BY <1>1 DEF NotifierInv, LocalsInv
<1>3. /\ userToNotify \in Lists
      /\ \A u \in DOMAIN userToNotify : userToNotify[u] \in Seq(DOMAIN new_ads)
  BY DEF NotifierInv, LocalsInv, Lists
<1> HIDE DEF wants
(* What becomes of the lists. *)
<1>4. /\ userToNotify' \in Lists' /\ DOMAIN userToNotify' = DOMAIN userToNotify
      /\ \A u : u # user \/ ~wants => userToNotify'[u] = userToNotify[u]
      /\ wants => userToNotify'[user] = Append(userToNotify[user], ad)
  <2>1. Append(userToNotify[user], ad) \in Seq(DOMAIN new_ads)
    BY <1>2, <1>3, AppendProperties
  <2>2. CASE wants
    BY <1>1, <1>2, <1>3, <2>1, <2>2 DEF Lists
  <2>3. CASE ~wants
    BY <1>1, <1>3, <2>3 DEF Lists
  <2>4. QED BY <2>2, <2>3
<1>5. wants => LET old == userToNotify[user]
                   new == userToNotify'[user]
               IN  /\ Len(old) \in Nat /\ Len(new) = Len(old) + 1 /\ new[Len(old) + 1] = ad
                   /\ \A i \in 1..Len(old) : new[i] = old[i]
  BY <1>2, <1>3, <1>4, AppendProperties
<1>6. \A u, id : id \in ads_list(u)' <=> id \in ads_list(u) \/ (wants /\ u = user /\ id = ad)
  <2> SUFFICES ASSUME NEW u, NEW id
               PROVE  id \in ads_list(u)' <=> id \in ads_list(u) \/ (wants /\ u = user /\ id = ad)
    OBVIOUS
  <2>1. CASE u # user \/ ~wants
    BY <1>4, <2>1, Listing
  <2>2. CASE u = user /\ wants
    <3> DEFINE old == userToNotify[user]
               new == userToNotify'[user]
    <3>1. id \in ads_list(u)' <=> \E i \in 1..Len(new) : id = new[i]
      BY <2>2, Listing
    <3>2. id \in ads_list(u) <=> \E i \in 1..Len(old) : id = old[i]
      BY <2>2, Listing
    <3>3. /\ Len(old) \in Nat /\ Len(new) = Len(old) + 1 /\ new[Len(old) + 1] = ad
          /\ \A i \in 1..Len(old) : new[i] = old[i]
      BY <1>5, <2>2
    <3> HIDE DEF old, new
    <3>4. QED BY <2>2, <3>1, <3>2, <3>3
  <2>3. QED BY <2>1, <2>2
<1>7. \A u, id : Composed(u, id) => Composed(u, id)'
  BY <1>1, <1>6, Forbidding DEF Composed
<1>8. TypeOK'
  BY <1>1, <1>4 DEF NotifierInv, TypeOK, history
<1>9. TablesInv' /\ LocalsInv' /\ ScannedInv'
  BY <1>1, <1>4 DEF NotifierInv, TablesInv, LocalsInv, ScannedInv, history
<1>10. WantedInv'
  BY <1>1, <1>2, <1>4, <1>6 DEF NotifierInv, WantedInv, wants
<1>11. NoDuplicatesInMail'
  <2> SUFFICES \A u \in DOMAIN userToNotify : \A i, j \in 1..Len(userToNotify'[u]) :
                 i < j => userToNotify'[u][j] \notin DuplicatesOf(new_ads[userToNotify'[u][i]])
    <3>1. DOMAIN userToNotify' = DOMAIN userToNotify /\ new_ads' = new_ads
      BY <1>1, <1>4
    <3>2. QED BY <3>1 DEF NoDuplicatesInMail
  <2> TAKE u \in DOMAIN userToNotify
  <2> TAKE i, j \in 1..Len(userToNotify'[u])
  <2> HAVE i < j
  <2>1. CASE u # user \/ ~wants
    BY <1>4, <2>1 DEF NotifierInv, NoDuplicatesInMail
  <2>2. CASE u = user /\ wants
    <3> DEFINE old == userToNotify[user]
               new == userToNotify'[user]
    <3>1. /\ Len(old) \in Nat /\ Len(new) = Len(old) + 1 /\ new[Len(old) + 1] = ad
          /\ \A k \in 1..Len(old) : new[k] = old[k]
      BY <1>5, <2>2
    <3>2. \A k \in 1..Len(old) : ad \notin DuplicatesOf(new_ads[old[k]])
      BY <2>2, Listing, Forbidding DEF wants
    <3>3. \A k, l \in 1..Len(old) : k < l => old[l] \notin DuplicatesOf(new_ads[old[k]])
      BY <1>2 DEF NotifierInv, NoDuplicatesInMail
    <3>4. i \in 1..Len(new) /\ j \in 1..Len(new)
      BY <2>2
    <3> HIDE DEF old, new
    <3>5. i \in 1..Len(old)
      BY <3>1, <3>4
    <3>6. CASE j = Len(old) + 1
      BY <2>2, <3>1, <3>2, <3>5, <3>6 DEF new
    <3>7. CASE j \in 1..Len(old)
      BY <2>2, <3>1, <3>3, <3>5, <3>7 DEF new
    <3>8. j = Len(old) + 1 \/ j \in 1..Len(old)
      BY <3>1, <3>4
    <3>9. QED BY <3>6, <3>7, <3>8
  <2>3. QED BY <2>1, <2>2
<1>12. DueInv'
  BY <1>1 DEF NotifierInv, DueInv, history
<1>13. CompleteInv'
  <2> SUFFICES ASSUME ~failed', NEW q \in due'  PROVE PairInv(q)'
    BY DEF CompleteInv
  <2>1. /\ PairInv(q) /\ q \in due /\ q = <<q[1], q[2]>>
        /\ ads_match(ads[q[2]], alerts[q[1]])
    BY <1>1, PairsFacts DEF NotifierInv, CompleteInv, DueInv, history
  <2>2. ASSUME ads[q[2]].FIRST_TIMESTAMP = datenow
        PROVE  \/ <<q[2], q[1]>> \in left'
               \/ Composed(alerts[q[1]].USERID, q[2])'
    <3>1. CASE <<q[2], q[1]>> # p
      BY <1>1, <1>7, <2>1, <2>2, <3>1 DEF PairInv
    <3>2. CASE <<q[2], q[1]>> = p
      <4>1. q[2] = ad /\ q[1] = alert
        BY <3>2
      <4>2. new_ads[ad] = ads[q[2]] /\ active_alert_list[alert] = alerts[q[1]]
        BY <1>2, <2>1, <4>1 DEF NotifierInv, DueInv
      <4>3. wants \/ ad \in forbidden_ads(user)
        BY <2>1, <4>2 DEF wants
      <4>4. Composed(user, ad)'
        BY <1>1, <1>2, <1>6, <1>7, <4>3 DEF Composed
      <4>5. user = alerts[q[1]].USERID
        BY <4>2
      <4>6. QED BY <1>1, <4>1, <4>4, <4>5
    <3>3. QED BY <3>1, <3>2
  <2>3. QED BY <1>1, <2>1, <2>2 DEF PairInv, history
<1>14. QED BY <1>8, <1>9, <1>10, <1>11, <1>12, <1>13 DEF NotifierInv

LEMMA LoginStep ==
  ASSUME NotifierInv, Login
  PROVE  NotifierInv'
<1>1. /\ UNCHANGED <<alerts, ads, today, works, notifier, history>>
      /\ npc = "listing" /\ npc' = "mailing" /\ left = {}
  BY DEF Login, tables
<1>2. TypeOK' /\ TablesInv' /\ LocalsInv' /\ ScannedInv'
  BY <1>1, Places DEF NotifierInv, TypeOK, TablesInv, LocalsInv, Lists, ScannedInv, notifier, history
<1>3. WantedInv' /\ NoDuplicatesInMail' /\ DueInv'
  BY <1>1, SameLists DEF NotifierInv, WantedInv, NoDuplicatesInMail, DueInv, notifier, history
<1>4. CompleteInv'
  <2> SUFFICES ASSUME ~failed', NEW p \in due'  PROVE PairInv(p)'
    BY DEF CompleteInv
  <2>1. PairInv(p) /\ (p[1] \in DOMAIN active_alert_list => active_alert_list[p[1]] = alerts[p[1]])
    BY <1>1 DEF NotifierInv, CompleteInv, DueInv, history
  <2>2. p[1] \in DOMAIN active_alert_list
    BY <1>1, <2>1 DEF PairInv
  <2>3. alerts[p[1]].USERID \in DOMAIN userToNotify
    BY <1>1, <2>1, <2>2 DEF NotifierInv, LocalsInv
  <2>4. QED BY <1>1, <2>1, <2>2, <2>3, SameLists DEF PairInv, Composed, notifier, history
<1>5. QED BY <1>2, <1>3, <1>4 DEF NotifierInv

(* A mail takes a user's list out, and remembers it. *)
LEMMA SendMailStep ==
  ASSUME SizesAssumption, NotifierInv, NEW user \in Users, SendMail(user)
  PROVE  NotifierInv'
<1>1. /\ UNCHANGED <<alerts, ads, today, works, npc, city, active_alert_list, datenow, new_ads, lastKey, left,
                      failed, due, everOn, everNew>>
      /\ npc = "mailing" /\ user \in DOMAIN userToNotify
      /\ notified' = notified \cup ({user} \X (ads_list(user) \cup forbidden_ads(user)))
      /\ userToNotify' = [v \in DOMAIN userToNotify \ {user} |-> userToNotify[v]]
  BY DEF SendMail, tables
<1>2. /\ userToNotify \in Lists /\ userToNotify' \in Lists'
      /\ DOMAIN userToNotify' = DOMAIN userToNotify \ {user}
      /\ \A u \in DOMAIN userToNotify' : userToNotify'[u] = userToNotify[u]
  BY <1>1 DEF NotifierInv, LocalsInv, Lists
<1>3. \A u \in DOMAIN userToNotify' : \A id :
        /\ id \in ads_list(u)' <=> id \in ads_list(u)
        /\ Composed(u, id)' <=> Composed(u, id)
  <2>1. \A u \in DOMAIN userToNotify' : \A id : id \in ads_list(u)' <=> id \in ads_list(u)
    BY <1>2, Listing
  <2>2. QED BY <1>1, <2>1, Forbidding DEF Composed
<1>4. ads_list(user) \cup forbidden_ads(user) \subseteq Nat
  <2>1. ads_list(user) \subseteq DOMAIN new_ads
    <3>1. userToNotify[user] \in Seq(DOMAIN new_ads)
      BY <1>1, <1>2 DEF Lists
    <3>2. \A i \in 1..Len(userToNotify[user]) : userToNotify[user][i] \in DOMAIN new_ads
      BY <3>1, ElementOfSeq
    <3>3. QED BY <3>2, Listing
  <2>2. DOMAIN new_ads \subseteq Nat
    BY DEF NotifierInv, TypeOK, AdIds, SizesAssumption
  <2>3. \A id \in DOMAIN new_ads : DuplicatesOf(new_ads[id]) \subseteq Nat
    BY DEF NotifierInv, LocalsInv, AdOK, DuplicatesOf
  <2>4. QED BY <2>1, <2>2, <2>3, Forbidding
<1>5. TypeOK'
  BY <1>1, <1>2, <1>4 DEF NotifierInv, TypeOK
<1>6. TablesInv' /\ LocalsInv' /\ ScannedInv'
  BY <1>1, <1>2, Places DEF NotifierInv, TablesInv, LocalsInv, ScannedInv
<1>7. WantedInv'
  BY <1>1, <1>2, <1>3 DEF NotifierInv, WantedInv
<1>8. NoDuplicatesInMail'
  BY <1>1, <1>2 DEF NotifierInv, NoDuplicatesInMail
<1>9. DueInv'
  BY <1>1 DEF NotifierInv, DueInv
<1>10. CompleteInv'
  <2> SUFFICES ASSUME ~failed', NEW p \in due'  PROVE PairInv(p)'
    BY DEF CompleteInv
  <2>1. PairInv(p)
    BY <1>1 DEF NotifierInv, CompleteInv
  <2> DEFINE u == alerts[p[1]].USERID
  <2>2. ASSUME ads[p[2]].FIRST_TIMESTAMP = datenow
        PROVE  (u \in DOMAIN userToNotify' /\ Composed(u, p[2])') \/ <<u, p[2]>> \in notified'
    <3>1. (u \in DOMAIN userToNotify /\ Composed(u, p[2])) \/ <<u, p[2]>> \in notified
      BY <1>1, <2>1, <2>2 DEF PairInv
    <3>2. CASE u = user
      BY <1>1, <3>1, <3>2 DEF Composed
    <3>3. CASE u # user
      BY <1>1, <1>2, <1>3, <3>1, <3>3
    <3>4. QED BY <3>2, <3>3
  <2>3. QED BY <1>1, <2>1, <2>2 DEF PairInv
<1>11. QED BY <1>5, <1>6, <1>7, <1>8, <1>9, <1>10 DEF NotifierInv

(* The end of a run, and of the notifier's thread. *)
LEMMA EndStep ==
  ASSUME SizesAssumption, NotifierInv, Finish \/ Raise \/ Restart
  PROVE  NotifierInv'
<1>1. /\ UNCHANGED <<alerts, ads, today, city, notified>>
      /\ active_alert_list' = EmptyTable /\ new_ads' = EmptyTable
      /\ lastKey' = NoKey /\ userToNotify' = Nobody /\ left' = {}
      /\ everOn' = {} /\ everNew' = {} /\ due' \subseteq due
      /\ npc' \in {"waiting", "dead", "ready"}
      /\ datenow' \in {datenow, 0} /\ works' \in {works, <<>>}
  BY DEF Finish, Raise, Restart, Forget, tables
<1>2. TypeOK'
  <2>1. failed' \in BOOLEAN
    BY DEF Finish, Raise, Restart, Forget, NotifierInv, TypeOK
  <2>2. works' \in Seq(Cities) /\ Len(works') <= MaxWorks
    <3>1. CASE works' = works
      BY <3>1 DEF NotifierInv, TypeOK
    <3>2. CASE works' = <<>>
      BY <3>2 DEF SizesAssumption
    <3>3. QED BY <1>1, <3>1, <3>2
  <2>3. lastKey' \in 0..NAlerts /\ datenow' \in 0..today
    BY <1>1 DEF NotifierInv, TypeOK, NoKey, SizesAssumption
  <2>4. QED BY <1>1, <2>1, <2>2, <2>3, Empty DEF NotifierInv, TypeOK
<1>3. TablesInv' /\ LocalsInv' /\ ScannedInv'
  <2>1. userToNotify' \in Lists'
    BY <1>1, Empty DEF Lists, Nobody
  <2>2. QED BY <1>1, <2>1, Places, Empty DEF NotifierInv, TablesInv, LocalsInv, ScannedInv
<1>4. WantedInv' /\ NoDuplicatesInMail'
  BY <1>1, Empty DEF WantedInv, NoDuplicatesInMail
<1>5. DueInv'
  BY <1>1, Empty DEF NotifierInv, DueInv
<1>6. CompleteInv'
  <2>1. CASE Finish
    <3> SUFFICES ASSUME ~failed', NEW p \in due'  PROVE PairInv(p)'
      BY DEF CompleteInv
    <3>1. /\ ~failed /\ p \in due /\ npc = "mailing" /\ npc' = "waiting"
          /\ DOMAIN userToNotify = {} /\ datenow' = datenow
      BY <2>1 DEF Finish, Forget
    <3>2. PairInv(p)
      BY <3>1 DEF NotifierInv, CompleteInv
    <3>3. QED BY <1>1, <3>1, <3>2 DEF PairInv
  <2>2. CASE Raise \/ Restart
    BY <2>2 DEF Raise, Restart, Forget, CompleteInv
  <2>3. QED BY <2>1, <2>2
<1>7. QED BY <1>2, <1>3, <1>4, <1>5, <1>6 DEF NotifierInv

LEMMA NotifierInit ==
  ASSUME SizesAssumption, ItemsAssumption, Init
  PROVE  NotifierInv
<1>1. /\ today = 1 /\ works = <<>> /\ npc = "ready" /\ city \in Cities
      /\ active_alert_list = EmptyTable /\ new_ads = EmptyTable /\ datenow = 0 /\ lastKey = NoKey
      /\ userToNotify = Nobody /\ left = {}
      /\ failed = FALSE /\ due = {} /\ everOn = {} /\ everNew = {} /\ notified = {}
  BY DEF Init, ItemsAssumption
<1>2. DOMAIN alerts \subseteq AlertIds /\ \A id \in DOMAIN alerts : AlertOK(alerts[id])
  <2>1. PICK ids \in SUBSET AlertIds : alerts \in [ids -> {Merge(a, StatusIs("ON")) : a \in Alerts}]
    BY DEF Init, StatusIs
  <2>2. ASSUME NEW a \in Alerts  PROVE AlertOK(Merge(a, StatusIs("ON")))
    <3>1. MergedFrom(a, StatusIs("ON"), Merge(a, StatusIs("ON")))
      BY Merging
    <3> DEFINE item == Merge(a, StatusIs("ON"))
    <3> HIDE DEF item
    <3>2. MergedFrom(a, StatusIs("ON"), item)
      BY <3>1 DEF item
    <3>3. AlertOK(item)
      BY <3>2, NewValues, ItemsAssumption DEF AlertOK, MergedFrom, ItemsAssumption, Statuses
    <3>4. QED BY <3>3 DEF item
  <2>3. QED BY <2>1, <2>2
<1>3. DOMAIN ads \subseteq AdIds /\ \A id \in DOMAIN ads : AdOK(ads[id])
  <2>1. PICK ids \in OldAds : ads \in [ids -> {Merge(ad, Stamp(1)) : ad \in AdItems}]
    BY DEF Init, Stamp
  <2>2. ASSUME NEW ad \in AdItems  PROVE AdOK(Merge(ad, Stamp(1)))
    <3> DEFINE item == Merge(ad, Stamp(1))
    <3>1. MergedFrom(ad, Stamp(1), item)
      BY Merging
    <3> HIDE DEF item
    <3>2. AdOK(item)
      BY <3>1, NewValues, ItemsAssumption DEF AdOK, MergedFrom, ItemsAssumption
    <3>3. QED BY <3>2 DEF item
  <2>3. QED BY <2>1, <2>2 DEF SizesAssumption, AdIds
<1>4. TablesInv
  BY <1>2, <1>3 DEF TablesInv
<1>5. TypeOK
  <2>1. works \in Seq(Cities) /\ Len(works) <= MaxWorks
    BY <1>1 DEF SizesAssumption
  <2>2. today \in 1..MaxDay /\ datenow \in 0..today /\ lastKey \in 0..NAlerts
    BY <1>1 DEF NoKey, SizesAssumption
  <2>3. QED BY <1>1, <1>4, <2>1, <2>2, Empty DEF TypeOK, TablesInv, AlertOK
<1>6. LocalsInv /\ ScannedInv
  <2>1. userToNotify \in Lists
    BY <1>1, Empty DEF Lists, Nobody
  <2>2. QED BY <1>1, <2>1, Places, Empty DEF LocalsInv, ScannedInv
<1>7. WantedInv /\ NoDuplicatesInMail /\ DueInv /\ CompleteInv
  BY <1>1, Empty DEF WantedInv, NoDuplicatesInMail, DueInv, CompleteInv
<1>8. QED BY <1>4, <1>5, <1>6, <1>7 DEF NotifierInv

LEMMA NotifierStep ==
  ASSUME SizesAssumption, ItemsAssumption, NotifierInv, [Next]_vars
  PROVE  NotifierInv'
<1>1. CASE ChangeAlerts \/ ChangeAds
  BY <1>1, TablesStep
<1>2. CASE NextDay \/ (\E c \in Cities : notifyNewAnnounces(c)) \/ NoWork \/ UNCHANGED vars
  BY <1>2, IdleStep
<1>3. CASE TakeWork
  BY <1>3, TakeWorkStep
<1>4. CASE ScanAlerts
  BY <1>4, ScanAlertsStep
<1>5. CASE ScanAds
  BY <1>5, ScanAdsStep
<1>6. CASE PrepareLists
  BY <1>6, PrepareStep
<1>7. CASE \E p \in left : ListAd(p)
  BY <1>7, ListAdStep
<1>8. CASE Login
  BY <1>8, LoginStep
<1>9. CASE \E u \in Users : SendMail(u)
  BY <1>9, SendMailStep
<1>10. CASE Finish \/ Raise \/ Restart
  BY <1>10, EndStep
<1>11. QED
  BY <1>1, <1>2, <1>3, <1>4, <1>5, <1>6, <1>7, <1>8, <1>9, <1>10 DEF Next, Notify, ChangeAlerts, ChangeAds

LEMMA NotifierInvariant ==
  ASSUME SizesAssumption, ItemsAssumption
  PROVE  Spec => []NotifierInv
<1>1. Init => NotifierInv
  BY NotifierInit
<1>2. NotifierInv /\ [Next]_vars => NotifierInv'
  BY NotifierStep
<1>3. QED BY <1>1, <1>2, PTL DEF Spec

-----------------------------------------------------------------------------
(* The variables have their types, whatever the alerts and the ads: checkAndNotifyUsers meets no
   alert without a user, and no ad that isn't in the list it has scanned. *)
THEOREM NotifierTypes ==
  ASSUME SizesAssumption, ItemsAssumption
  PROVE  Spec => []TypeOK
<1>1. NotifierInv => TypeOK
  BY DEF NotifierInv
<1>2. QED BY <1>1, NotifierInvariant, PTL

(* Nobody is mailed for an alert that was off during the whole run, or about an ad that was gone. *)
THEOREM MailedWantedHolds ==
  ASSUME SizesAssumption, ItemsAssumption
  PROVE  Spec => []MailedWanted
<1>1. NotifierInv => MailedWanted
  <2> SUFFICES ASSUME NotifierInv, NEW u \in DOMAIN userToNotify, NEW id \in ads_list(u)
               PROVE  /\ id \in everNew \cap DOMAIN new_ads
                      /\ \E al \in everOn \cap DOMAIN active_alert_list :
                           active_alert_list[al].USERID = u /\ ads_match(new_ads[id], active_alert_list[al])
    BY DEF MailedWanted
  <2>1. npc \in Holding
    <3>1. npc \in {"listing", "mailing"}
      BY Empty DEF NotifierInv, LocalsInv
    <3>2. QED BY <3>1, Places
  <2>2. id \in DOMAIN new_ads
    <3>1. userToNotify[u] \in Seq(DOMAIN new_ads)
      BY DEF NotifierInv, LocalsInv, Lists
    <3>2. \A i \in 1..Len(userToNotify[u]) : userToNotify[u][i] \in DOMAIN new_ads
      BY <3>1, ElementOfSeq
    <3>3. QED BY <3>2, Listing
  <2>3. QED BY <2>1, <2>2 DEF NotifierInv, WantedInv, ScannedInv
<1>2. QED BY <1>1, NotifierInvariant, PTL

(* The lists checkAndNotifyUsers composes hold no ad after one that declares it its duplicate. *)
THEOREM NoDuplicatesInMailHolds ==
  ASSUME SizesAssumption, ItemsAssumption
  PROVE  Spec => []NoDuplicatesInMail
<1>1. NotifierInv => NoDuplicatesInMail
  BY DEF NotifierInv
<1>2. QED BY <1>1, NotifierInvariant, PTL

(* A run whose scans all went through leaves no user with an alert that was on all along without a
   mail about a matching ad of the day, unless that ad is a duplicate of one in the mail. *)
THEOREM RunCompleteHolds ==
  ASSUME SizesAssumption, ItemsAssumption
  PROVE  Spec => []RunComplete
<1>1. NotifierInv => RunComplete
  BY DEF NotifierInv, CompleteInv, PairInv, RunComplete, RunEnded, Informed, TypeOK
<1>2. QED BY <1>1, NotifierInvariant, PTL

=============================================================================
