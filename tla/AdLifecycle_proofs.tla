------------------------ MODULE AdLifecycle_proofs ------------------------
(* What holds of the tables of a city for any sites, spiders, delays and deposits. *)
EXTENDS AdLifecycle, TLAPS

(* What a stage has still to write is what it has read. *)
WorkInv ==
  /\ stage \in {"begin", "crawl"} => work = {}
  /\ stage = "surfyn" => work \subseteq images
  /\ stage \in {"read_summary", "put"} => work \subseteq DOMAIN announces

(* An item of FR_PROPERTIES that a scan finds has a TIMESTAMP. *)
HasAge == \A id \in DOMAIN props : "CITY" \in DOMAIN props[id] => "AGE" \in DOMAIN props[id]

(* No item of tbl has been seen more recently than FR_PROPERTIES knows. *)
Behind(new, tbl) ==
  \A id \in DOMAIN new \cap DOMAIN tbl :
    {"AGE"} \subseteq DOMAIN new[id] \cap DOMAIN tbl[id] => new[id].AGE <= tbl[id].AGE

FreshInv == TypeOK /\ WorkInv /\ HasAge /\ Behind(props, announces) /\ Behind(props, summary)

ItemOK(item) == DOMAIN item \subseteq Attributes /\ AgeOK(item)

TableOK(tbl, S) == DOMAIN tbl \subseteq S /\ \A id \in DOMAIN tbl : ItemOK(tbl[id])

-----------------------------------------------------------------------------
(* What the calls do to a table. *)
PutFrom(tbl, new, id, item) ==
  /\ DOMAIN new = DOMAIN tbl \cup {id}
  /\ \A i \in DOMAIN tbl : new[i] = tbl[i]
  /\ id \notin DOMAIN tbl => new[id] = item

UpdatedFrom(tbl, new, id, values) ==
  /\ DOMAIN new = DOMAIN tbl \cup {id}
  /\ \A i \in DOMAIN tbl \ {id} : new[i] = tbl[i]
  /\ id \notin DOMAIN tbl => new[id] = values
  /\ id \in DOMAIN tbl =>
       /\ new[id] = Merge(tbl[id], values)
       /\ DOMAIN new[id] = DOMAIN tbl[id] \cup DOMAIN values
       /\ \A a \in DOMAIN values : new[id][a] = values[a]
       /\ \A a \in DOMAIN tbl[id] \ DOMAIN values : new[id][a] = tbl[id][a]

DeletedFrom(tbl, new, id) ==
  DOMAIN new = DOMAIN tbl \ {id} /\ \A i \in DOMAIN new : new[i] = tbl[i]

LEMMA Putting ==
  \A tbl, id, item : PutFrom(tbl, PutItem(tbl, id, item), id, item)
BY DEF PutFrom, PutItem, Store

LEMMA Merging ==
  ASSUME NEW old, NEW new
  PROVE  /\ DOMAIN Merge(old, new) = DOMAIN old \cup DOMAIN new
         /\ \A a \in DOMAIN new : Merge(old, new)[a] = new[a]
         /\ \A a \in DOMAIN old \ DOMAIN new : Merge(old, new)[a] = old[a]
BY DEF Merge

LEMMA Updating ==
  \A tbl, id, values : UpdatedFrom(tbl, UpdateItem(tbl, id, values), id, values)
<1> SUFFICES ASSUME NEW tbl, NEW id, NEW values
             PROVE  UpdatedFrom(tbl, UpdateItem(tbl, id, values), id, values)
  OBVIOUS
<1> DEFINE new == UpdateItem(tbl, id, values)
<1>1. /\ DOMAIN new = DOMAIN tbl \cup {id}
      /\ \A i \in DOMAIN tbl \ {id} : new[i] = tbl[i]
      /\ id \in DOMAIN tbl => new[id] = Merge(tbl[id], values)
      /\ id \notin DOMAIN tbl => new[id] = values
  BY DEF UpdateItem, Store
<1>2. id \in DOMAIN tbl =>
        /\ DOMAIN new[id] = DOMAIN tbl[id] \cup DOMAIN values
        /\ \A a \in DOMAIN values : new[id][a] = values[a]
        /\ \A a \in DOMAIN tbl[id] \ DOMAIN values : new[id][a] = tbl[id][a]
  <2> DEFINE both == Merge(tbl[id], values)
  <2>1. /\ DOMAIN both = DOMAIN tbl[id] \cup DOMAIN values
        /\ \A a \in DOMAIN values : both[a] = values[a]
        /\ \A a \in DOMAIN tbl[id] \ DOMAIN values : both[a] = tbl[id][a]
    BY Merging
  <2>2. id \in DOMAIN tbl => new[id] = both
    BY <1>1
  <2> HIDE DEF new, both
  <2>3. QED BY <2>1, <2>2
<1> HIDE DEF new
<1>3. UpdatedFrom(tbl, new, id, values)
  BY <1>1, <1>2 DEF UpdatedFrom
<1>4. QED BY <1>3 DEF new

LEMMA Deleting ==
  \A tbl, id : DeletedFrom(tbl, DeleteItem(tbl, id), id)
BY DEF DeletedFrom, DeleteItem

LEMMA MergedOK == ASSUME NEW old, NEW new, ItemOK(old), ItemOK(new) PROVE ItemOK(Merge(old, new))
<1> DEFINE both == Merge(old, new)
<1>1. /\ DOMAIN both = DOMAIN old \cup DOMAIN new
      /\ \A a \in DOMAIN new : both[a] = new[a]
      /\ \A a \in DOMAIN old \ DOMAIN new : both[a] = old[a]
  BY Merging
<1> HIDE DEF both
<1>2. DOMAIN both \subseteq Attributes
  BY <1>1 DEF ItemOK
<1>3. AgeOK(both)
  BY <1>1 DEF ItemOK, AgeOK
<1>4. QED BY <1>2, <1>3 DEF ItemOK, both

LEMMA PutOK ==
  ASSUME NEW tbl, NEW S, NEW id \in S, NEW item, TableOK(tbl, S), ItemOK(item)
  PROVE  TableOK(PutItem(tbl, id, item), S)
<1> DEFINE new == PutItem(tbl, id, item)
<1>1. PutFrom(tbl, new, id, item)
  BY Putting
<1> HIDE DEF new
<1>2. QED BY <1>1 DEF PutFrom, TableOK, new

LEMMA UpdateOK ==
  ASSUME NEW tbl, NEW S, NEW id \in S, NEW values, TableOK(tbl, S), ItemOK(values)
  PROVE  TableOK(UpdateItem(tbl, id, values), S)
<1> DEFINE new == UpdateItem(tbl, id, values)
<1>1. UpdatedFrom(tbl, new, id, values)
  BY Updating
<1> HIDE DEF new
<1>2. id \in DOMAIN tbl => ItemOK(new[id])
  BY <1>1, MergedOK DEF UpdatedFrom, TableOK
<1>3. QED BY <1>1, <1>2 DEF UpdatedFrom, TableOK, new

LEMMA DeleteOK ==
  ASSUME NEW tbl, NEW S, NEW id, TableOK(tbl, S)
  PROVE  TableOK(DeleteItem(tbl, id), S)
<1> DEFINE new == DeleteItem(tbl, id)
<1>1. DeletedFrom(tbl, new, id)
  BY Deleting
<1> HIDE DEF new
<1>2. QED BY <1>1 DEF DeletedFrom, TableOK, new

LEMMA LaterOK ==
  ASSUME LifecycleAssumption, NEW a \in 0..MaxDelaySurfyn, NEW b \in 0..MaxDelaySurfyn
  PROVE  Later(a) \in 0..MaxDelaySurfyn /\ a <= Later(a) /\ (a <= b => Later(a) <= Later(b))
BY DEF LifecycleAssumption, Later

LEMMA OlderOK ==
  ASSUME LifecycleAssumption, NEW item, AgeOK(item)
  PROVE  /\ DOMAIN Older(item) = DOMAIN item /\ AgeOK(Older(item))
         /\ "AGE" \in DOMAIN item => Older(item).AGE = Later(item.AGE)
         /\ \A a \in DOMAIN item \ {"AGE"} : Older(item)[a] = item[a]
<1>1. CASE "AGE" \in DOMAIN item
  <2>1. Older(item) = [item EXCEPT !.AGE = Later(item.AGE)]
    BY <1>1 DEF Older
  <2>2. Later(item.AGE) \in 0..MaxDelaySurfyn
    BY <1>1, LaterOK DEF AgeOK
  <2>3. QED BY <1>1, <2>1, <2>2 DEF AgeOK
<1>2. CASE "AGE" \notin DOMAIN item
  BY <1>2 DEF Older, AgeOK
<1>3. QED BY <1>1, <1>2

LEMMA CityItem ==
  ASSUME NEW age
  PROVE  LET item == Merge(City, [AGE |-> age])
         IN  DOMAIN item = {"CITY", "AGE"} /\ item.AGE = age /\ item.CITY = "city"
BY DEF Merge, City

LEMMA NewItems ==
  ASSUME LifecycleAssumption
  PROVE  /\ \A s : ItemOK(Merge(Of(s), [AGE |-> 0])) /\ DOMAIN Merge(Of(s), [AGE |-> 0]) = {"CITY", "ANNOUNCE_SOURCE", "AGE"}
         /\ ItemOK([AGE |-> 0]) /\ ItemOK([TF_SIMILAR_ANNOUNCE |-> 1]) /\ ItemOK([DUPLICATES |-> 1])
         /\ ItemOK(Merge(City, [AGE |-> 0, AD_STATUS |-> "ON"]))
         /\ \A age \in 0..MaxDelaySurfyn : ItemOK([AGE |-> age]) /\ ItemOK(Merge(City, [AGE |-> age]))
<1>1. 0 \in 0..MaxDelaySurfyn
  BY DEF LifecycleAssumption
<1>2. \A s : ItemOK(Of(s)) /\ DOMAIN Of(s) = {"CITY", "ANNOUNCE_SOURCE"}
  BY DEF Of, ItemOK, AgeOK, Attributes
<1>3. ItemOK(City)
  BY DEF City, ItemOK, AgeOK, Attributes
<1>4. \A age \in 0..MaxDelaySurfyn : ItemOK([AGE |-> age])
  BY DEF ItemOK, AgeOK, Attributes
<1>5. ItemOK([TF_SIMILAR_ANNOUNCE |-> 1]) /\ ItemOK([DUPLICATES |-> 1])
  BY DEF ItemOK, AgeOK, Attributes
<1>6. ItemOK([AGE |-> 0, AD_STATUS |-> "ON"])
  BY <1>1 DEF ItemOK, AgeOK, Attributes
<1>7. ItemOK([AGE |-> 0]) /\ DOMAIN [AGE |-> 0] = {"AGE"}
  BY <1>1, <1>4
<1>8. ASSUME NEW s PROVE ItemOK(Merge(Of(s), [AGE |-> 0])) /\ DOMAIN Merge(Of(s), [AGE |-> 0]) = {"CITY", "ANNOUNCE_SOURCE", "AGE"}
  <2>1. ItemOK(Merge(Of(s), [AGE |-> 0]))
    BY <1>2, <1>7, MergedOK
  <2>2. DOMAIN Merge(Of(s), [AGE |-> 0]) = DOMAIN Of(s) \cup DOMAIN [AGE |-> 0]
    BY Merging
  <2>3. QED BY <1>2, <1>7, <2>1, <2>2
<1>9. ItemOK(Merge(City, [AGE |-> 0, AD_STATUS |-> "ON"]))
  BY <1>3, <1>6, MergedOK
<1>10. \A age \in 0..MaxDelaySurfyn : ItemOK(Merge(City, [AGE |-> age]))
  BY <1>3, <1>4, MergedOK
<1>11. QED BY <1>4, <1>5, <1>7, <1>8, <1>9, <1>10

-----------------------------------------------------------------------------
(* Types.  A step writes FR_PROPERTIES, or FR_SUMMARY, or reads; or time passes. *)
PropsStep ==
  \/ \E id \in Ads : props' = UpdateItem(props, id, [AGE |-> 0])
  \/ \E id \in Ads, s \in Spiders : props' = PutItem(props, id, Merge(Of(s), [AGE |-> 0]))
  \/ \E id \in Ads : props' = UpdateItem(props, id, [TF_SIMILAR_ANNOUNCE |-> 1])
  \/ \E id \in IDs : props' = DeleteItem(props, id)

SummaryStep ==
  \/ \E id \in Deposits : summary' = PutItem(summary, id, Merge(City, [AGE |-> 0, AD_STATUS |-> "ON"]))
  \/ \E id \in DOMAIN announces :
       \/ summary' = PutItem(summary, id, Merge(City, [AGE |-> announces[id].AGE]))
       \/ summary' = UpdateItem(summary, id, [AGE |-> announces[id].AGE])
  \/ \E id \in IDs : summary' = UpdateItem(summary, id, [DUPLICATES |-> 1])
  \/ \E id \in IDs : summary' = DeleteItem(summary, id)

AnnouncesStep ==
  \/ announces' = EmptyTable
  \/ \E part \in SUBSET Matching(props, City) : announces' = [id \in part |-> props[id]]

TablesStep ==
  \/ UNCHANGED <<props, summary, announces>>
  \/ PropsStep     /\ UNCHANGED <<summary, announces>>
  \/ SummaryStep   /\ UNCHANGED <<props, announces>>
  \/ AnnouncesStep /\ UNCHANGED <<props, summary>>

LEMMA ScanParts ==
  \A found : \A part \in Scans(found) : part \subseteq found
BY DEF Scans

LEMMA WriteOutcomes ==
  \A old, new : \A tbl \in Writes(old, new) : tbl = old \/ tbl = new
BY DEF Writes

LEMMA NextTables ==
  ASSUME LifecycleAssumption, TypeOK, WorkInv, [Next]_vars
  PROVE  Tick \/ TablesStep
<1> USE DEF tables, pipeline, spiders, purging, history
<1>1. ASSUME NEW id \in Ads, List(id) \/ Unlist(id) PROVE TablesStep
  BY <1>1 DEF List, Unlist, TablesStep
<1>2. ASSUME NEW id \in Deposits, Deposit(id) \/ DeleteDeposit(id) PROVE TablesStep
  BY <1>2 DEF Deposit, DeleteDeposit, TablesStep, SummaryStep, IDs
<1>3. ASSUME NEW s \in Spiders, Crawl(s) PROVE TablesStep
  <2>1. CASE SpiderScan(s) \/ closed(s)
    BY <2>1 DEF SpiderScan, closed, TablesStep
  <2>2. ASSUME NEW id \in Ads, FollowLink(s, id) \/ RequestFails(s, id) PROVE TablesStep
    BY <2>2 DEF FollowLink, RequestFails, Link, TablesStep
  <2>3. ASSUME NEW id \in Ads, updateTimeStamp(s, id) PROVE TablesStep
    <3>1. props' = props \/ props' = UpdateItem(props, id, [AGE |-> 0])
      BY <2>3, WriteOutcomes DEF updateTimeStamp
    <3>2. QED BY <2>3, <3>1 DEF updateTimeStamp, Link, TablesStep, PropsStep
  <2>4. ASSUME NEW id \in Ads, send(s, id) PROVE TablesStep
    BY <2>4 DEF send, TablesStep, PropsStep
  <2>5. QED BY <1>3, <2>1, <2>2, <2>3, <2>4 DEF Crawl
<1>4. CASE Analyze
  <2>1. CASE BeginCrawl \/ BeginSurfyn \/ ReadSummaryTable \/ EndRun
    BY <2>1 DEF BeginCrawl, BeginSurfyn, ReadSummaryTable, EndRun, TablesStep
  <2>2. ASSUME NEW id \in IDs, UpdateSimilar(id) PROVE TablesStep
    <3>1. id \in Ads
      BY <2>2 DEF UpdateSimilar, WorkInv, TypeOK
    <3>2. QED BY <2>2, <3>1 DEF UpdateSimilar, TablesStep, PropsStep
  <2>3. ASSUME NEW id \in IDs, PutTargetTable(id) PROVE TablesStep
    <3>1. id \in DOMAIN announces
      BY <2>3 DEF PutTargetTable, WorkInv
    <3>2. \/ summary' = summary
          \/ summary' = PutItem(summary, id, Merge(City, [AGE |-> announces[id].AGE]))
          \/ summary' = UpdateItem(summary, id, [AGE |-> announces[id].AGE])
      BY <2>3, WriteOutcomes DEF PutTargetTable
    <3>3. UNCHANGED <<props, announces>>
      BY <2>3 DEF PutTargetTable
    <3>4. QED BY <3>1, <3>2, <3>3 DEF TablesStep, SummaryStep
  <2>4. ASSUME NEW id \in IDs, updateTable(id) PROVE TablesStep
    BY <2>4 DEF updateTable, TablesStep, SummaryStep
  <2>5. CASE ReadTableAndFormatEntries
    BY <2>5, ScanParts DEF ReadTableAndFormatEntries, TablesStep, AnnouncesStep
  <2>6. CASE readTable
    BY <2>6 DEF readTable, TablesStep, AnnouncesStep
  <2>7. QED BY <1>4, <2>1, <2>2, <2>3, <2>4, <2>5, <2>6 DEF Analyze
<1>5. CASE Purge
  <2>1. CASE BeginPurge \/ NextPurge \/ EndPurge
    BY <2>1 DEF BeginPurge, NextPurge, EndPurge, TablesStep
  <2>2. ASSUME NEW id \in IDs, remove(id) PROVE TablesStep
    <3>1. UNCHANGED announces
      BY <2>2 DEF remove
    <3>2. \/ UNCHANGED summary /\ (props' = props \/ props' = DeleteItem(props, id))
          \/ UNCHANGED props /\ (summary' = summary \/ summary' = DeleteItem(summary, id))
      BY <2>2, WriteOutcomes DEF remove
    <3>3. QED BY <3>1, <3>2 DEF TablesStep, PropsStep, SummaryStep
  <2>3. QED BY <1>5, <2>1, <2>2 DEF Purge
<1>6. CASE UNCHANGED vars
  BY <1>6 DEF vars, TablesStep
<1>7. QED BY <1>1, <1>2, <1>3, <1>4, <1>5, <1>6 DEF Next

(* The items of adapt_model are of ads, and a scan for the city found them. *)
AnnouncesOK(tbl) ==
  /\ DOMAIN tbl \subseteq Ads
  /\ \A id \in DOMAIN tbl : {"CITY", "AGE"} \subseteq DOMAIN tbl[id] /\ AgeOK(tbl[id])

(* TypeOK without the tables. *)
RestOK ==
  /\ listed \subseteq Ads /\ images \subseteq Ads /\ stable \subseteq Ads
  /\ stage \in Stages /\ work \subseteq IDs /\ m_SummaryId \subseteq IDs
  /\ spider \in [Spiders -> {"closed", "scan", "crawl"}]
  /\ known \in [Spiders -> SUBSET Ads] /\ seen \in [Spiders -> SUBSET Ads]
  /\ pending \in [Spiders -> SUBSET Ads] /\ broken \in [Spiders -> BOOLEAN]
  /\ elapsed \in 0..MaxDelaySurfyn
  /\ purge \in {"idle", "properties", "summary"} /\ elementKeyToDelete \subseteq IDs

LEMMA TypeParts ==
  TypeOK <=> RestOK /\ TableOK(props, Ads) /\ TableOK(summary, IDs) /\ AnnouncesOK(announces)
BY DEF TypeOK, RestOK, TableOK, ItemOK, AnnouncesOK

(* A table after a Tick. *)
Aged(tbl) == [id \in DOMAIN tbl |-> Older(tbl[id])]

LEMMA AgedTable ==
  ASSUME LifecycleAssumption, NEW tbl, \A id \in DOMAIN tbl : AgeOK(tbl[id])
  PROVE  /\ DOMAIN Aged(tbl) = DOMAIN tbl
         /\ \A id \in DOMAIN tbl :
              /\ DOMAIN Aged(tbl)[id] = DOMAIN tbl[id] /\ AgeOK(Aged(tbl)[id])
              /\ "AGE" \in DOMAIN tbl[id] => Aged(tbl)[id].AGE = Later(tbl[id].AGE)
              /\ \A a \in DOMAIN tbl[id] \ {"AGE"} : Aged(tbl)[id][a] = tbl[id][a]
BY OlderOK DEF Aged

LEMMA TickAges ==
  ASSUME Tick
  PROVE  props' = Aged(props) /\ summary' = Aged(summary) /\ announces' = Aged(announces)
BY DEF Tick, Aged

LEMMA AgedOK ==
  ASSUME LifecycleAssumption, NEW tbl
  PROVE  /\ \A S : TableOK(tbl, S) => TableOK(Aged(tbl), S)
         /\ AnnouncesOK(tbl) => AnnouncesOK(Aged(tbl))
<1>1. ASSUME NEW S, TableOK(tbl, S) PROVE TableOK(Aged(tbl), S)
  BY <1>1, AgedTable DEF TableOK, ItemOK
<1>2. ASSUME AnnouncesOK(tbl) PROVE AnnouncesOK(Aged(tbl))
  BY <1>2, AgedTable DEF AnnouncesOK
<1>3. QED BY <1>1, <1>2

LEMMA EmptyOK ==
  /\ \A S : TableOK(EmptyTable, S)
  /\ AnnouncesOK(EmptyTable) /\ DOMAIN EmptyTable = {}
BY DEF EmptyTable, TableOK, AnnouncesOK

LEMMA PropsOK ==
  ASSUME LifecycleAssumption, TableOK(props, Ads), PropsStep
  PROVE  TableOK(props', Ads)
<1>1. CASE \E id \in Ads : props' = UpdateItem(props, id, [AGE |-> 0])
  BY <1>1, NewItems, UpdateOK
<1>2. CASE \E id \in Ads, s \in Spiders : props' = PutItem(props, id, Merge(Of(s), [AGE |-> 0]))
  BY <1>2, NewItems, PutOK
<1>3. CASE \E id \in Ads : props' = UpdateItem(props, id, [TF_SIMILAR_ANNOUNCE |-> 1])
  BY <1>3, NewItems, UpdateOK
<1>4. CASE \E id \in IDs : props' = DeleteItem(props, id)
  BY <1>4, DeleteOK
<1>5. QED BY <1>1, <1>2, <1>3, <1>4 DEF PropsStep

LEMMA SummaryOK ==
  ASSUME LifecycleAssumption, TableOK(summary, IDs), AnnouncesOK(announces), SummaryStep
  PROVE  TableOK(summary', IDs)
<1>1. CASE \E id \in Deposits : summary' = PutItem(summary, id, Merge(City, [AGE |-> 0, AD_STATUS |-> "ON"]))
  <2>1. PICK id \in Deposits : summary' = PutItem(summary, id, Merge(City, [AGE |-> 0, AD_STATUS |-> "ON"]))
    BY <1>1
  <2>2. id \in IDs
    BY DEF IDs
  <2>3. QED BY <2>1, <2>2, NewItems, PutOK
<1>2. ASSUME NEW id \in DOMAIN announces,
             \/ summary' = PutItem(summary, id, Merge(City, [AGE |-> announces[id].AGE]))
             \/ summary' = UpdateItem(summary, id, [AGE |-> announces[id].AGE])
      PROVE  TableOK(summary', IDs)
  <2>1. id \in IDs /\ announces[id].AGE \in 0..MaxDelaySurfyn
    BY DEF IDs, AnnouncesOK, AgeOK
  <2>2. ItemOK([AGE |-> announces[id].AGE]) /\ ItemOK(Merge(City, [AGE |-> announces[id].AGE]))
    BY <2>1, NewItems
  <2>3. QED BY <1>2, <2>1, <2>2, PutOK, UpdateOK
<1>3. CASE \E id \in IDs : summary' = UpdateItem(summary, id, [DUPLICATES |-> 1])
  BY <1>3, NewItems, UpdateOK
<1>4. CASE \E id \in IDs : summary' = DeleteItem(summary, id)
  BY <1>4, DeleteOK
<1>5. QED BY <1>1, <1>2, <1>3, <1>4 DEF SummaryStep

LEMMA AnnouncesFound ==
  ASSUME TableOK(props, Ads), HasAge, AnnouncesStep
  PROVE  AnnouncesOK(announces')
<1>1. ASSUME NEW part \in SUBSET Matching(props, City), announces' = [id \in part |-> props[id]]
      PROVE  AnnouncesOK(announces')
  <2>1. \A id \in part : id \in DOMAIN props /\ "CITY" \in DOMAIN props[id]
    BY DEF Matching, Matches, City
  <2>2. QED BY <1>1, <2>1 DEF TableOK, ItemOK, HasAge, AnnouncesOK
<1>2. QED BY <1>1, EmptyOK DEF AnnouncesStep

LEMMA NextTablesOK ==
  ASSUME LifecycleAssumption, TypeOK, WorkInv, HasAge, [Next]_vars
  PROVE  TableOK(props, Ads)' /\ TableOK(summary, IDs)' /\ AnnouncesOK(announces)'
<1>1. TableOK(props, Ads) /\ TableOK(summary, IDs) /\ AnnouncesOK(announces)
  BY TypeParts
<1>2. CASE Tick
  BY <1>1, <1>2, TickAges, AgedOK
<1>3. CASE TablesStep
  BY <1>1, <1>3, PropsOK, SummaryOK, AnnouncesFound DEF TablesStep
<1>4. QED BY <1>2, <1>3, NextTables

LEMMA NextHasAge ==
  ASSUME LifecycleAssumption, TypeOK, WorkInv, HasAge, [Next]_vars
  PROVE  HasAge'
<1> DEFINE new == props'
<1>1. CASE Tick
  <2>1. DOMAIN new = DOMAIN props /\ \A id \in DOMAIN props : DOMAIN new[id] = DOMAIN props[id]
    BY <1>1, TickAges, AgedTable DEF TypeOK
  <2>2. QED BY <2>1 DEF HasAge
<1>2. ASSUME NEW id \in Ads, props' = UpdateItem(props, id, [AGE |-> 0]) PROVE HasAge'
  <2>1. UpdatedFrom(props, new, id, [AGE |-> 0])
    BY <1>2, Updating
  <2> HIDE DEF new
  <2>2. QED BY <2>1 DEF UpdatedFrom, HasAge, new
<1>3. ASSUME NEW id \in Ads, NEW s \in Spiders, props' = PutItem(props, id, Merge(Of(s), [AGE |-> 0]))
      PROVE  HasAge'
  <2> DEFINE item == Merge(Of(s), [AGE |-> 0])
  <2>1. PutFrom(props, new, id, item)
    BY <1>3, Putting
  <2>2. "AGE" \in DOMAIN item
    BY NewItems
  <2> HIDE DEF new, item
  <2>3. QED BY <2>1, <2>2 DEF PutFrom, HasAge, new
<1>4. ASSUME NEW id \in Ads, props' = UpdateItem(props, id, [TF_SIMILAR_ANNOUNCE |-> 1]) PROVE HasAge'
  <2>1. UpdatedFrom(props, new, id, [TF_SIMILAR_ANNOUNCE |-> 1])
    BY <1>4, Updating
  <2> HIDE DEF new
  <2>2. QED BY <2>1 DEF UpdatedFrom, HasAge, new
<1>5. ASSUME NEW id \in IDs, props' = DeleteItem(props, id) PROVE HasAge'
  <2>1. DeletedFrom(props, new, id)
    BY <1>5, Deleting
  <2> HIDE DEF new
  <2>2. QED BY <2>1 DEF DeletedFrom, HasAge, new
<1>6. CASE UNCHANGED props
  BY <1>6 DEF HasAge
<1>7. QED BY <1>1, <1>2, <1>3, <1>4, <1>5, <1>6, NextTables DEF TablesStep, PropsStep

LEMMA InitFresh == ASSUME LifecycleAssumption, Init PROVE FreshInv
<1>1. TableOK(props, Ads) /\ TableOK(summary, IDs) /\ AnnouncesOK(announces) /\ DOMAIN props = {}
  BY EmptyOK DEF Init
<1>2. RestOK
  BY DEF Init, RestOK, Stages, LifecycleAssumption
<1>3. WorkInv
  BY DEF Init, WorkInv
<1>4. QED BY <1>1, <1>2, <1>3, TypeParts DEF FreshInv, HasAge, Behind

LEMMA PartsOfTables ==
  ASSUME TypeOK
  PROVE  /\ \A filter : Matching(props, filter) \subseteq Ads /\ Matching(summary, filter) \subseteq IDs
         /\ OutdatedIDs(props) \subseteq IDs /\ OutdatedIDs(summary) \subseteq IDs
BY DEF TypeOK, Matching, OutdatedIDs, IDs

LEMMA NextRest ==
  ASSUME LifecycleAssumption, TypeOK, WorkInv, [Next]_vars
  PROVE  RestOK' /\ WorkInv'
<1> USE DEF tables, pipeline, spiders, purging, history, RestOK, WorkInv
<1>0. RestOK /\ DOMAIN announces \subseteq Ads /\ Ads \subseteq IDs
  BY TypeParts DEF AnnouncesOK, IDs
<1>1. ASSUME NEW id \in Ads, List(id) \/ Unlist(id) PROVE RestOK' /\ WorkInv'
  BY <1>0, <1>1 DEF List, Unlist
<1>2. ASSUME NEW id \in Deposits, Deposit(id) \/ DeleteDeposit(id) PROVE RestOK' /\ WorkInv'
  BY <1>0, <1>2 DEF Deposit, DeleteDeposit
<1>3. CASE Tick
  <2>1. Later(elapsed) \in 0..MaxDelaySurfyn
    BY <1>0, LaterOK
  <2>2. DOMAIN announces' = DOMAIN announces
    BY <1>3 DEF Tick
  <2>3. QED BY <1>0, <1>3, <2>1, <2>2 DEF Tick
<1>4. ASSUME NEW s \in Spiders, Crawl(s) PROVE RestOK' /\ WorkInv'
  <2>1. CASE SpiderScan(s)
    <3>1. PICK part \in Scans(Matching(props, Of(s))) :
            /\ known' = [known EXCEPT ![s] = part]
            /\ broken' = [broken EXCEPT ![s] = @ \/ part # Matching(props, Of(s))]
      BY <2>1 DEF SpiderScan
    <3>2. part \subseteq Ads
      BY <3>1, ScanParts, PartsOfTables
    <3>3. broken' \in [Spiders -> BOOLEAN]
      BY <1>0, <3>1, Zenon
    <3>4. QED BY <1>0, <2>1, <3>1, <3>2, <3>3 DEF SpiderScan
  <2>2. CASE closed(s)
    BY <1>0, <2>2 DEF closed
  <2>3. ASSUME NEW id \in Ads, FollowLink(s, id) PROVE RestOK' /\ WorkInv'
    BY <1>0, <2>3 DEF FollowLink, Link
  <2>4. ASSUME NEW id \in Ads, updateTimeStamp(s, id) PROVE RestOK' /\ WorkInv'
    BY <1>0, <2>4 DEF updateTimeStamp, Link
  <2>5. ASSUME NEW id \in Ads, send(s, id) PROVE RestOK' /\ WorkInv'
    BY <1>0, <2>5 DEF send
  <2>6. ASSUME NEW id \in Ads, RequestFails(s, id) PROVE RestOK' /\ WorkInv'
    BY <1>0, <2>6 DEF RequestFails
  <2>7. QED BY <1>4, <2>1, <2>2, <2>3, <2>4, <2>5, <2>6 DEF Crawl
<1>5. CASE Analyze
  <2> USE DEF Stages
  <2>1. CASE BeginCrawl
    <3>1. 0 \in 0..MaxDelaySurfyn
      BY DEF LifecycleAssumption
    <3>2. QED BY <1>0, <2>1, <3>1 DEF BeginCrawl
  <2>2. CASE BeginSurfyn \/ EndRun
    BY <1>0, <2>2 DEF BeginSurfyn, EndRun
  <2>3. ASSUME NEW id \in IDs, UpdateSimilar(id) \/ PutTargetTable(id) \/ updateTable(id)
        PROVE  RestOK' /\ WorkInv'
    BY <1>0, <2>3 DEF UpdateSimilar, PutTargetTable, updateTable
  <2>4. CASE ReadTableAndFormatEntries
    <3>1. PICK part \in Scans(Matching(props, City)) :
            announces' = [id \in part |-> props[id]] /\ work' = part
      BY <2>4 DEF ReadTableAndFormatEntries
    <3>2. part \subseteq Ads /\ DOMAIN announces' = work'
      BY <3>1, ScanParts, PartsOfTables
    <3>3. QED BY <1>0, <2>4, <3>1, <3>2 DEF ReadTableAndFormatEntries
  <2>5. CASE ReadSummaryTable
    <3>1. m_SummaryId' \subseteq IDs
      BY <2>5, ScanParts, PartsOfTables DEF ReadSummaryTable
    <3>2. QED BY <1>0, <2>5, <3>1 DEF ReadSummaryTable
  <2>6. CASE readTable
    <3>1. work' \subseteq IDs
      BY <2>6, ScanParts, PartsOfTables DEF readTable
    <3>2. QED BY <1>0, <2>6, <3>1 DEF readTable
  <2>7. QED BY <1>5, <2>1, <2>2, <2>3, <2>4, <2>5, <2>6 DEF Analyze
<1>6. CASE Purge
  <2>1. CASE BeginPurge \/ NextPurge
    <3>1. elementKeyToDelete' \subseteq IDs
      BY <2>1, ScanParts, PartsOfTables DEF BeginPurge, NextPurge
    <3>2. QED BY <1>0, <2>1, <3>1 DEF BeginPurge, NextPurge
  <2>2. CASE EndPurge
    BY <1>0, <2>2 DEF EndPurge
  <2>3. ASSUME NEW id \in IDs, remove(id) PROVE RestOK' /\ WorkInv'
    <3>1. stable' \subseteq Ads
      BY <1>0, <2>3 DEF remove
    <3>2. QED BY <1>0, <2>3, <3>1 DEF remove
  <2>4. QED BY <1>6, <2>1, <2>2, <2>3 DEF Purge
<1>7. CASE UNCHANGED vars
  BY <1>0, <1>7 DEF vars
<1>8. QED BY <1>1, <1>2, <1>3, <1>4, <1>5, <1>6, <1>7 DEF Next

-----------------------------------------------------------------------------
(* FR_SUMMARY is never fresher than FR_PROPERTIES, and neither is what adapt_model has read. *)
AgesOK(tbl) == \A id \in DOMAIN tbl : AgeOK(tbl[id])

LEMMA TickBehind ==
  ASSUME LifecycleAssumption, NEW tbl, AgesOK(props), AgesOK(tbl), Behind(props, tbl)
  PROVE  Behind(Aged(props), Aged(tbl))
<1> SUFFICES ASSUME NEW id \in DOMAIN props \cap DOMAIN tbl,
                    "AGE" \in DOMAIN props[id], "AGE" \in DOMAIN tbl[id]
             PROVE  Aged(props)[id].AGE <= Aged(tbl)[id].AGE
  BY AgedTable DEF Behind, AgesOK
<1>1. /\ props[id].AGE \in 0..MaxDelaySurfyn /\ tbl[id].AGE \in 0..MaxDelaySurfyn
      /\ props[id].AGE <= tbl[id].AGE
  BY DEF AgesOK, AgeOK, Behind
<1>2. Aged(props)[id].AGE = Later(props[id].AGE) /\ Aged(tbl)[id].AGE = Later(tbl[id].AGE)
  BY AgedTable DEF AgesOK
<1>3. QED BY <1>1, <1>2, LaterOK

(* A refreshed ad is of age 0, and an update of surfyn.py leaves the age alone. *)
LEMMA PropsBehind ==
  ASSUME LifecycleAssumption, NEW tbl, AgesOK(tbl), Behind(props, tbl), PropsStep
  PROVE  Behind(props', tbl)
<1> DEFINE new == props'
<1>0. \A id \in DOMAIN tbl : "AGE" \in DOMAIN tbl[id] => 0 <= tbl[id].AGE
  BY DEF AgesOK, AgeOK
<1>1. ASSUME NEW id \in Ads, props' = UpdateItem(props, id, [AGE |-> 0]) PROVE Behind(new, tbl)
  <2>1. UpdatedFrom(props, new, id, [AGE |-> 0])
    BY <1>1, Updating
  <2> HIDE DEF new
  <2>2. id \in DOMAIN new /\ new[id].AGE = 0
    BY <2>1 DEF UpdatedFrom
  <2>3. QED BY <1>0, <2>1, <2>2 DEF UpdatedFrom, Behind
<1>2. ASSUME NEW id \in Ads, NEW s \in Spiders, props' = PutItem(props, id, Merge(Of(s), [AGE |-> 0]))
      PROVE  Behind(new, tbl)
  <2> DEFINE item == Merge(Of(s), [AGE |-> 0])
  <2>1. PutFrom(props, new, id, item)
    BY <1>2, Putting
  <2>2. item.AGE = 0
    BY Merging
  <2> HIDE DEF new, item
  <2>3. QED BY <1>0, <2>1, <2>2 DEF PutFrom, Behind
<1>3. ASSUME NEW id \in Ads, props' = UpdateItem(props, id, [TF_SIMILAR_ANNOUNCE |-> 1])
      PROVE  Behind(new, tbl)
  <2>1. UpdatedFrom(props, new, id, [TF_SIMILAR_ANNOUNCE |-> 1])
    BY <1>3, Updating
  <2> HIDE DEF new
  <2>2. /\ id \notin DOMAIN props => "AGE" \notin DOMAIN new[id]
        /\ id \in DOMAIN props /\ "AGE" \in DOMAIN new[id] =>
             "AGE" \in DOMAIN props[id] /\ new[id].AGE = props[id].AGE
    BY <2>1 DEF UpdatedFrom
  <2>3. QED BY <2>1, <2>2 DEF UpdatedFrom, Behind
<1>4. ASSUME NEW id \in IDs, props' = DeleteItem(props, id) PROVE Behind(new, tbl)
  <2>1. DeletedFrom(props, new, id)
    BY <1>4, Deleting
  <2> HIDE DEF new
  <2>2. QED BY <2>1 DEF DeletedFrom, Behind
<1>5. QED BY <1>1, <1>2, <1>3, <1>4 DEF PropsStep

(* adapt_model writes the age it has read, which is behind; a deposit isn't in FR_PROPERTIES. *)
LEMMA SummaryBehind ==
  ASSUME LifecycleAssumption, DOMAIN props \subseteq Ads, AnnouncesOK(announces),
         Behind(props, announces), Behind(props, summary), SummaryStep
  PROVE  Behind(props, summary')
<1> DEFINE new == summary'
<1>1. ASSUME NEW id \in Deposits, summary' = PutItem(summary, id, Merge(City, [AGE |-> 0, AD_STATUS |-> "ON"]))
      PROVE  Behind(props, new)
  <2>1. PutFrom(summary, new, id, Merge(City, [AGE |-> 0, AD_STATUS |-> "ON"]))
    BY <1>1, Putting
  <2>2. id \notin DOMAIN props
    BY DEF LifecycleAssumption
  <2> HIDE DEF new
  <2>3. QED BY <2>1, <2>2 DEF PutFrom, Behind
<1>2. ASSUME NEW id \in DOMAIN announces,
             summary' = PutItem(summary, id, Merge(City, [AGE |-> announces[id].AGE]))
      PROVE  Behind(props, new)
  <2> DEFINE item == Merge(City, [AGE |-> announces[id].AGE])
  <2>1. PutFrom(summary, new, id, item)
    BY <1>2, Putting
  <2>2. item.AGE = announces[id].AGE
    BY CityItem
  <2>3. id \in DOMAIN props /\ "AGE" \in DOMAIN props[id] => props[id].AGE <= announces[id].AGE
    BY DEF AnnouncesOK, Behind
  <2> HIDE DEF new, item
  <2>4. QED BY <2>1, <2>2, <2>3 DEF PutFrom, Behind
<1>3. ASSUME NEW id \in DOMAIN announces, summary' = UpdateItem(summary, id, [AGE |-> announces[id].AGE])
      PROVE  Behind(props, new)
  <2>1. UpdatedFrom(summary, new, id, [AGE |-> announces[id].AGE])
    BY <1>3, Updating
  <2>2. id \in DOMAIN props /\ "AGE" \in DOMAIN props[id] => props[id].AGE <= announces[id].AGE
    BY DEF AnnouncesOK, Behind
  <2> HIDE DEF new
  <2>3. id \in DOMAIN new /\ new[id].AGE = announces[id].AGE
    BY <2>1 DEF UpdatedFrom
  <2>4. QED BY <2>1, <2>2, <2>3 DEF UpdatedFrom, Behind
<1>4. ASSUME NEW id \in IDs, summary' = UpdateItem(summary, id, [DUPLICATES |-> 1]) PROVE Behind(props, new)
  <2>1. UpdatedFrom(summary, new, id, [DUPLICATES |-> 1])
    BY <1>4, Updating
  <2> HIDE DEF new
  <2>2. /\ id \notin DOMAIN summary => "AGE" \notin DOMAIN new[id]
        /\ id \in DOMAIN summary /\ "AGE" \in DOMAIN new[id] =>
             "AGE" \in DOMAIN summary[id] /\ new[id].AGE = summary[id].AGE
    BY <2>1 DEF UpdatedFrom
  <2>3. QED BY <2>1, <2>2 DEF UpdatedFrom, Behind
<1>5. ASSUME NEW id \in IDs, summary' = DeleteItem(summary, id) PROVE Behind(props, new)
  <2>1. DeletedFrom(summary, new, id)
    BY <1>5, Deleting
  <2> HIDE DEF new
  <2>2. QED BY <2>1 DEF DeletedFrom, Behind
<1>6. QED BY <1>1, <1>2, <1>3, <1>4, <1>5 DEF SummaryStep

LEMMA AnnouncesBehind ==
  ASSUME AgesOK(props), AnnouncesStep
  PROVE  Behind(props, announces')
<1>1. ASSUME NEW part \in SUBSET Matching(props, City), announces' = [id \in part |-> props[id]]
      PROVE  Behind(props, announces')
  <2>1. \A id \in DOMAIN props : "AGE" \in DOMAIN props[id] => props[id].AGE <= props[id].AGE
    BY DEF AgesOK, AgeOK
  <2>2. QED BY <1>1, <2>1 DEF Behind
<1>2. CASE announces' = EmptyTable
  BY <1>2, EmptyOK DEF Behind
<1>3. QED BY <1>1, <1>2 DEF AnnouncesStep

LEMMA NextFresh ==
  ASSUME LifecycleAssumption, FreshInv, [Next]_vars
  PROVE  FreshInv'
<1>1. TypeOK' /\ WorkInv' /\ HasAge'
  <2>1. RestOK' /\ WorkInv' /\ HasAge'
    BY NextRest, NextHasAge DEF FreshInv
  <2>2. TableOK(props, Ads)' /\ TableOK(summary, IDs)' /\ AnnouncesOK(announces)'
    BY NextTablesOK DEF FreshInv
  <2>3. TypeOK'
    BY <2>1, <2>2 DEF TypeOK, RestOK, TableOK, ItemOK, AnnouncesOK
  <2>4. QED BY <2>1, <2>3
<1>2. /\ AgesOK(props) /\ AgesOK(announces) /\ AgesOK(summary) /\ DOMAIN props \subseteq Ads
      /\ AnnouncesOK(announces) /\ Behind(props, announces) /\ Behind(props, summary)
  BY TypeParts DEF FreshInv, TypeOK, AgesOK
<1>3. Behind(props, announces)' /\ Behind(props, summary)'
  <2>1. CASE Tick
    BY <1>2, <2>1, TickAges, TickBehind
  <2>2. CASE PropsStep /\ UNCHANGED <<summary, announces>>
    BY <1>2, <2>2, PropsBehind
  <2>3. CASE SummaryStep /\ UNCHANGED <<props, announces>>
    BY <1>2, <2>3, SummaryBehind
  <2>4. CASE AnnouncesStep /\ UNCHANGED <<props, summary>>
    BY <1>2, <2>4, AnnouncesBehind
  <2>5. CASE UNCHANGED <<props, summary, announces>>
    BY <1>2, <2>5
  <2>6. QED BY <2>1, <2>2, <2>3, <2>4, <2>5, NextTables DEF TablesStep, FreshInv
<1>4. QED BY <1>1, <1>3 DEF FreshInv

(* However spiders, analyses, purges, deposits and failures of any sites and ads interleave, the
   tables keep items of the attributes that the programs write. *)
THEOREM LifecycleTypes == ASSUME LifecycleAssumption PROVE Spec => []TypeOK
<1>1. Init => FreshInv
  BY InitFresh
<1>2. FreshInv /\ [Next]_vars => FreshInv'
  BY NextFresh
<1>3. FreshInv => TypeOK
  BY DEF FreshInv
<1>4. QED BY <1>1, <1>2, <1>3, PTL DEF Spec

(* ... and FR_SUMMARY never shows an ad as seen more recently than FR_PROPERTIES knows, although
   adapt_model copies TIMESTAMPs it has read long before. *)
THEOREM SummaryNotFresherHolds == ASSUME LifecycleAssumption PROVE Spec => []SummaryNotFresher
<1>1. Init => FreshInv
  BY InitFresh
<1>2. FreshInv /\ [Next]_vars => FreshInv'
  BY NextFresh
<1>3. FreshInv => SummaryNotFresher
  BY DEF FreshInv, SummaryNotFresher, Behind
<1>4. QED BY <1>1, <1>2, <1>3, PTL DEF Spec

-----------------------------------------------------------------------------
(* The purge, when nothing overlaps: the pipeline and its spiders rest while it runs, so what its
   scan found outdated only gets older. *)
PurgeInv ==
  /\ purge # "idle" => PipelineIdle
  /\ \A s \in Spiders : pending[s] # {} => spider[s] = "crawl"
  /\ purge = "properties" => \A id \in elementKeyToDelete \cap DOMAIN props : Outdated(props[id])
  /\ purge = "summary" => \A id \in elementKeyToDelete \cap DOMAIN summary \cap Ads : Outdated(summary[id])

(* The steps of the pipeline and of the spiders. *)
Running == Analyze \/ \E s \in Spiders : Crawl(s)

LEMMA OutdatedStays ==
  ASSUME LifecycleAssumption, NEW item, AgeOK(item), Outdated(item)
  PROVE  Outdated(Older(item))
<1> DEFINE older == Older(item)
<1>1. /\ DOMAIN older = DOMAIN item
      /\ older.AGE = Later(item.AGE)
      /\ \A a \in DOMAIN item \ {"AGE"} : older[a] = item[a]
  BY OlderOK DEF Outdated
<1>2. item.AGE \in 0..MaxDelaySurfyn /\ item.AGE <= Later(item.AGE) /\ Later(item.AGE) \in 0..MaxDelaySurfyn
  BY LaterOK DEF Outdated, AgeOK
<1>3. "AD_STATUS" \in DOMAIN item => older.AD_STATUS = item.AD_STATUS
  BY <1>1
<1> HIDE DEF older
<1>4. Outdated(older)
  BY <1>1, <1>2, <1>3 DEF LifecycleAssumption, Outdated
<1>5. QED BY <1>4 DEF older

LEMMA IdleRunning ==
  ASSUME PurgeInv, Running
  PROVE  purge = "idle" \/ BeginCrawl
<1>1. CASE Analyze
  BY <1>1 DEF Analyze, BeginSurfyn, UpdateSimilar, PutTargetTable, updateTable,
     ReadTableAndFormatEntries, ReadSummaryTable, readTable, EndRun, PurgeInv, PipelineIdle
<1>2. ASSUME NEW s \in Spiders, Crawl(s) PROVE purge = "idle"
  BY <1>2 DEF Crawl, SpiderScan, FollowLink, updateTimeStamp, Link, send, RequestFails, closed,
     PurgeInv, PipelineIdle
<1>3. QED BY <1>1, <1>2 DEF Running

LEMMA RunningPurge ==
  ASSUME ~Overlap, PurgeInv, Running
  PROVE  purge = "idle" /\ purge' = "idle"
<1> USE DEF purging
<1>1. BeginCrawl => purge = "idle"
  BY DEF BeginCrawl
<1>2. ASSUME Analyze PROVE purge' = purge
  BY <1>2 DEF Analyze, BeginCrawl, BeginSurfyn, UpdateSimilar, PutTargetTable, updateTable,
     ReadTableAndFormatEntries, ReadSummaryTable, readTable, EndRun
<1>3. ASSUME NEW s \in Spiders, Crawl(s) PROVE purge' = purge
  BY <1>3 DEF Crawl, SpiderScan, FollowLink, updateTimeStamp, Link, send, RequestFails, closed
<1>4. UNCHANGED purge
  BY <1>2, <1>3 DEF Running
<1>5. QED BY <1>1, <1>4, IdleRunning

(* The pipeline and the spiders remove nothing. *)
LEMMA RunningKeeps ==
  ASSUME Running
  PROVE  DOMAIN props \subseteq DOMAIN props' /\ DOMAIN summary \subseteq DOMAIN summary'
<1> USE DEF tables
<1>0. /\ \A tbl, id, item : DOMAIN tbl \subseteq DOMAIN PutItem(tbl, id, item)
      /\ \A tbl, id, values : DOMAIN tbl \subseteq DOMAIN UpdateItem(tbl, id, values)
  BY DEF PutItem, UpdateItem, Store
<1>1. CASE Analyze
  <2>1. CASE BeginCrawl \/ BeginSurfyn \/ ReadTableAndFormatEntries \/ ReadSummaryTable \/ readTable \/ EndRun
    BY <2>1 DEF BeginCrawl, BeginSurfyn, ReadTableAndFormatEntries, ReadSummaryTable, readTable, EndRun
  <2>2. ASSUME NEW id \in IDs, UpdateSimilar(id) \/ updateTable(id)
        PROVE  DOMAIN props \subseteq DOMAIN props' /\ DOMAIN summary \subseteq DOMAIN summary'
    BY <1>0, <2>2 DEF UpdateSimilar, updateTable
  <2>3. ASSUME NEW id \in IDs, PutTargetTable(id)
        PROVE  DOMAIN props \subseteq DOMAIN props' /\ DOMAIN summary \subseteq DOMAIN summary'
    <3>1. \/ summary' = summary
          \/ summary' = PutItem(summary, id, Merge(City, [AGE |-> announces[id].AGE]))
          \/ summary' = UpdateItem(summary, id, [AGE |-> announces[id].AGE])
      BY <2>3, WriteOutcomes DEF PutTargetTable
    <3>2. QED BY <1>0, <2>3, <3>1 DEF PutTargetTable
  <2>4. QED BY <1>1, <2>1, <2>2, <2>3 DEF Analyze
<1>2. ASSUME NEW s \in Spiders, Crawl(s)
      PROVE  DOMAIN props \subseteq DOMAIN props' /\ DOMAIN summary \subseteq DOMAIN summary'
  <2>1. CASE SpiderScan(s) \/ closed(s)
    BY <2>1 DEF SpiderScan, closed
  <2>2. ASSUME NEW id \in Ads, FollowLink(s, id) \/ RequestFails(s, id) \/ send(s, id)
        PROVE  DOMAIN props \subseteq DOMAIN props' /\ DOMAIN summary \subseteq DOMAIN summary'
    BY <1>0, <2>2 DEF FollowLink, Link, RequestFails, send
  <2>3. ASSUME NEW id \in Ads, updateTimeStamp(s, id)
        PROVE  DOMAIN props \subseteq DOMAIN props' /\ DOMAIN summary \subseteq DOMAIN summary'
    <3>1. props' = props \/ props' = UpdateItem(props, id, [AGE |-> 0])
      BY <2>3, WriteOutcomes DEF updateTimeStamp
    <3>2. QED BY <1>0, <2>3, <3>1 DEF updateTimeStamp, Link
  <2>4. QED BY <1>2, <2>1, <2>2, <2>3 DEF Crawl
<1>3. QED BY <1>1, <1>2 DEF Running

LEMMA RunningPending ==
  ASSUME TypeOK, PurgeInv, Running
  PROVE  \A s \in Spiders : pending'[s] # {} => spider'[s] = "crawl"
<1> USE DEF spiders
<1>0. /\ \A s \in Spiders : pending[s] # {} => spider[s] = "crawl"
      /\ DOMAIN spider = Spiders /\ DOMAIN pending = Spiders
  BY DEF PurgeInv, TypeOK
<1>1. CASE BeginCrawl
  BY <1>0, <1>1 DEF BeginCrawl
<1>2. CASE Analyze /\ ~BeginCrawl
  BY <1>0, <1>2 DEF Analyze, BeginSurfyn, UpdateSimilar, PutTargetTable, updateTable,
     ReadTableAndFormatEntries, ReadSummaryTable, readTable, EndRun
<1>3. ASSUME NEW s \in Spiders, Crawl(s)
      PROVE  \A r \in Spiders : pending'[r] # {} => spider'[r] = "crawl"
  <2>1. CASE SpiderScan(s)
    BY <1>0, <2>1 DEF SpiderScan
  <2>2. CASE closed(s)
    BY <1>0, <2>2 DEF closed
  <2>3. ASSUME NEW id \in Ads, FollowLink(s, id) \/ updateTimeStamp(s, id) \/ send(s, id) \/ RequestFails(s, id)
        PROVE  \A r \in Spiders : pending'[r] # {} => spider'[r] = "crawl"
    BY <1>0, <2>3 DEF FollowLink, updateTimeStamp, Link, send, RequestFails
  <2>4. QED BY <1>3, <2>1, <2>2, <2>3 DEF Crawl
<1>4. QED BY <1>1, <1>2, <1>3 DEF Running

(* A deposit is none of the sites' ads. *)
LEMMA DepositKeeps ==
  ASSUME LifecycleAssumption, NEW id \in Deposits, Deposit(id) \/ DeleteDeposit(id)
  PROVE  /\ \A i \in Ads : i \in DOMAIN summary' <=> i \in DOMAIN summary
         /\ \A i \in Ads \cap DOMAIN summary : summary'[i] = summary[i]
<1>1. id \notin Ads
  BY DEF LifecycleAssumption
<1>2. CASE Deposit(id)
  <2>1. PutFrom(summary, summary', id, Merge(City, [AGE |-> 0, AD_STATUS |-> "ON"]))
    BY <1>2, Putting DEF Deposit
  <2>2. QED BY <1>1, <2>1 DEF PutFrom
<1>3. CASE DeleteDeposit(id)
  <2>1. DeletedFrom(summary, summary', id)
    BY <1>3, Deleting DEF DeleteDeposit
  <2>2. QED BY <1>1, <2>1 DEF DeletedFrom
<1>4. QED BY <1>2, <1>3

(* A removal of another program than the purge is of a deposit. *)
LEMMA PurgeStep ==
  ASSUME LifecycleAssumption, ~Overlap, TypeOK, PurgeInv, [Next]_vars
  PROVE  /\ PurgeInv'
         /\ \A id \in DOMAIN props \ DOMAIN props' : Outdated(props[id])
         /\ \A id \in Ads \cap (DOMAIN summary \ DOMAIN summary') : Outdated(summary[id])
<1> DEFINE Goal ==
      /\ PurgeInv'
      /\ \A id \in DOMAIN props \ DOMAIN props' : Outdated(props[id])
      /\ \A id \in Ads \cap (DOMAIN summary \ DOMAIN summary') : Outdated(summary[id])
<1> USE DEF tables, pipeline, spiders, purging
<1>1. CASE Running
  <2>1. PurgeInv'
    BY <1>1, RunningPurge, RunningPending DEF PurgeInv
  <2>2. DOMAIN props \subseteq DOMAIN props' /\ DOMAIN summary \subseteq DOMAIN summary'
    BY <1>1, RunningKeeps
  <2>3. QED BY <2>1, <2>2
<1>2. ASSUME NEW id \in Ads, List(id) \/ Unlist(id) PROVE Goal
  BY <1>2 DEF List, Unlist, PurgeInv, PipelineIdle
<1>3. ASSUME NEW id \in Deposits, Deposit(id) \/ DeleteDeposit(id) PROVE Goal
  <2>1. /\ \A i \in Ads : i \in DOMAIN summary' <=> i \in DOMAIN summary
        /\ \A i \in Ads \cap DOMAIN summary : summary'[i] = summary[i]
    BY <1>3, DepositKeeps
  <2>2. UNCHANGED <<props, stage, spider, pending, purge, elementKeyToDelete>>
    BY <1>3 DEF Deposit, DeleteDeposit
  <2>3. QED BY <2>1, <2>2 DEF PurgeInv, PipelineIdle
<1>4. CASE Tick
  <2>1. /\ DOMAIN props' = DOMAIN props /\ DOMAIN summary' = DOMAIN summary
        /\ \A id \in DOMAIN props : props'[id] = Older(props[id])
        /\ \A id \in DOMAIN summary : summary'[id] = Older(summary[id])
        /\ UNCHANGED <<stage, spider, pending, purge, elementKeyToDelete>>
    BY <1>4 DEF Tick
  <2>2. /\ \A id \in DOMAIN props : Outdated(props[id]) => Outdated(Older(props[id]))
        /\ \A id \in DOMAIN summary : Outdated(summary[id]) => Outdated(Older(summary[id]))
    BY OutdatedStays DEF TypeOK
  <2>3. QED BY <2>1, <2>2 DEF PurgeInv, PipelineIdle
<1>5. CASE Purge
  <2>1. CASE BeginPurge
    <3>1. elementKeyToDelete' \subseteq OutdatedIDs(props)
      BY <2>1, ScanParts DEF BeginPurge
    <3>2. QED BY <2>1, <3>1 DEF BeginPurge, PurgeInv, PipelineIdle, OutdatedIDs
  <2>2. CASE NextPurge
    <3>1. elementKeyToDelete' \subseteq OutdatedIDs(summary)
      BY <2>2, ScanParts DEF NextPurge
    <3>2. QED BY <2>2, <3>1 DEF NextPurge, PurgeInv, PipelineIdle, OutdatedIDs
  <2>3. CASE EndPurge
    BY <2>3 DEF EndPurge, PurgeInv, PipelineIdle
  <2>4. ASSUME NEW id \in IDs, remove(id) PROVE Goal
    <3>1. /\ id \in elementKeyToDelete /\ elementKeyToDelete' \subseteq elementKeyToDelete
          /\ UNCHANGED <<stage, spider, pending, purge>>
          /\ \/ purge = "properties" /\ UNCHANGED summary /\ (props' = props \/ props' = DeleteItem(props, id))
             \/ purge = "summary" /\ UNCHANGED props /\ (summary' = summary \/ summary' = DeleteItem(summary, id))
      BY <2>4, WriteOutcomes DEF remove
    <3>2. DeletedFrom(props, DeleteItem(props, id), id) /\ DeletedFrom(summary, DeleteItem(summary, id), id)
      BY Deleting
    <3>3. QED BY <3>1, <3>2 DEF DeletedFrom, PurgeInv, PipelineIdle
  <2>5. QED BY <1>5, <2>1, <2>2, <2>3, <2>4 DEF Purge
<1>6. CASE UNCHANGED vars
  BY <1>6 DEF vars, PurgeInv, PipelineIdle
<1>7. QED BY <1>1, <1>2, <1>3, <1>4, <1>5, <1>6 DEF Next, Running

(* Unless purge_db.sh overlaps with the crawl, it removes only ads that are outdated when it
   removes them, however many it has found, and whatever scans and removals fail. *)
THEOREM RemovedOutdatedHolds ==
  ASSUME LifecycleAssumption, ~Overlap PROVE Spec => RemovedOutdated
<1>1. Init => FreshInv /\ PurgeInv
  BY InitFresh DEF Init, PurgeInv
<1>2. FreshInv /\ PurgeInv /\ [Next]_vars => FreshInv' /\ PurgeInv'
  BY NextFresh, PurgeStep DEF FreshInv
<1>3. FreshInv /\ PurgeInv /\ [Next]_vars =>
        [/\ \A id \in DOMAIN props \ DOMAIN props' : Outdated(props[id])
         /\ \A id \in Ads \cap (DOMAIN summary \ DOMAIN summary') : Outdated(summary[id])]_tables
  BY PurgeStep DEF FreshInv
<1>4. QED BY <1>1, <1>2, <1>3, PTL DEF Spec, RemovedOutdated

-----------------------------------------------------------------------------
(* A crawl, when nothing overlaps or fails and every spider is awaited.  An ad is in FR_PROPERTIES
   or its description is still to come, from the moment its spider has met it. *)
Sound == ~Overlap /\ ~Failures /\ Awaited = Spiders

Whole(id, item) ==
  /\ {"CITY", "ANNOUNCE_SOURCE", "AGE"} \subseteq DOMAIN item
  /\ item.CITY = "city" /\ item.ANNOUNCE_SOURCE = SourceOf[id]

Fresh(id) == id \in DOMAIN props /\ props[id].AGE <= elapsed

AdInv(id) ==
  LET s == SourceOf[id]
  IN  /\ id \in DOMAIN props => Whole(id, props[id])
      /\ id \in pending[s] => id \in seen[s] /\ id \notin DOMAIN props
      /\ stage # "begin" /\ id \in images => id \in DOMAIN props \/ id \in pending[s]
      /\ spider[s] = "crawl" => (id \in known[s] => id \in DOMAIN props)
      /\ spider[s] = "crawl" /\ id \in DOMAIN props => id \in known[s] \cup seen[s]
      /\ id \in seen[s] => spider[s] = "crawl" /\ (id \in pending[s] \/ Fresh(id))
      /\ spider[s] = "closed" /\ id \in stable => Fresh(id)

CrawlInv ==
  /\ \A s \in Spiders : spider[s] # "closed" => stage = "crawl"
  /\ \A s \in Spiders : \A id \in pending[s] : SourceOf[id] = s
  /\ \A id \in Ads : AdInv(id)

LEMMA MatchesOf ==
  ASSUME NEW item, NEW s
  PROVE  Matches(item, Of(s)) <=>
           {"CITY", "ANNOUNCE_SOURCE"} \subseteq DOMAIN item /\ item.CITY = "city" /\ item.ANNOUNCE_SOURCE = s
BY DEF Matches, Of

LEMMA CertainScans == ASSUME ~Failures PROVE \A found : \A part \in Scans(found) : part = found
BY DEF Scans

LEMMA CertainWrites == ASSUME ~Failures PROVE \A old, new : \A tbl \in Writes(old, new) : tbl = new
BY DEF Writes

LEMMA NewAd ==
  ASSUME NEW id, NEW s, s = SourceOf[id]
  PROVE  Whole(id, Merge(Of(s), [AGE |-> 0])) /\ Merge(Of(s), [AGE |-> 0]).AGE = 0
BY DEF Whole, Merge, Of

(* What an ad needs of a step: its own item and its own spider. *)
LEMMA SameAd ==
  ASSUME NEW id \in Ads, AdInv(id),
         id \in DOMAIN props' <=> id \in DOMAIN props,
         id \in DOMAIN props => props'[id] = props[id],
         stage' # "begin" => stage # "begin",
         id \in images' => id \in images,
         id \in stable' => id \in stable,
         UNCHANGED elapsed,
         LET s == SourceOf[id]
         IN  /\ spider'[s] = spider[s] /\ pending'[s] = pending[s]
             /\ known'[s] = known[s] /\ seen'[s] = seen[s]
  PROVE  AdInv(id)'
BY DEF AdInv, Whole, Fresh

LEMMA TickCrawl ==
  ASSUME LifecycleAssumption, TypeOK, CrawlInv, Tick, NEW id \in Ads
  PROVE  AdInv(id)'
<1>1. /\ UNCHANGED <<stage, images, stable, spider, pending, known, seen>>
      /\ DOMAIN props' = DOMAIN props /\ elapsed' = Later(elapsed)
  BY DEF Tick, spiders
<1>2. AdInv(id)
  BY DEF CrawlInv
<1>3. CASE id \in DOMAIN props
  <2> DEFINE item == props[id]
             older == props'[id]
  <2>1. /\ DOMAIN older = DOMAIN item
        /\ older.AGE = Later(item.AGE)
        /\ \A a \in DOMAIN item \ {"AGE"} : older[a] = item[a]
        /\ item.AGE \in 0..MaxDelaySurfyn
    <3>1. older = Aged(props)[id]
      BY TickAges
    <3>2. Whole(id, item)
      BY <1>2, <1>3 DEF AdInv
    <3>3. "AGE" \in DOMAIN item /\ AgeOK(item)
      BY <1>3, <3>2 DEF Whole, TypeOK
    <3>4. \A i \in DOMAIN props : AgeOK(props[i])
      BY DEF TypeOK
    <3>5. QED BY <1>3, <3>1, <3>3, <3>4, AgedTable DEF AgeOK
  <2>2. Whole(id, item) => Whole(id, older)
    <3>1. Whole(id, item) => older.CITY = item.CITY /\ older.ANNOUNCE_SOURCE = item.ANNOUNCE_SOURCE
      BY <2>1 DEF Whole
    <3> HIDE DEF item, older
    <3>2. QED BY <2>1, <3>1 DEF Whole
  <2>3. item.AGE <= elapsed => older.AGE <= elapsed'
    <3>1. elapsed \in 0..MaxDelaySurfyn
      BY DEF TypeOK
    <3> HIDE DEF item, older
    <3>2. QED BY <1>1, <2>1, <3>1, LaterOK
  <2>4. Fresh(id) => Fresh(id)'
    BY <1>1, <2>3 DEF Fresh
  <2>5. id \in DOMAIN props => Whole(id, props[id])'
    BY <1>2, <1>3, <2>2 DEF AdInv, Whole
  <2>6. QED BY <1>1, <1>2, <2>4, <2>5 DEF AdInv, Whole
<1>4. CASE id \notin DOMAIN props
  BY <1>1, <1>2, <1>4 DEF AdInv, Fresh
<1>5. QED BY <1>3, <1>4

(* The item of an ad that is refreshed, or marked as similar to another, stays whole. *)
LEMMA UpdatedAd ==
  ASSUME NEW id, NEW tbl, id \in DOMAIN tbl, Whole(id, tbl[id])
  PROVE  /\ LET new == UpdateItem(tbl, id, [AGE |-> 0])
            IN  Whole(id, new[id]) /\ new[id].AGE = 0
         /\ LET new == UpdateItem(tbl, id, [TF_SIMILAR_ANNOUNCE |-> 1])
            IN  Whole(id, new[id]) /\ new[id].AGE = tbl[id].AGE
<1>1. ASSUME NEW new, UpdatedFrom(tbl, new, id, [AGE |-> 0])
      PROVE  Whole(id, new[id]) /\ new[id].AGE = 0
  BY <1>1 DEF UpdatedFrom, Whole
<1>2. ASSUME NEW new, UpdatedFrom(tbl, new, id, [TF_SIMILAR_ANNOUNCE |-> 1])
      PROVE  Whole(id, new[id]) /\ new[id].AGE = tbl[id].AGE
  BY <1>2 DEF UpdatedFrom, Whole
<1>3. QED BY <1>1, <1>2, Updating

LEMMA SpiderCrawl ==
  ASSUME LifecycleAssumption, Sound, TypeOK, CrawlInv, NEW s \in Spiders, Crawl(s), NEW id \in Ads
  PROVE  AdInv(id)'
<1> USE DEF tables, pipeline, purging, spiders, history
<1>0. /\ AdInv(id) /\ SourceOf[id] \in Spiders /\ elapsed \in Nat
      /\ DOMAIN spider = Spiders /\ DOMAIN pending = Spiders /\ DOMAIN known = Spiders /\ DOMAIN seen = Spiders
      /\ \A r \in Spiders : \A j \in pending[r] : SourceOf[j] = r
  BY DEF CrawlInv, LifecycleAssumption, TypeOK
<1>1. CASE SpiderScan(s)
  <2>1. /\ known' = [known EXCEPT ![s] = Matching(props, Of(s))]
        /\ spider[s] = "scan" /\ spider' = [spider EXCEPT ![s] = "crawl"]
        /\ UNCHANGED <<props, stage, images, stable, elapsed, seen, pending>>
    BY <1>1, CertainScans DEF SpiderScan, Sound
  <2>2. CASE SourceOf[id] # s
    BY <1>0, <2>1, <2>2, SameAd
  <2>3. CASE SourceOf[id] = s
    <3>1. spider'[s] = "crawl" /\ known'[s] = Matching(props, Of(s)) /\ id \notin seen[s]
      BY <1>0, <2>1, <2>3 DEF AdInv
    <3>2. id \in DOMAIN props => id \in Matching(props, Of(s))
      BY <1>0, <2>3, MatchesOf DEF AdInv, Whole, Matching
    <3>3. id \in Matching(props, Of(s)) => id \in DOMAIN props
      BY DEF Matching
    <3>4. QED BY <1>0, <2>1, <2>3, <3>1, <3>2, <3>3 DEF AdInv, Whole, Fresh
  <2>4. QED BY <2>2, <2>3
<1>2. CASE closed(s)
  <2>1. /\ spider' = [spider EXCEPT ![s] = "closed"] /\ pending[s] = {} /\ seen' = [seen EXCEPT ![s] = {}]
        /\ known' = [known EXCEPT ![s] = {}]
        /\ \A j \in stable : SourceOf[j] = s => j \in seen[s]
        /\ UNCHANGED <<props, stage, images, stable, elapsed, pending>>
    BY <1>2 DEF closed
  <2>2. CASE SourceOf[id] # s
    BY <1>0, <2>1, <2>2, SameAd
  <2>3. CASE SourceOf[id] = s
    <3>1. spider'[s] = "closed" /\ seen'[s] = {} /\ pending'[s] = {}
      BY <1>0, <2>1
    <3>2. QED BY <1>0, <2>1, <2>3, <3>1 DEF AdInv, Whole, Fresh
  <2>4. QED BY <2>2, <2>3
<1>3. ASSUME NEW j \in Ads, FollowLink(s, j) PROVE AdInv(id)'
  <2>1. /\ spider[s] = "crawl" /\ SourceOf[j] = s /\ j \notin seen[s] /\ j \notin known[s]
        /\ seen' = [seen EXCEPT ![s] = @ \cup {j}] /\ pending' = [pending EXCEPT ![s] = @ \cup {j}]
        /\ images' = images \cup {j}
        /\ UNCHANGED <<props, stage, stable, elapsed, spider, known>>
    BY <1>3 DEF FollowLink, Link
  <2>2. CASE SourceOf[id] # s
    BY <1>0, <2>1, <2>2, SameAd
  <2>3. CASE SourceOf[id] = s
    <3>1. seen'[s] = seen[s] \cup {j} /\ pending'[s] = pending[s] \cup {j}
      BY <1>0, <2>1
    <3>2. CASE id = j
      BY <1>0, <2>1, <2>3, <3>1, <3>2 DEF AdInv, Whole, Fresh
    <3>3. CASE id # j
      BY <1>0, <2>1, <2>3, <3>1, <3>3 DEF AdInv, Whole, Fresh
    <3>4. QED BY <3>2, <3>3
  <2>4. QED BY <2>2, <2>3
<1>4. ASSUME NEW j \in Ads, updateTimeStamp(s, j) PROVE AdInv(id)'
  <2>1. /\ spider[s] = "crawl" /\ SourceOf[j] = s /\ j \notin seen[s] /\ j \in known[s]
        /\ seen' = [seen EXCEPT ![s] = @ \cup {j}]
        /\ UNCHANGED <<stage, images, stable, elapsed, spider, known, pending>>
    BY <1>4 DEF updateTimeStamp, Link
  <2>2. props' = UpdateItem(props, j, [AGE |-> 0])
    BY <1>4, CertainWrites DEF updateTimeStamp, Sound
  <2>3. UpdatedFrom(props, props', j, [AGE |-> 0])
    BY <2>2, Updating
  <2>4. CASE id # j
    <3>1. /\ id \in DOMAIN props' <=> id \in DOMAIN props
          /\ id \in DOMAIN props => props'[id] = props[id]
      BY <2>3, <2>4 DEF UpdatedFrom
    <3>2. seen'[SourceOf[id]] \subseteq seen[SourceOf[id]] \cup {j} /\ seen[SourceOf[id]] \subseteq seen'[SourceOf[id]]
      BY <1>0, <2>1
    <3>3. QED BY <1>0, <2>1, <2>4, <3>1, <3>2 DEF AdInv, Whole, Fresh
  <2>5. CASE id = j
    <3>1. id \in DOMAIN props /\ Whole(id, props[id]) /\ id \notin pending[s]
      BY <1>0, <2>1, <2>5 DEF AdInv
    <3>2. Whole(id, props'[id]) /\ props'[id].AGE = 0 /\ id \in DOMAIN props'
      BY <2>2, <2>3, <2>5, <3>1, UpdatedAd DEF UpdatedFrom
    <3>3. 0 <= elapsed
      BY <1>0
    <3>4. Fresh(id)' /\ Whole(id, props[id])'
      BY <2>1, <3>2, <3>3 DEF Fresh, Whole
    <3>5. id \in seen'[s] /\ pending'[s] = pending[s] /\ known'[s] = known[s] /\ spider'[s] = "crawl"
      BY <1>0, <2>1, <2>5
    <3>6. QED BY <2>1, <2>5, <3>1, <3>4, <3>5 DEF AdInv, Fresh
  <2>6. QED BY <2>4, <2>5
<1>5. ASSUME NEW j \in Ads, send(s, j) PROVE AdInv(id)'
  <2>1. /\ j \in pending[s] /\ pending' = [pending EXCEPT ![s] = @ \ {j}]
        /\ UNCHANGED <<stage, images, stable, elapsed, spider, known, seen>>
    BY <1>5 DEF send
  <2>2. SourceOf[j] = s
    BY <1>0, <2>1
  <2>3. PutFrom(props, props', j, Merge(Of(s), [AGE |-> 0]))
    BY <1>5, Putting DEF send
  <2>4. CASE id # j
    <3>1. /\ id \in DOMAIN props' <=> id \in DOMAIN props
          /\ id \in DOMAIN props => props'[id] = props[id]
      BY <2>3, <2>4 DEF PutFrom
    <3>2. id \in pending'[SourceOf[id]] <=> id \in pending[SourceOf[id]]
      BY <1>0, <2>1, <2>4
    <3>3. QED BY <1>0, <2>1, <3>1, <3>2 DEF AdInv, Whole, Fresh
  <2>5. CASE id = j
    <3>1. id \notin DOMAIN props /\ id \in seen[s] /\ spider[s] = "crawl"
      BY <1>0, <2>1, <2>2, <2>5 DEF AdInv
    <3>2. id \in DOMAIN props' /\ props'[id] = Merge(Of(s), [AGE |-> 0])
      BY <2>3, <2>5, <3>1 DEF PutFrom
    <3>3. Whole(id, props'[id]) /\ props'[id].AGE = 0 /\ 0 <= elapsed
      BY <1>0, <2>2, <2>5, <3>2, NewAd
    <3>4. Fresh(id)' /\ Whole(id, props[id])'
      BY <2>1, <3>2, <3>3 DEF Fresh, Whole
    <3>5. id \notin pending'[s]
      BY <1>0, <2>1, <2>5
    <3>6. QED BY <2>1, <2>2, <2>5, <3>1, <3>4, <3>5 DEF AdInv, Fresh
  <2>6. QED BY <2>4, <2>5
<1>6. ASSUME NEW j \in Ads, RequestFails(s, j) PROVE AdInv(id)'
  BY <1>6 DEF RequestFails, Sound
<1>7. QED BY <1>1, <1>2, <1>3, <1>4, <1>5, <1>6 DEF Crawl

(* When the analysis begins, every spider has closed, and nothing is to come. *)
LEMMA AnalyzeCrawl ==
  ASSUME LifecycleAssumption, Sound, TypeOK, WorkInv, PurgeInv, CrawlInv, Analyze, NEW id \in Ads
  PROVE  AdInv(id)'
<1> USE DEF tables, pipeline, purging, spiders, history
<1>0. /\ AdInv(id) /\ SourceOf[id] \in Spiders
      /\ \A s \in Spiders : spider[s] # "closed" => stage = "crawl"
      /\ \A s \in Spiders : pending[s] # {} => spider[s] = "crawl"
  BY DEF CrawlInv, PurgeInv, LifecycleAssumption
<1>1. CASE BeginCrawl
  <2>1. /\ spider' = [s \in Spiders |-> "scan"] /\ images' = {} /\ \A s \in Spiders : spider[s] = "closed"
        /\ UNCHANGED <<props, known, seen, pending>>
    BY <1>1 DEF BeginCrawl
  <2>2. spider'[SourceOf[id]] = "scan" /\ id \notin seen[SourceOf[id]]
    BY <1>0, <2>1 DEF AdInv
  <2>3. QED BY <1>0, <2>1, <2>2 DEF AdInv, Whole, Fresh
<1>2. CASE BeginSurfyn
  BY <1>0, <1>2 DEF BeginSurfyn, AdInv, Whole, Fresh
<1>3. ASSUME NEW j \in IDs, UpdateSimilar(j) PROVE AdInv(id)'
  <2>1. /\ stage = "surfyn" /\ j \in images /\ j \in Ads
        /\ UNCHANGED <<stage, images, stable, elapsed, spider, known, seen, pending>>
    BY <1>3 DEF UpdateSimilar, WorkInv, TypeOK
  <2>2. CASE UNCHANGED props
    BY <1>0, <2>1, <2>2 DEF AdInv, Whole, Fresh
  <2>3. CASE props' = UpdateItem(props, j, [TF_SIMILAR_ANNOUNCE |-> 1])
    <3>1. UpdatedFrom(props, props', j, [TF_SIMILAR_ANNOUNCE |-> 1])
      BY <2>3, Updating
    <3>2. SourceOf[j] \in Spiders /\ AdInv(j)
      BY <2>1 DEF LifecycleAssumption, CrawlInv
    <3>3. j \notin pending[SourceOf[j]]
      BY <1>0, <2>1, <3>2
    <3>4. j \in DOMAIN props /\ Whole(j, props[j])
      BY <2>1, <3>2, <3>3 DEF AdInv
    <3>5. DOMAIN props' = DOMAIN props
      BY <3>1, <3>4 DEF UpdatedFrom
    <3>6. CASE id # j
      <4>1. id \in DOMAIN props => props'[id] = props[id]
        BY <3>1, <3>6 DEF UpdatedFrom
      <4>2. QED BY <1>0, <2>1, <3>5, <4>1 DEF AdInv, Whole, Fresh
    <3>7. CASE id = j
      <4>1. Whole(id, props'[id]) /\ props'[id].AGE = props[id].AGE
        BY <2>3, <3>4, <3>7, UpdatedAd
      <4>2. Whole(id, props[id])'
        BY <4>1 DEF Whole
      <4>3. QED BY <1>0, <2>1, <3>5, <4>1, <4>2 DEF AdInv, Fresh
    <3>8. QED BY <3>6, <3>7
  <2>4. QED BY <1>3, <2>2, <2>3 DEF UpdateSimilar
<1>4. ASSUME NEW j \in IDs, PutTargetTable(j) \/ updateTable(j) PROVE AdInv(id)'
  BY <1>0, <1>4 DEF PutTargetTable, updateTable, AdInv, Whole, Fresh
<1>5. CASE ReadTableAndFormatEntries \/ ReadSummaryTable \/ readTable
  BY <1>0, <1>5 DEF ReadTableAndFormatEntries, ReadSummaryTable, readTable, AdInv, Whole, Fresh
<1>6. CASE EndRun
  BY <1>0, <1>6 DEF EndRun, AdInv, Whole, Fresh
<1>7. QED BY <1>1, <1>2, <1>3, <1>4, <1>5, <1>6 DEF Analyze

LEMMA PurgeCrawl ==
  ASSUME LifecycleAssumption, TypeOK, PurgeInv, CrawlInv, Purge, ~Overlap, NEW id \in Ads
  PROVE  AdInv(id)'
<1> USE DEF tables, pipeline, purging, spiders, history
<1>0. AdInv(id) /\ SourceOf[id] \in Spiders
  BY DEF CrawlInv, LifecycleAssumption
<1>1. CASE BeginPurge \/ NextPurge \/ EndPurge
  BY <1>0, <1>1 DEF BeginPurge, NextPurge, EndPurge, AdInv, Whole, Fresh
<1>2. ASSUME NEW j \in IDs, remove(j) PROVE AdInv(id)'
  <2>1. /\ UNCHANGED <<stage, images, elapsed, spider, known, seen, pending>>
        /\ \/ props' = props /\ stable' = stable
           \/ /\ purge = "properties"
              /\ props' = props \/ props' = DeleteItem(props, j)
              /\ stable' = IF Crawling(SourceOf[j]) THEN stable ELSE stable \ {j}
    BY <1>2, WriteOutcomes DEF remove
  <2>2. CASE props' = props /\ stable' \subseteq stable
    BY <1>0, <2>1, <2>2 DEF AdInv, Whole, Fresh
  <2>3. CASE props' = DeleteItem(props, j) /\ purge = "properties"
             /\ stable' = IF Crawling(SourceOf[j]) THEN stable ELSE stable \ {j}
    <3>1. DeletedFrom(props, props', j)
      BY <2>3, Deleting
    <3>2. /\ spider[SourceOf[id]] = "closed" /\ stage = "begin"
          /\ stable' \subseteq stable /\ (id = j => id \notin stable')
      BY <1>0, <2>3 DEF PurgeInv, PipelineIdle, Crawling
    <3>3. CASE id # j
      <4>1. /\ id \in DOMAIN props' <=> id \in DOMAIN props
            /\ id \in DOMAIN props => props'[id] = props[id]
        BY <3>1, <3>3 DEF DeletedFrom
      <4>2. QED BY <1>0, <2>1, <3>2, <4>1 DEF AdInv, Whole, Fresh
    <3>4. CASE id = j
      <4>1. id \notin DOMAIN props' /\ id \notin seen[SourceOf[id]] /\ id \notin stable'
        BY <1>0, <3>1, <3>2, <3>4 DEF DeletedFrom, AdInv
      <4>2. QED BY <1>0, <2>1, <3>2, <4>1 DEF AdInv, Whole, Fresh
    <3>5. QED BY <3>3, <3>4
  <2>4. QED BY <2>1, <2>2, <2>3
<1>3. QED BY <1>1, <1>2 DEF Purge

LEMMA NextCrawl ==
  ASSUME LifecycleAssumption, Sound, TypeOK, WorkInv, PurgeInv, CrawlInv, [Next]_vars
  PROVE  CrawlInv'
<1> USE DEF tables, pipeline, purging, spiders, history
<1>0. /\ \A s \in Spiders : spider[s] # "closed" => stage = "crawl"
      /\ \A s \in Spiders : \A id \in pending[s] : SourceOf[id] = s
      /\ \A id \in Ads : AdInv(id)
      /\ DOMAIN spider = Spiders /\ DOMAIN pending = Spiders
  BY DEF CrawlInv, TypeOK
<1>1. \A id \in Ads : AdInv(id)'
  <2> SUFFICES ASSUME NEW id \in Ads PROVE AdInv(id)'
    OBVIOUS
  <2>1. ASSUME NEW j \in Ads, List(j) \/ Unlist(j) PROVE AdInv(id)'
    BY <1>0, <2>1 DEF List, Unlist, AdInv, Whole, Fresh
  <2>2. ASSUME NEW j \in Deposits, Deposit(j) \/ DeleteDeposit(j) PROVE AdInv(id)'
    BY <1>0, <2>2 DEF Deposit, DeleteDeposit, AdInv, Whole, Fresh
  <2>3. CASE UNCHANGED vars
    BY <1>0, <2>3 DEF vars, AdInv, Whole, Fresh
  <2>4. QED BY <2>1, <2>2, <2>3, TickCrawl, SpiderCrawl, AnalyzeCrawl, PurgeCrawl DEF Next, Sound
<1>2. (\A s \in Spiders : spider[s] # "closed" => stage = "crawl")'
      /\ (\A s \in Spiders : \A id \in pending[s] : SourceOf[id] = s)'
  <2> DEFINE Goal == /\ (\A s \in Spiders : spider[s] # "closed" => stage = "crawl")'
                     /\ (\A s \in Spiders : \A id \in pending[s] : SourceOf[id] = s)'
  <2>1. ASSUME NEW s \in Spiders, Crawl(s) PROVE Goal
    <3>1. CASE SpiderScan(s)
      BY <1>0, <3>1 DEF SpiderScan
    <3>2. CASE closed(s)
      BY <1>0, <3>2 DEF closed
    <3>3. ASSUME NEW j \in Ads, FollowLink(s, j) \/ updateTimeStamp(s, j) \/ send(s, j) \/ RequestFails(s, j)
          PROVE  Goal
      BY <1>0, <3>3 DEF FollowLink, updateTimeStamp, Link, send, RequestFails
    <3>4. QED BY <2>1, <3>1, <3>2, <3>3 DEF Crawl
  <2>2. CASE Analyze
    <3>1. CASE BeginCrawl
      BY <1>0, <3>1 DEF BeginCrawl
    <3>2. CASE BeginSurfyn
      <4>1. \A s \in Spiders : spider[s] = "closed"
        BY <3>2 DEF BeginSurfyn, Sound
      <4>2. QED BY <1>0, <3>2, <4>1 DEF BeginSurfyn
    <3>3. CASE Analyze /\ ~BeginCrawl /\ ~BeginSurfyn
      BY <1>0, <3>3 DEF Analyze, UpdateSimilar, PutTargetTable, updateTable,
         ReadTableAndFormatEntries, ReadSummaryTable, readTable, EndRun
    <3>4. QED BY <2>2, <3>1, <3>2, <3>3
  <2>3. CASE Purge
    BY <1>0, <2>3 DEF Purge, BeginPurge, NextPurge, EndPurge, remove
  <2>4. CASE Tick
    BY <1>0, <2>4 DEF Tick
  <2>5. ASSUME NEW j \in Ads, List(j) \/ Unlist(j) PROVE Goal
    BY <1>0, <2>5 DEF List, Unlist
  <2>6. ASSUME NEW j \in Deposits, Deposit(j) \/ DeleteDeposit(j) PROVE Goal
    BY <1>0, <2>6 DEF Deposit, DeleteDeposit
  <2>7. CASE UNCHANGED vars
    BY <1>0, <2>7 DEF vars
  <2>8. QED BY <2>1, <2>2, <2>3, <2>4, <2>5, <2>6, <2>7 DEF Next
<1>3. QED BY <1>1, <1>2 DEF CrawlInv

LEMMA CrawledFresh ==
  ASSUME CrawlInv
  PROVE  CrawlStored /\ CrawlRefreshed
<1>1. ASSUME NEW s \in Spiders, NEW id \in Ads, Crawled(s, id)
      PROVE  id \in Matching(props, Of(s)) /\ props[id].AGE <= elapsed
  <2>1. AdInv(id) /\ SourceOf[id] = s /\ spider[s] = "closed" /\ id \in stable
    BY <1>1 DEF CrawlInv, Crawled
  <2>2. Fresh(id) /\ Whole(id, props[id])
    BY <2>1 DEF AdInv, Fresh
  <2>3. Matches(props[id], Of(s))
    BY <2>1, <2>2, MatchesOf DEF Whole
  <2>4. QED BY <2>2, <2>3 DEF Fresh, Matching
<1>2. QED BY <1>1 DEF CrawlStored, CrawlRefreshed

LEMMA InitCrawl == ASSUME LifecycleAssumption, Init PROVE PurgeInv /\ CrawlInv
<1>1. DOMAIN props = {}
  BY EmptyOK DEF Init
<1>2. QED BY <1>1 DEF LifecycleAssumption, Init, PurgeInv, CrawlInv, AdInv

(* When nothing overlaps or fails and every spider is awaited, an ad that its site has listed
   throughout a crawl is stored whole, whatever the order of links, descriptions, updates and
   purges: no update comes before its put. *)
THEOREM CrawlStoredHolds == ASSUME LifecycleAssumption, Sound PROVE Spec => []CrawlStored
<1>1. Init => FreshInv /\ PurgeInv /\ CrawlInv
  BY InitFresh, InitCrawl
<1>2. FreshInv /\ PurgeInv /\ CrawlInv /\ [Next]_vars => FreshInv' /\ PurgeInv' /\ CrawlInv'
  BY NextFresh, PurgeStep, NextCrawl DEF FreshInv, Sound
<1>3. CrawlInv => CrawlStored
  BY CrawledFresh
<1>4. QED BY <1>1, <1>2, <1>3, PTL DEF Spec

(* ... and it is as fresh as the crawl, whether its spider has found it new or known. *)
THEOREM CrawlRefreshedHolds == ASSUME LifecycleAssumption, Sound PROVE Spec => []CrawlRefreshed
<1>1. Init => FreshInv /\ PurgeInv /\ CrawlInv
  BY InitFresh, InitCrawl
<1>2. FreshInv /\ PurgeInv /\ CrawlInv /\ [Next]_vars => FreshInv' /\ PurgeInv' /\ CrawlInv'
  BY NextFresh, PurgeStep, NextCrawl DEF FreshInv, Sound
<1>3. CrawlInv => CrawlRefreshed
  BY CrawledFresh
<1>4. QED BY <1>1, <1>2, <1>3, PTL DEF Spec

-----------------------------------------------------------------------------
(* adapt_model, when nothing overlaps or fails.  FR_SUMMARY has whole items of ads; while
   adapt_model writes, an ad that it believes absent is there only if it has put it. *)
Shown(id) ==
  id \in DOMAIN summary => {"CITY", "AGE"} \subseteq DOMAIN summary[id] /\ summary[id].CITY = "city"

Written(id) == id \in DOMAIN announces \ work

AdAdapted(id) ==
  /\ Shown(id)
  /\ stage = "update" /\ id \in work => id \in DOMAIN summary
  /\ stage = "put" /\ id \in m_SummaryId => id \in DOMAIN summary
  /\ stage = "put" /\ id \in DOMAIN summary => id \in m_SummaryId \/ Written(id)
  /\ stage = "put" /\ Written(id) => id \in DOMAIN summary /\ summary[id].AGE = announces[id].AGE

AdaptInv ==
  /\ stage = "read_summary" => work = DOMAIN announces
  /\ \A id \in Ads : AdAdapted(id)

LEMMA MatchesCity ==
  ASSUME NEW item
  PROVE  Matches(item, City) <=> "CITY" \in DOMAIN item /\ item.CITY = "city"
BY DEF Matches, City

LEMMA ShownMatching ==
  ASSUME NEW id, Shown(id)
  PROVE  id \in DOMAIN summary <=> id \in Matching(summary, City)
BY MatchesCity DEF Shown, Matching

LEMMA SameAdapted ==
  ASSUME NEW id \in Ads, AdAdapted(id),
         id \in DOMAIN summary' <=> id \in DOMAIN summary,
         id \in DOMAIN summary => summary'[id] = summary[id],
         UNCHANGED <<stage, work, announces, m_SummaryId>>
  PROVE  AdAdapted(id)'
BY DEF AdAdapted, Shown, Written

LEMMA TickAdapt ==
  ASSUME LifecycleAssumption, TypeOK, Tick, NEW id \in Ads, AdAdapted(id)
  PROVE  AdAdapted(id)'
<1>1. /\ UNCHANGED <<stage, work, m_SummaryId>>
      /\ DOMAIN summary' = DOMAIN summary /\ DOMAIN announces' = DOMAIN announces
      /\ summary' = Aged(summary) /\ announces' = Aged(announces)
  BY TickAges DEF Tick, Aged
<1>2. (\A i \in DOMAIN summary : AgeOK(summary[i])) /\ (\A i \in DOMAIN announces : AgeOK(announces[i]))
  BY DEF TypeOK
<1>3. Shown(id)'
  <2> DEFINE item  == summary[id]
             older == summary'[id]
  <2>1. CASE id \in DOMAIN summary
    <3>1. /\ DOMAIN older = DOMAIN item
          /\ \A a \in DOMAIN item \ {"AGE"} : older[a] = item[a]
      BY <1>1, <1>2, <2>1, AgedTable
    <3>2. {"CITY", "AGE"} \subseteq DOMAIN item /\ item.CITY = "city"
      BY <2>1 DEF AdAdapted, Shown
    <3>3. {"CITY", "AGE"} \subseteq DOMAIN older /\ older.CITY = "city"
      BY <3>1, <3>2
    <3>4. QED BY <3>3 DEF Shown
  <2>2. CASE id \notin DOMAIN summary
    BY <1>1, <2>2 DEF Shown
  <2>3. QED BY <2>1, <2>2
<1>4. ASSUME stage = "put", Written(id) PROVE summary'[id].AGE = announces'[id].AGE
  <2>1. /\ id \in DOMAIN summary /\ id \in DOMAIN announces /\ summary[id].AGE = announces[id].AGE
        /\ "AGE" \in DOMAIN summary[id]
    BY <1>4 DEF AdAdapted, Shown, Written
  <2>2. "AGE" \in DOMAIN announces[id]
    BY <2>1 DEF TypeOK
  <2>3. summary'[id].AGE = Later(summary[id].AGE) /\ announces'[id].AGE = Later(announces[id].AGE)
    BY <1>1, <1>2, <2>1, <2>2, AgedTable
  <2>4. QED BY <2>1, <2>3
<1>5. QED BY <1>1, <1>3, <1>4 DEF AdAdapted, Written

LEMMA UpdatedShown ==
  ASSUME NEW id, NEW new, NEW values, Shown(id), id \in DOMAIN summary, UpdatedFrom(summary, new, id, values),
         "CITY" \notin DOMAIN values
  PROVE  {"CITY", "AGE"} \subseteq DOMAIN new[id] /\ new[id].CITY = "city"
BY DEF Shown, UpdatedFrom

(* One ad is written with the age it has been read with. *)
LEMMA PutAdapt ==
  ASSUME LifecycleAssumption, ~Failures, TypeOK, WorkInv, AdaptInv,
         NEW j \in IDs, PutTargetTable(j), NEW id \in Ads
  PROVE  AdAdapted(id)'
<1> DEFINE new == summary'
           values == [AGE |-> announces[j].AGE]
<1>1. /\ stage = "put" /\ stage' = "put" /\ j \in work /\ work' = work \ {j}
      /\ UNCHANGED <<announces, m_SummaryId>>
      /\ j \in DOMAIN announces /\ j \in Ads
  BY DEF PutTargetTable, WorkInv, TypeOK
<1>2. AdAdapted(id) /\ AdAdapted(j)
  BY <1>1 DEF AdaptInv
<1>3. IF j \notin m_SummaryId THEN PutFrom(summary, new, j, Merge(City, values))
                              ELSE UpdatedFrom(summary, new, j, values)
  BY CertainWrites, Putting, Updating DEF PutTargetTable
<1>4. CASE id # j
  <2>1. /\ id \in DOMAIN new <=> id \in DOMAIN summary
        /\ id \in DOMAIN summary => new[id] = summary[id]
    BY <1>3, <1>4 DEF PutFrom, UpdatedFrom
  <2>2. QED BY <1>1, <1>2, <1>4, <2>1 DEF AdAdapted, Shown, Written
<1>5. CASE id = j
  <2>1. id \in DOMAIN new /\ {"CITY", "AGE"} \subseteq DOMAIN new[id]
        /\ new[id].CITY = "city" /\ new[id].AGE = announces[id].AGE
    <3>1. CASE j \notin m_SummaryId
      <4>1. j \notin DOMAIN summary
        BY <1>1, <1>2, <3>1 DEF AdAdapted, Written
      <4>2. new[j] = Merge(City, values) /\ j \in DOMAIN new
        BY <1>3, <3>1, <4>1 DEF PutFrom
      <4>3. QED BY <1>5, <4>2, CityItem
    <3>2. CASE j \in m_SummaryId
      <4>1. j \in DOMAIN summary /\ Shown(j)
        BY <1>1, <1>2, <3>2 DEF AdAdapted
      <4>2. UpdatedFrom(summary, new, j, values) /\ DOMAIN values = {"AGE"}
        BY <1>3, <3>2
      <4>3. {"CITY", "AGE"} \subseteq DOMAIN new[j] /\ new[j].CITY = "city"
        BY <4>1, <4>2, UpdatedShown
      <4>4. new[j].AGE = announces[j].AGE /\ j \in DOMAIN new
        BY <4>1, <4>2 DEF UpdatedFrom
      <4>5. QED BY <1>5, <4>3, <4>4
    <3>3. QED BY <3>1, <3>2
  <2>2. QED BY <1>1, <1>5, <2>1 DEF AdAdapted, Shown, Written
<1>6. QED BY <1>4, <1>5

LEMMA AnalyzeAdapt ==
  ASSUME LifecycleAssumption, ~Failures, TypeOK, WorkInv, AdaptInv, Analyze, NEW id \in Ads
  PROVE  AdAdapted(id)'
<1> USE DEF tables, pipeline
<1>0. AdAdapted(id) /\ Shown(id) /\ (stage = "read_summary" => work = DOMAIN announces)
  BY DEF AdaptInv, AdAdapted
<1>1. CASE BeginCrawl \/ BeginSurfyn \/ EndRun
  BY <1>0, <1>1 DEF BeginCrawl, BeginSurfyn, EndRun, AdAdapted, Shown
<1>2. ASSUME NEW j \in IDs, UpdateSimilar(j) PROVE AdAdapted(id)'
  BY <1>0, <1>2 DEF UpdateSimilar, AdAdapted, Shown
<1>3. CASE ReadTableAndFormatEntries
  BY <1>0, <1>3 DEF ReadTableAndFormatEntries, AdAdapted, Shown
<1>4. CASE ReadSummaryTable
  <2>1. m_SummaryId' = Matching(summary, City) /\ work = DOMAIN announces
        /\ UNCHANGED <<summary, work, announces>> /\ stage' = "put"
    BY <1>0, <1>4, CertainScans DEF ReadSummaryTable
  <2>2. id \in DOMAIN summary <=> id \in m_SummaryId'
    BY <1>0, <2>1, ShownMatching
  <2>3. ~Written(id)'
    BY <2>1 DEF Written
  <2>4. QED BY <1>0, <2>1, <2>2, <2>3 DEF AdAdapted, Shown
<1>5. CASE readTable
  <2>1. work' = Matching(summary, City) /\ UNCHANGED summary /\ stage' = "update"
    BY <1>5, CertainScans DEF readTable
  <2>2. id \in DOMAIN summary <=> id \in work'
    BY <1>0, <2>1, ShownMatching
  <2>3. QED BY <1>0, <2>1, <2>2 DEF AdAdapted, Shown
<1>6. ASSUME NEW j \in IDs, updateTable(j) PROVE AdAdapted(id)'
  <2>1. /\ stage = "update" /\ stage' = "update" /\ j \in work /\ work' = work \ {j}
        /\ summary' = summary \/ summary' = UpdateItem(summary, j, [DUPLICATES |-> 1])
    BY <1>6 DEF updateTable
  <2>2. CASE summary' = summary
    BY <1>0, <2>1, <2>2 DEF AdAdapted, Shown
  <2>3. CASE summary' = UpdateItem(summary, j, [DUPLICATES |-> 1])
    <3> DEFINE new == summary'
    <3>1. UpdatedFrom(summary, new, j, [DUPLICATES |-> 1])
      BY <2>3, Updating
    <3>2. CASE id # j
      <4>1. /\ id \in DOMAIN new <=> id \in DOMAIN summary
            /\ id \in DOMAIN summary => new[id] = summary[id]
        BY <3>1, <3>2 DEF UpdatedFrom
      <4>2. QED BY <1>0, <2>1, <4>1 DEF AdAdapted, Shown
    <3>3. CASE id = j
      <4>1. id \in DOMAIN summary
        BY <1>0, <2>1, <3>3 DEF AdAdapted
      <4>2. {"CITY", "AGE"} \subseteq DOMAIN new[id] /\ new[id].CITY = "city"
        BY <1>0, <3>1, <3>3, <4>1, UpdatedShown
      <4>3. QED BY <2>1, <3>3, <4>2 DEF AdAdapted, Shown
    <3>4. QED BY <3>2, <3>3
  <2>4. QED BY <2>1, <2>2, <2>3
<1>7. QED BY <1>1, <1>2, <1>3, <1>4, <1>5, <1>6, PutAdapt DEF Analyze

LEMMA NextAdapt ==
  ASSUME LifecycleAssumption, ~Overlap, ~Failures, TypeOK, WorkInv, PurgeInv, AdaptInv, [Next]_vars
  PROVE  AdaptInv'
<1> USE DEF tables, pipeline
<1>1. ASSUME NEW id \in Ads PROVE AdAdapted(id)'
  <2>0. AdAdapted(id)
    BY DEF AdaptInv
  <2>1. ASSUME NEW j \in Ads, List(j) \/ Unlist(j) PROVE AdAdapted(id)'
    BY <2>0, <2>1 DEF List, Unlist, AdAdapted, Shown, Written
  <2>2. ASSUME NEW j \in Deposits, Deposit(j) \/ DeleteDeposit(j) PROVE AdAdapted(id)'
    <3>1. UNCHANGED <<stage, work, announces, m_SummaryId>>
      BY <2>2 DEF Deposit, DeleteDeposit
    <3>2. QED BY <2>0, <2>2, <3>1, DepositKeeps, SameAdapted
  <2>3. ASSUME NEW s \in Spiders, Crawl(s) PROVE AdAdapted(id)'
    BY <2>0, <2>3 DEF Crawl, SpiderScan, FollowLink, updateTimeStamp, Link, send, RequestFails, closed,
       AdAdapted, Shown, Written
  <2>4. CASE Purge
    <3>1. CASE BeginPurge \/ NextPurge \/ EndPurge
      BY <2>0, <3>1 DEF BeginPurge, NextPurge, EndPurge, AdAdapted, Shown, Written
    <3>2. ASSUME NEW j \in IDs, remove(j) PROVE AdAdapted(id)'
      <4>1. /\ UNCHANGED <<stage, work, announces, m_SummaryId>>
            /\ \/ summary' = summary
               \/ purge = "summary" /\ summary' = DeleteItem(summary, j)
        BY <3>2, WriteOutcomes DEF remove
      <4>2. CASE summary' = summary
        BY <2>0, <4>1, <4>2 DEF AdAdapted, Shown, Written
      <4>3. CASE purge = "summary" /\ summary' = DeleteItem(summary, j)
        <5>1. DeletedFrom(summary, summary', j)
          BY <4>3, Deleting
        <5>2. stage = "begin"
          BY <4>3 DEF PurgeInv, PipelineIdle
        <5>3. QED BY <2>0, <4>1, <5>1, <5>2 DEF DeletedFrom, AdAdapted, Shown
      <4>4. QED BY <4>1, <4>2, <4>3
    <3>3. QED BY <2>4, <3>1, <3>2 DEF Purge
  <2>5. CASE UNCHANGED vars
    BY <2>0, <2>5 DEF vars, AdAdapted, Shown, Written
  <2>6. QED BY <2>0, <2>1, <2>2, <2>3, <2>4, <2>5, TickAdapt, AnalyzeAdapt DEF Next
<1>2. (stage = "read_summary" => work = DOMAIN announces)'
  <2>0. stage = "read_summary" => work = DOMAIN announces
    BY DEF AdaptInv
  <2>1. CASE Analyze
    <3>1. CASE ReadTableAndFormatEntries
      BY <3>1 DEF ReadTableAndFormatEntries
    <3>2. CASE Analyze /\ ~ReadTableAndFormatEntries
      BY <2>0, <3>2 DEF Analyze, BeginCrawl, BeginSurfyn, UpdateSimilar, PutTargetTable, updateTable,
         ReadSummaryTable, readTable, EndRun
    <3>3. QED BY <2>1, <3>1, <3>2
  <2>2. CASE Tick
    BY <2>0, <2>2 DEF Tick
  <2>3. CASE Purge
    BY <2>0, <2>3 DEF Purge, BeginPurge, NextPurge, EndPurge, remove
  <2>4. ASSUME NEW s \in Spiders, Crawl(s) PROVE (stage = "read_summary" => work = DOMAIN announces)'
    BY <2>0, <2>4 DEF Crawl, SpiderScan, FollowLink, updateTimeStamp, Link, send, RequestFails, closed
  <2>5. ASSUME NEW j \in Ads, List(j) \/ Unlist(j) PROVE (stage = "read_summary" => work = DOMAIN announces)'
    BY <2>0, <2>5 DEF List, Unlist
  <2>6. ASSUME NEW j \in Deposits, Deposit(j) \/ DeleteDeposit(j)
        PROVE  (stage = "read_summary" => work = DOMAIN announces)'
    BY <2>0, <2>6 DEF Deposit, DeleteDeposit
  <2>7. CASE UNCHANGED vars
    BY <2>0, <2>7 DEF vars
  <2>8. QED BY <2>1, <2>2, <2>3, <2>4, <2>5, <2>6, <2>7 DEF Next
<1>3. QED BY <1>1, <1>2 DEF AdaptInv

(* When nothing overlaps or fails, FR_SUMMARY has every ad that adapt_model has written, as old as
   it was read, though what it puts or updates was decided by scans made before. *)
THEOREM AdaptedHolds == ASSUME LifecycleAssumption, ~Overlap, ~Failures PROVE Spec => []Adapted
<1>1. Init => FreshInv /\ PurgeInv /\ AdaptInv
  <2>1. Init => DOMAIN summary = {}
    BY EmptyOK DEF Init
  <2>2. Init => AdaptInv
    BY <2>1 DEF Init, AdaptInv, AdAdapted, Shown
  <2>3. QED BY <2>2, InitFresh, InitCrawl
<1>2. FreshInv /\ PurgeInv /\ AdaptInv /\ [Next]_vars => FreshInv' /\ PurgeInv' /\ AdaptInv'
  BY NextFresh, PurgeStep, NextAdapt DEF FreshInv
<1>3. FreshInv /\ AdaptInv => Adapted
  <2> SUFFICES ASSUME FreshInv, AdaptInv, stage = "put", NEW id \in DOMAIN announces \ work
               PROVE  id \in Matching(summary, City) /\ summary[id].AGE = announces[id].AGE
    BY DEF Adapted
  <2>1. AdAdapted(id) /\ Written(id)
    BY DEF FreshInv, TypeOK, AdaptInv, Written
  <2>2. QED BY <2>1, ShownMatching DEF AdAdapted
<1>4. QED BY <1>1, <1>2, <1>3, PTL DEF Spec
=============================================================================
