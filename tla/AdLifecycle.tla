---------------------------- MODULE AdLifecycle ----------------------------
(***************************************************************************)
(* The life of the ads of one city, in the tables FR_PROPERTIES and        *)
(* FR_SUMMARY.  The pipeline of crawl_and_analyze.sh runs the spiders of   *)
(* the bot, which put the ads they find on the sites and refresh the       *)
(* TIMESTAMP of those already known; then surfyn.py, adapt_model and       *)
(* duplicates_fix, one after the other.  purge_db.sh removes from each     *)
(* table the ads whose TIMESTAMP is too old.  The users deposit and delete *)
(* ads of their own.  Every program reads keys first and writes by key     *)
(* later.  A TIMESTAMP is an AGE here, which grows to the longest delay    *)
(* and no further.  A scan is one step: DynamodbAccess has its pages.      *)
(***************************************************************************)
EXTENDS DynamoTable

CONSTANTS
  Ads,            \* the IDs of the ads the sites list
  Deposits,       \* the IDs of the ads users deposit
  Spiders, SourceOf,   \* the spiders, and the spider of the site of each ad
  Awaited,        \* the spiders the pipeline waits for
  MaxDelay,       \* maxDelayBeforePurgeSec
  MaxDelaySurfyn, \* maxDelayBeforePurgeSecForSurfynAd
  Overlap,        \* whether purge_db.sh may run beside crawl_and_analyze.sh
  Failures        \* whether requests and scans may fail

ASSUME LifecycleAssumption ==
  /\ MaxDelay \in Nat /\ MaxDelaySurfyn \in Nat /\ MaxDelay <= MaxDelaySurfyn
  /\ SourceOf \in [Ads -> Spiders] /\ Awaited \subseteq Spiders
  /\ Overlap \in BOOLEAN /\ Failures \in BOOLEAN
  /\ Ads \cap Deposits = {}   \* the source and its number, and a hash of the user and the time

IDs == Ads \cup Deposits

VARIABLES
  listed,       \* the ads online on their sites
  props,        \* FR_PROPERTIES
  summary,      \* FR_SUMMARY
  images,       \* the ads whose images are in images_$CITY
  stage,        \* where crawl_and_analyze.sh is
  work,         \* the IDs the current stage has still to write
  announces,    \* adapt_model's m_AnnouncesByID
  m_SummaryId,
  spider,       \* whether each spider is crawling
  known,        \* the IDs each spider has got from its scan: self.ads
  seen,         \* the links it has met in the pages
  pending,      \* the ads it has requested the description of
  purge,        \* the table the purge is scanning or removing from
  elementKeyToDelete,
  \* History: what each crawl should have stored, and what it has.
  stable,       \* the ads that have been listed since the crawl began
  broken,       \* a request or scan of the crawl failed
  elapsed       \* the time since the crawl began

tables    == <<props, summary>>
pipeline  == <<stage, work, announces, m_SummaryId>>
spiders   == <<spider, known, seen, pending>>
purging   == <<purge, elementKeyToDelete>>
history   == <<stable, broken, elapsed>>
vars == <<listed, tables, images, pipeline, spiders, purging, history>>

City == [CITY |-> "city"]
Of(s) == [CITY |-> "city", ANNOUNCE_SOURCE |-> s]
Stages == {"begin", "crawl", "surfyn", "read_summary", "put", "update"}

Crawling(s) == spider[s] \in {"scan", "crawl"}

Outdated(item) ==
  /\ "AGE" \in DOMAIN item
  /\ IF "AD_STATUS" \in DOMAIN item
     THEN item.AD_STATUS = "OFF" \/ item.AGE >= MaxDelaySurfyn
     ELSE item.AGE >= MaxDelay

(* A scan for all of found: when scans fail, or another client's key misleads them, any part. *)
Scans(found) == IF Failures THEN SUBSET found ELSE {found}

(* A table after a call that writes it: no program does more about a failure than log it. *)
Writes(old, new) == IF Failures THEN {old, new} ELSE {new}

Init ==
  /\ listed \in SUBSET Ads
  /\ props = EmptyTable /\ summary = EmptyTable
  /\ images = {}
  /\ stage = "begin" /\ work = {} /\ announces = EmptyTable /\ m_SummaryId = {}
  /\ spider = [s \in Spiders |-> "closed"]
  /\ known = [s \in Spiders |-> {}] /\ seen = [s \in Spiders |-> {}] /\ pending = [s \in Spiders |-> {}]
  /\ purge = "idle" /\ elementKeyToDelete = {}
  /\ stable = {} /\ broken = [s \in Spiders |-> FALSE] /\ elapsed = 0

-----------------------------------------------------------------------------
(* The world outside: the sites, the users, the clock. *)
List(id) ==
  /\ id \notin listed /\ listed' = listed \cup {id}
  /\ UNCHANGED <<tables, images, pipeline, spiders, purging, history>>

Unlist(id) ==
  /\ id \in listed /\ listed' = listed \ {id}
  /\ stable' = stable \ {id}
  /\ UNCHANGED <<tables, images, pipeline, spiders, purging, broken, elapsed>>

(* announce_deposit, whose IDs are hashes of the user and the time *)
Deposit(id) ==
  /\ summary' = PutItem(summary, id, Merge(City, [AGE |-> 0, AD_STATUS |-> "ON"]))
  /\ UNCHANGED <<listed, props, images, pipeline, spiders, purging, history>>

(* delete_announce *)
DeleteDeposit(id) ==
  /\ summary' = DeleteItem(summary, id)
  /\ UNCHANGED <<listed, props, images, pipeline, spiders, purging, history>>

Later(age) == IF age < MaxDelaySurfyn THEN age + 1 ELSE age

Older(item) == IF "AGE" \in DOMAIN item THEN [item EXCEPT !.AGE = Later(@)] ELSE item

Tick ==
  /\ props'     = [id \in DOMAIN props     |-> Older(props[id])]
  /\ summary'   = [id \in DOMAIN summary   |-> Older(summary[id])]
  /\ announces' = [id \in DOMAIN announces |-> Older(announces[id])]
  /\ elapsed'  = Later(elapsed)
  /\ UNCHANGED <<listed, images, stage, work, m_SummaryId, spiders, purging, stable, broken>>

-----------------------------------------------------------------------------
(* The spiders.  A spider meets the links of its site in any order; what it does for each
   depends on the scan it made when it started. *)
SpiderScan(s) ==
  /\ spider[s] = "scan"
  /\ \E part \in Scans(Matching(props, Of(s))) :
       /\ known' = [known EXCEPT ![s] = part]
       /\ broken' = [broken EXCEPT ![s] = @ \/ part # Matching(props, Of(s))]
  /\ spider' = [spider EXCEPT ![s] = "crawl"]
  /\ UNCHANGED <<listed, tables, images, pipeline, seen, pending, purging, stable, elapsed>>

Link(s, id) ==
  /\ spider[s] = "crawl"
  /\ id \in listed /\ SourceOf[id] = s /\ id \notin seen[s]
  /\ seen' = [seen EXCEPT ![s] = @ \cup {id}]
  /\ UNCHANGED <<listed, summary, pipeline, spider, known, purging, stable, broken, elapsed>>

(* An unknown ad: its page is requested, its images are saved, its description is requested. *)
FollowLink(s, id) ==
  /\ Link(s, id) /\ id \notin known[s]
  /\ images'  = images \cup {id}
  /\ pending' = [pending EXCEPT ![s] = @ \cup {id}]
  /\ UNCHANGED props

(* Seeded fault: only the ads that are new are written. *)
IgnoreKnown(s, id) ==
  /\ Link(s, id) /\ id \in known[s]
  /\ UNCHANGED <<props, images, pending>>

updateTimeStamp(s, id) ==
  /\ Link(s, id) /\ id \in known[s]
  /\ props' \in Writes(props, UpdateItem(props, id, [AGE |-> 0]))
  /\ UNCHANGED <<images, pending>>

send(s, id) ==
  /\ id \in pending[s]
  /\ props'   = PutItem(props, id, Merge(Of(s), [AGE |-> 0]))
  /\ pending' = [pending EXCEPT ![s] = @ \ {id}]
  /\ UNCHANGED <<listed, summary, images, pipeline, spider, known, seen, purging, history>>

(* The request of the description fails, or the put: the ad is not stored. *)
RequestFails(s, id) ==
  /\ Failures /\ id \in pending[s]
  /\ pending' = [pending EXCEPT ![s] = @ \ {id}]
  /\ broken'  = [broken EXCEPT ![s] = TRUE]
  /\ UNCHANGED <<listed, tables, images, pipeline, spider, known, seen, purging, stable, elapsed>>

(* The spider has followed its site to the end; max_pages is beyond it. *)
closed(s) ==
  /\ spider[s] = "crawl" /\ pending[s] = {}
  /\ \A id \in stable : SourceOf[id] = s => id \in seen[s]
  /\ spider' = [spider EXCEPT ![s] = "closed"]
  /\ known' = [known EXCEPT ![s] = {}] /\ seen' = [seen EXCEPT ![s] = {}]
  /\ UNCHANGED <<listed, tables, images, pipeline, pending, purging, history>>

-----------------------------------------------------------------------------
(* crawl_and_analyze.sh: a run begins with no images and starts all the spiders. *)
BeginCrawl ==
  /\ stage = "begin" /\ \A s \in Spiders : spider[s] = "closed"
  /\ Overlap \/ purge = "idle"
  /\ stage'  = "crawl"
  /\ images' = {}
  /\ spider' = [s \in Spiders |-> "scan"]
  /\ stable' = listed
  /\ broken' = [s \in Spiders |-> FALSE]
  /\ elapsed' = 0
  /\ UNCHANGED <<listed, tables, work, announces, m_SummaryId, known, seen, pending, purging>>

(* Seeded fault: the wait returns at once. *)
DontWait ==
  /\ stage = "crawl"
  /\ stage' = "surfyn" /\ work' = images
  /\ UNCHANGED <<listed, tables, images, announces, m_SummaryId, spiders, purging, history>>

(* The spiders waited for are closed; surfyn.py loads what the images have given. *)
BeginSurfyn ==
  /\ stage = "crawl" /\ \A s \in Awaited : spider[s] = "closed"
  /\ stage' = "surfyn" /\ work' = images
  /\ UNCHANGED <<listed, tables, images, announces, m_SummaryId, spiders, purging, history>>

(* surfyn.py updates an ad that has images close to those of another. *)
UpdateSimilar(id) ==
  /\ stage = "surfyn" /\ id \in work
  /\ work' = work \ {id}
  /\ props' \in {props, UpdateItem(props, id, [TF_SIMILAR_ANNOUNCE |-> 1])}
  /\ UNCHANGED <<listed, summary, images, stage, announces, m_SummaryId, spiders, purging, history>>

(* Seeded fault: the scan has no filter. *)
ReadAllEntries ==
  /\ stage = "surfyn" /\ work = {}
  /\ announces' = props /\ work' = DOMAIN props
  /\ stage' = "read_summary"
  /\ UNCHANGED <<listed, tables, images, m_SummaryId, spiders, purging, history>>

ReadTableAndFormatEntries ==
  /\ stage = "surfyn" /\ work = {}
  /\ \E part \in Scans(Matching(props, City)) :
       /\ announces' = [id \in part |-> props[id]]
       /\ work' = part
  /\ stage' = "read_summary"
  /\ UNCHANGED <<listed, tables, images, m_SummaryId, spiders, purging, history>>

ReadSummaryTable ==
  /\ stage = "read_summary"
  /\ m_SummaryId' \in Scans(Matching(summary, City))
  /\ stage' = "put"
  /\ UNCHANGED <<listed, tables, images, work, announces, spiders, purging, history>>

(* Seeded faults: an ad already in the summary is not updated; the ad is stamped with the
   current time. *)
PutOnly(id) ==
  /\ stage = "put" /\ id \in work
  /\ work' = work \ {id}
  /\ summary' = PutItem(summary, id, Merge(City, [AGE |-> announces[id].AGE]))
  /\ UNCHANGED <<listed, props, images, stage, announces, m_SummaryId, spiders, purging, history>>

PutNow(id) ==
  /\ stage = "put" /\ id \in work
  /\ work' = work \ {id}
  /\ summary' = UpdateItem(summary, id, Merge(City, [AGE |-> 0]))
  /\ UNCHANGED <<listed, props, images, stage, announces, m_SummaryId, spiders, purging, history>>

PutTargetTable(id) ==
  /\ stage = "put" /\ id \in work
  /\ work' = work \ {id}
  /\ LET age == [AGE |-> announces[id].AGE]
     IN  summary' \in Writes(summary, IF id \notin m_SummaryId THEN PutItem(summary, id, Merge(City, age))
                                      ELSE UpdateItem(summary, id, age))
  /\ UNCHANGED <<listed, props, images, stage, announces, m_SummaryId, spiders, purging, history>>

(* duplicates_fix reads the ads of the city, and updates those that have a duplicate.  It does so
   for the houses, then for the flats; the two passes are one here. *)
readTable ==
  /\ stage = "put" /\ work = {}
  /\ work' \in Scans(Matching(summary, City))
  /\ stage' = "update"
  /\ announces' = EmptyTable /\ m_SummaryId' = {}
  /\ UNCHANGED <<listed, tables, images, spiders, purging, history>>

updateTable(id) ==
  /\ stage = "update" /\ id \in work
  /\ work' = work \ {id}
  /\ summary' \in {summary, UpdateItem(summary, id, [DUPLICATES |-> 1])}
  /\ UNCHANGED <<listed, props, images, stage, announces, m_SummaryId, spiders, purging, history>>

EndRun ==
  /\ stage = "update" /\ work = {}
  /\ stage' = "begin"
  /\ UNCHANGED <<listed, tables, images, work, announces, m_SummaryId, spiders, purging, history>>

-----------------------------------------------------------------------------
(* purge_db.sh: purgeRealEstateAd of FR_PROPERTIES, then of FR_SUMMARY *)
\* Seeded fault: the age is not looked at.
AllIDs(tbl) == Matching(tbl, City)

OutdatedIDs(tbl) == {id \in Matching(tbl, City) : Outdated(tbl[id])}

PipelineIdle == stage = "begin" /\ \A s \in Spiders : spider[s] = "closed"

BeginPurge ==
  /\ purge = "idle" /\ (Overlap \/ PipelineIdle)
  /\ elementKeyToDelete' \in Scans(OutdatedIDs(props))
  /\ purge' = "properties"
  /\ UNCHANGED <<listed, tables, images, pipeline, spiders, history>>

(* Seeded fault: FR_SUMMARY is not purged. *)
SkipSummary ==
  /\ purge = "properties" /\ elementKeyToDelete = {}
  /\ purge' = "idle"
  /\ UNCHANGED <<listed, tables, images, pipeline, spiders, elementKeyToDelete, history>>

NextPurge ==
  /\ purge = "properties" /\ elementKeyToDelete = {}
  /\ elementKeyToDelete' \in Scans(OutdatedIDs(summary))
  /\ purge' = "summary"
  /\ UNCHANGED <<listed, tables, images, pipeline, spiders, history>>

remove(id) ==
  /\ id \in elementKeyToDelete
  /\ elementKeyToDelete' = elementKeyToDelete \ {id}
  /\ \/ /\ purge = "properties"
        /\ props' \in Writes(props, DeleteItem(props, id))
        /\ stable' = IF Crawling(SourceOf[id]) THEN stable ELSE stable \ {id}
        /\ UNCHANGED summary
     \/ /\ purge = "summary"
        /\ summary' \in Writes(summary, DeleteItem(summary, id))
        /\ UNCHANGED <<props, stable>>
  /\ UNCHANGED <<listed, images, pipeline, spiders, purge, broken, elapsed>>

EndPurge ==
  /\ purge = "summary" /\ elementKeyToDelete = {}
  /\ purge' = "idle"
  /\ UNCHANGED <<listed, tables, images, pipeline, spiders, elementKeyToDelete, history>>

Crawl(s) ==
  \/ SpiderScan(s)
  \/ \E id \in Ads : FollowLink(s, id) \/ updateTimeStamp(s, id) \/ send(s, id) \/ RequestFails(s, id)
  \/ closed(s)

Analyze ==
  \/ BeginCrawl \/ BeginSurfyn
  \/ \E id \in IDs : UpdateSimilar(id) \/ PutTargetTable(id) \/ updateTable(id)
  \/ ReadTableAndFormatEntries \/ ReadSummaryTable \/ readTable \/ EndRun

Purge ==
  \/ BeginPurge \/ NextPurge \/ EndPurge
  \/ \E id \in IDs : remove(id)

Next ==
  \/ \E id \in Ads : List(id) \/ Unlist(id)
  \/ \E id \in Deposits : Deposit(id) \/ DeleteDeposit(id)
  \/ Tick
  \/ \E s \in Spiders : Crawl(s)
  \/ Analyze
  \/ Purge

Spec == Init /\ [][Next]_vars

(* The scripts and the spiders run to their end, and are started again and again; purge_db.sh
   gets its turn, and time passes. *)
Fairness ==
  /\ WF_vars(Tick) /\ WF_vars(Analyze) /\ \A s \in Spiders : WF_vars(Crawl(s))
  /\ SF_vars(BeginPurge) /\ WF_vars(NextPurge \/ EndPurge \/ \E id \in IDs : remove(id))

FairSpec == Spec /\ Fairness

-----------------------------------------------------------------------------
Attributes == {"CITY", "ANNOUNCE_SOURCE", "AGE", "TF_SIMILAR_ANNOUNCE", "AD_STATUS", "DUPLICATES"}
AgeOK(item) == "AGE" \in DOMAIN item => item.AGE \in 0..MaxDelaySurfyn

(* Values have the types the code gives them. *)
TypeOK ==
  /\ listed \subseteq Ads /\ images \subseteq Ads /\ stable \subseteq Ads
  /\ DOMAIN props \subseteq Ads /\ DOMAIN summary \subseteq IDs
  /\ \A id \in DOMAIN props : DOMAIN props[id] \subseteq Attributes /\ AgeOK(props[id])
  /\ \A id \in DOMAIN summary : DOMAIN summary[id] \subseteq Attributes /\ AgeOK(summary[id])
  /\ stage \in Stages /\ work \subseteq IDs
  /\ DOMAIN announces \subseteq Ads /\ m_SummaryId \subseteq IDs
  /\ \A id \in DOMAIN announces : {"CITY", "AGE"} \subseteq DOMAIN announces[id] /\ AgeOK(announces[id])
  /\ spider \in [Spiders -> {"closed", "scan", "crawl"}]
  /\ known \in [Spiders -> SUBSET Ads] /\ seen \in [Spiders -> SUBSET Ads]
  /\ pending \in [Spiders -> SUBSET Ads] /\ broken \in [Spiders -> BOOLEAN]
  /\ elapsed \in 0..MaxDelaySurfyn
  /\ purge \in {"idle", "properties", "summary"} /\ elementKeyToDelete \subseteq IDs

(* A crawl of the spider s has ended without failures, and its site has listed id all along. *)
Crawled(s, id) == id \in stable /\ SourceOf[id] = s /\ spider[s] = "closed" /\ ~broken[s]

(* After a crawl without failures, FR_PROPERTIES has the whole item of every ad the site listed
   all along, as "la plateforme Surfyn agrège l'ensemble des annonces" promises.  An update
   that comes before the put leaves an item without its CITY: no scan finds it again, and
   every later put of the ad is refused. *)
CrawlStored ==
  \A s \in Spiders, id \in Ads : Crawled(s, id) => id \in Matching(props, Of(s))

(* Such an ad is as fresh as the crawl: its TIMESTAMP is not older than the crawl's beginning,
   whether the spider found it new or known, so that the purge spares the ads still listed. *)
CrawlRefreshed ==
  \A s \in Spiders, id \in Ads :
    Crawled(s, id) /\ id \in Matching(props, Of(s)) => props[id].AGE <= elapsed

(* The purge only removes ads that are outdated when it removes them: none that a spider or
   adapt_model has refreshed since the scan that found it outdated. *)
RemovedOutdated ==
  [][/\ \A id \in DOMAIN props \ DOMAIN props' : Outdated(props[id])
     /\ \A id \in Ads \cap (DOMAIN summary \ DOMAIN summary') : Outdated(summary[id])]_tables

(* When adapt_model ends, FR_SUMMARY has every ad it read, as old as it read it. *)
Adapted ==
  stage = "put" => \A id \in DOMAIN announces \ work :
    id \in Matching(summary, City) /\ summary[id].AGE = announces[id].AGE

(* However the programs overlap and fail, FR_SUMMARY never shows an ad as seen more recently
   than FR_PROPERTIES knows: adapt_model copies a TIMESTAMP that the spiders may have renewed
   since, and never one that is newer. *)
SummaryNotFresher ==
  \A id \in DOMAIN props \cap DOMAIN summary :
    {"AGE"} \subseteq DOMAIN props[id] \cap DOMAIN summary[id] => props[id].AGE <= summary[id].AGE

(* An ad that stays off its site disappears from FR_SUMMARY for good. *)
OldAdsGo == \A id \in Ads : <>[](id \notin listed) => <>[](id \notin DOMAIN summary)

=============================================================================
