--------------------------- MODULE DynamodbAccess ---------------------------
(***************************************************************************)
(* The dynamodb_access service and the clients that scan tables through    *)
(* it.  The service is a TThreadedServer: every client has a connection    *)
(* and a thread of its own, and all the threads run the same handler       *)
(* object.  put, get, update, remove and deleteTable are one remote call   *)
(* each; a scan reads the handler's m_lastEvaluatedKey, makes the remote   *)
(* call, then stores the key that call returned, with no lock: the three   *)
(* are separate steps here.  Every client that scans repeats the call      *)
(* until scanend, whether or not the calls succeed.                        *)
(***************************************************************************)
EXTENDS DynamoTable

CONSTANTS
  Clients,      \* the connections to the service
  TableNames,
  N,            \* the IDs are 1..N
  Items,        \* the items clients put
  Updates,      \* the values clients update
  Filters,      \* the filters clients scan with
  MaxScans,     \* bound: the scans a client makes
  MaxWrites     \* bound: the writing calls there are, all clients together

ASSUME BoundsAssumption == N \in Nat /\ MaxScans \in Nat /\ MaxWrites \in Nat

Keys == 1..N

VARIABLES
  table,                \* the tables, in DynamoDB
  status,               \* the TableStatus of each, "NONE" when it doesn't exist
  m_lastEvaluatedKey,   \* the handler's member, shared by all its threads
  pc,                   \* where each client, or the thread that serves it, is
  req,                  \* the table and filter of the client's scan, the table it creates
  startKey,             \* the ExclusiveStartKey of the client's current call
  page,                 \* the outcome of that call
  got,                  \* the IDs the client has received in this scan
  failed,               \* a call of this scan was answered with success = false
  scans,                \* the scans the client has begun
  writes,               \* the writing calls so far
  \* History: what there was to be found, and whether the scan was undisturbed.
  stable,               \* the IDs that matched at every moment of the scan
  ever,                 \* the IDs that matched at some moment of the scan
  alone                 \* began with an empty key, and no other call stored one since

serviceVars == <<table, status, m_lastEvaluatedKey>>
clientVars  == <<pc, req, startKey, page, got, failed, scans, writes>>
historyVars == <<stable, ever, alone>>
vars == <<serviceVars, clientVars, historyVars>>

(* A scan is under way: before its first call, between two, in the handler before and
   after the remote call. *)
Scanning == {"open", "more", "reading", "answered"}
States   == Scanning \cup {"idle", "done", "stopped", "creating"}

NoPage == [ok |-> FALSE, values |-> {}, last |-> NoKey]
Pages  == [ok : BOOLEAN, values : SUBSET Keys, last : 0..N]

Init ==
  /\ table \in [TableNames -> UNION {[ids -> Items] : ids \in SUBSET Keys}]
  /\ status = [t \in TableNames |-> "ACTIVE"]
  /\ m_lastEvaluatedKey = NoKey
  /\ pc = [c \in Clients |-> "idle"]
  /\ req \in [Clients -> [tablename : TableNames, filter : Filters]]
  /\ \A c, d \in Clients : req[c] = req[d]
  /\ startKey = [c \in Clients |-> NoKey]
  /\ page     = [c \in Clients |-> NoPage]
  /\ got      = [c \in Clients |-> {}]
  /\ failed   = [c \in Clients |-> FALSE]
  /\ scans    = [c \in Clients |-> 0]
  /\ writes   = 0
  /\ stable   = [c \in Clients |-> {}]
  /\ ever     = [c \in Clients |-> {}]
  /\ alone    = [c \in Clients |-> FALSE]

(***************************************************************************)
(* The calls that write.  A call the remote side refuses changes nothing,  *)
(* and is not an action.                                                   *)
(***************************************************************************)
Free(c) == pc[c] \in {"idle", "done"}

(* Table t becomes new; the history follows what the scans of t could still find *)
Write(t, new) ==
  LET scansT(c) == pc[c] \in Scanning /\ req[c].tablename = t
      found(c)  == Matching(new, req[c].filter)
  IN  /\ writes < MaxWrites /\ writes' = writes + 1
      /\ table'  = [table EXCEPT ![t] = new]
      /\ stable' = [c \in Clients |-> IF scansT(c) THEN stable[c] \cap found(c) ELSE stable[c]]
      /\ ever'   = [c \in Clients |-> IF scansT(c) THEN ever[c] \cup found(c) ELSE ever[c]]
      /\ UNCHANGED <<m_lastEvaluatedKey, pc, req, startKey, page, got, failed, scans, alone>>

put(c, t, id, item) ==
  /\ Free(c) /\ status[t] = "ACTIVE"
  /\ Write(t, PutItem(table[t], id, item))
  /\ UNCHANGED status

update(c, t, id, values) ==
  /\ Free(c) /\ status[t] = "ACTIVE"
  /\ Write(t, UpdateItem(table[t], id, values))
  /\ UNCHANGED status

remove(c, t, id) ==
  /\ Free(c) /\ status[t] = "ACTIVE"
  /\ Write(t, DeleteItem(table[t], id))
  /\ UNCHANGED status

deleteTable(c, t) ==
  /\ Free(c) /\ status[t] = "ACTIVE"
  /\ Write(t, EmptyTable)
  /\ status' = [status EXCEPT ![t] = "NONE"]

(***************************************************************************)
(* createTable answers only when the table is ACTIVE, whatever the remote  *)
(* CreateTable answered.                                                   *)
(***************************************************************************)
createTable(c, t) ==
  /\ Free(c)
  /\ pc'  = [pc EXCEPT ![c] = "creating"]
  /\ req' = [req EXCEPT ![c].tablename = t]
  /\ \/ status[t] = "NONE" /\ status' = [status EXCEPT ![t] = "CREATING"]
     \/ UNCHANGED status                       \* refused: it exists, or for another reason
  /\ writes < MaxWrites /\ writes' = writes + 1
  /\ UNCHANGED <<table, m_lastEvaluatedKey, startKey, page, got, failed, scans, historyVars>>

WaitUntilActive(c) ==
  /\ pc[c] = "creating" /\ status[req[c].tablename] = "ACTIVE"
  /\ pc' = [pc EXCEPT ![c] = "idle"]
  /\ UNCHANGED <<serviceVars, req, startKey, page, got, failed, scans, writes, historyVars>>

(* DynamoDB finishes a table's creation *)
TableActive(t) ==
  /\ status[t] = "CREATING"
  /\ status' = [status EXCEPT ![t] = "ACTIVE"]
  /\ UNCHANGED <<table, m_lastEvaluatedKey, clientVars, historyVars>>

(***************************************************************************)
(* A scan, from the client's loop into the handler and back.               *)
(***************************************************************************)
ScanBegin(c, t, f) ==
  /\ Free(c) /\ scans[c] < MaxScans
  /\ pc'     = [pc EXCEPT ![c] = "open"]
  /\ req'    = [req EXCEPT ![c] = [tablename |-> t, filter |-> f]]
  /\ got'    = [got EXCEPT ![c] = {}]
  /\ failed' = [failed EXCEPT ![c] = FALSE]
  /\ scans'  = [scans EXCEPT ![c] = @ + 1]
  /\ stable' = [stable EXCEPT ![c] = Matching(table[t], f)]
  /\ ever'   = [ever EXCEPT ![c] = Matching(table[t], f)]
  /\ UNCHANGED <<serviceVars, startKey, page, writes, alone>>

(* Seeded fault: every call starts at the beginning of the table. *)
ScanFromStart(c) ==
  /\ pc[c] \in {"open", "more"}
  /\ alone'    = [alone EXCEPT ![c] = IF pc[c] = "open" THEN m_lastEvaluatedKey = NoKey ELSE @]
  /\ pc'       = [pc EXCEPT ![c] = "reading"]
  /\ UNCHANGED <<serviceVars, req, startKey, page, got, failed, scans, writes, stable, ever>>

ScanReadKey(c) ==
  /\ pc[c] \in {"open", "more"}
  /\ startKey' = [startKey EXCEPT ![c] = m_lastEvaluatedKey]
  /\ alone'    = [alone EXCEPT ![c] = IF pc[c] = "open" THEN m_lastEvaluatedKey = NoKey ELSE @]
  /\ pc'       = [pc EXCEPT ![c] = "reading"]
  /\ UNCHANGED <<serviceVars, req, page, got, failed, scans, writes, stable, ever>>

(* Seeded faults: the scan forgets its filter; it answers the key of the item after its last. *)
UnfilteredOutcomes(c) ==
  {NoPage, [ok |-> TRUE, last |-> NoKey,
            values |-> {id \in DOMAIN table[req[c].tablename] : startKey[c] < id}]}

OutcomesNextKey(c) ==
  {[ok |-> TRUE, last |-> k + 1,
    values |-> ItemsBetween(table[req[c].tablename], req[c].filter, startKey[c], k)] :
     k \in {i \in DOMAIN table[req[c].tablename] : startKey[c] < i}}

(* The remote Scan reads on from the start key and stops at the end of the table, or at
   any item of it: the size of a response is bounded.  A failed one has no key. *)
Outcomes(c) ==
  LET tbl == table[req[c].tablename]
      items(upto) == ItemsBetween(tbl, req[c].filter, startKey[c], upto)
  IN  IF status[req[c].tablename] = "ACTIVE"
      THEN {NoPage, [ok |-> TRUE, values |-> items(N), last |-> NoKey]} \cup
           {[ok |-> TRUE, values |-> items(k), last |-> k] :
              k \in {i \in DOMAIN tbl : startKey[c] < i}}
      ELSE {NoPage}

ScanCall(c) ==
  /\ pc[c] = "reading"
  /\ \E p \in Outcomes(c) : page' = [page EXCEPT ![c] = p]
  /\ pc' = [pc EXCEPT ![c] = "answered"]
  /\ startKey' = [startKey EXCEPT ![c] = NoKey]
  /\ UNCHANGED <<serviceVars, req, got, failed, scans, writes, historyVars>>

(* Seeded faults: the answer to a failed call says success; an empty key is not stored. *)
AnswerSuccess(c) ==
  /\ pc[c] = "answered"
  /\ m_lastEvaluatedKey' = page[c].last
  /\ got'    = [got EXCEPT ![c] = @ \cup page[c].values]
  /\ alone'  = [d \in Clients |-> alone[d] /\ (d = c \/ pc[d] \notin Scanning)]
  /\ pc'     = [pc EXCEPT ![c] = IF page[c].last = NoKey THEN "done" ELSE "more"]
  /\ page'   = [page EXCEPT ![c] = NoPage]
  /\ UNCHANGED <<table, status, req, startKey, failed, scans, writes, stable, ever>>

KeepLastKey(c) ==
  /\ pc[c] = "answered"
  /\ m_lastEvaluatedKey' = IF page[c].last = NoKey THEN m_lastEvaluatedKey ELSE page[c].last
  /\ pc'     = [pc EXCEPT ![c] = IF page[c].last = NoKey THEN "done" ELSE "more"]
  /\ page'   = [page EXCEPT ![c] = NoPage]
  /\ UNCHANGED <<table, status, req, startKey, got, failed, scans, writes, historyVars>>

(* The handler stores the key and answers; the client keeps the IDs, and calls again
   unless scanend. *)
ScanAnswer(c) ==
  /\ pc[c] = "answered"
  /\ m_lastEvaluatedKey' = page[c].last
  /\ got'    = [got EXCEPT ![c] = @ \cup page[c].values]
  /\ failed' = [failed EXCEPT ![c] = @ \/ ~page[c].ok]
  /\ alone'  = [d \in Clients |-> alone[d] /\ (d = c \/ pc[d] \notin Scanning)]
  /\ pc'     = [pc EXCEPT ![c] = IF page[c].last = NoKey THEN "done" ELSE "more"]
  /\ page'   = [page EXCEPT ![c] = NoPage]
  /\ UNCHANGED <<table, status, req, startKey, scans, writes, stable, ever>>

(* The client stops between two calls, for good: an exception, a signal *)
Abandon(c) ==
  /\ pc[c] = "more"
  /\ pc' = [pc EXCEPT ![c] = "stopped"]
  /\ UNCHANGED <<serviceVars, req, startKey, page, got, failed, scans, writes, historyVars>>

(* The service is restarted: the clients have lost their connections, and are run again *)
Restart ==
  /\ m_lastEvaluatedKey' = NoKey
  /\ pc' = [c \in Clients |-> IF pc[c] = "done" THEN "done" ELSE "idle"]
  /\ page' = [c \in Clients |-> NoPage]
  /\ startKey' = [c \in Clients |-> NoKey]
  /\ UNCHANGED <<table, status, req, got, failed, scans, writes, historyVars>>

Writing(c, t) ==
  \/ \E id \in Keys, item \in Items : put(c, t, id, item)
  \/ \E id \in Keys, values \in Updates : update(c, t, id, values)
  \/ \E id \in Keys : remove(c, t, id)
  \/ deleteTable(c, t)
  \/ createTable(c, t)

Serving(c) == ScanReadKey(c) \/ ScanCall(c) \/ ScanAnswer(c)

Next ==
  \/ \E c \in Clients, t \in TableNames : Writing(c, t)
  \/ \E c \in Clients, t \in TableNames, f \in Filters : ScanBegin(c, t, f)
  \/ \E c \in Clients : Serving(c)
  \/ \E c \in Clients : Abandon(c)
  \/ \E c \in Clients : WaitUntilActive(c)
  \/ \E t \in TableNames : TableActive(t)
  \/ Restart

Spec == Init /\ [][Next]_vars

-----------------------------------------------------------------------------
(* Values have the types the code gives them. *)
TypeOK ==
  /\ status \in [TableNames -> {"NONE", "CREATING", "ACTIVE"}]
  /\ DOMAIN table = TableNames /\ \A t \in TableNames : DOMAIN table[t] \subseteq Keys
  /\ m_lastEvaluatedKey \in 0..N
  /\ pc \in [Clients -> States]
  /\ req \in [Clients -> [tablename : TableNames, filter : Filters]]
  /\ startKey \in [Clients -> 0..N]
  /\ page \in [Clients -> Pages]
  /\ got \in [Clients -> SUBSET Keys]
  /\ failed \in [Clients -> BOOLEAN]
  /\ scans \in [Clients -> 0..MaxScans] /\ writes \in 0..MaxWrites
  /\ stable \in [Clients -> SUBSET Keys]
  /\ ever \in [Clients -> SUBSET Keys]
  /\ alone \in [Clients -> BOOLEAN]

Complete(c) == stable[c] \subseteq got[c]

(* A client that has seen no failure, whose scan began with an empty key and during which no
   other scan call ended, has received every item that matched its filter throughout: the
   pages the handler's key strings together leave no gap, whatever the writers do meanwhile. *)
ScanCompleteAlone ==
  \A c \in Clients : pc[c] = "done" /\ alone[c] /\ ~failed[c] => Complete(c)

(* The same of every client that has seen no failure.  A crawler takes the IDs it has not
   received for new ads (seloger.py), adapt_model for ads not yet in the summary. *)
ScanComplete ==
  \A c \in Clients : pc[c] = "done" /\ ~failed[c] => Complete(c)

(* A key is only left in the handler by a scan that is under way, or by a client that stopped
   in the middle of one: scans that end, in whatever order, leave the next one a clean start. *)
KeyHasScan ==
  m_lastEvaluatedKey # NoKey => \E c \in Clients : pc[c] \in Scanning \cup {"stopped"}

(* Even when the key of another client's scan misleads it, a scan only returns items that
   matched its own filter, in its own table, at some moment of the scan. *)
ScanSound == \A c \in Clients : got[c] \subseteq ever[c]

Updatable == UNION {DOMAIN values : values \in Updates}

(* An item's attributes that no update names keep, as long as the item exists, the values its
   first put gave them: FIRST_TIMESTAMP, on which the email alerts select the new ads, survives
   a second crawler that puts the same ad. *)
FirstPutKept ==
  [][\A t \in TableNames : \A id \in DOMAIN table[t] \cap DOMAIN table'[t] :
       \A a \in DOMAIN table[t][id] \ Updatable :
         a \in DOMAIN table'[t][id] /\ table'[t][id][a] = table[t][id][a]]_table

-----------------------------------------------------------------------------
(* The service as its clients see it: a scan is the step that ends it, whatever its calls and
   their keys.  A client that is in no scan has nothing to expect; one whose first call has not
   read the key yet is undisturbed. *)
InScan(c) == pc[c] \in Scanning

queryBar  == [c \in {d \in Clients : InScan(d)} |-> req[c]]
mustBar   == [c \in Clients |-> IF InScan(c) THEN stable[c] ELSE {}]
mayBar    == [c \in Clients |-> IF InScan(c) THEN ever[c] ELSE {}]
cleanBar  == [c \in Clients |-> InScan(c) /\ (pc[c] = "open" \/ alone[c])]
answerBar == [c \in Clients |-> IF pc[c] = "done" THEN [ids |-> got[c], failed |-> failed[c]]
                                                 ELSE <<>>]

Scans == INSTANCE ScanService WITH
  query <- queryBar, must <- mustBar, may <- mayBar, clean <- cleanBar, answer <- answerBar

(* Every scan of the service is a scan of ScanService: one answer, sound always, and complete
   unless the client was told of a failure or another client's scan got in its way. *)
ScanServiceImplemented == Scans!Spec

Others(c) == Clients \ {c}

(* A client's scan ends once the other clients' scans have: the key makes each call start
   beyond the one before. *)
ScanEnds ==
  \A c \in Clients :
    <>[](\A d \in Others(c) : pc[d] \notin Scanning) => []<>(pc[c] \notin Scanning)

(* The service's threads run, and a client in its loop calls again. *)
Fairness == \A c \in Clients : WF_vars(Serving(c))
FairSpec == Spec /\ Fairness

=============================================================================
