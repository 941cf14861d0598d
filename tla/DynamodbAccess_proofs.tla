----------------------- MODULE DynamodbAccess_proofs -----------------------
(***************************************************************************)
(* The safety properties of DynamodbAccess, for any number of clients,     *)
(* tables, items and keys.                                                 *)
(***************************************************************************)
EXTENDS DynamodbAccess, TLAPS

USE DEF NoKey

-----------------------------------------------------------------------------
(* The operators of DynamoTable: the keys they leave in a table, what a filter finds there. *)
LEMMA TableKeys ==
  ASSUME NEW S, NEW tbl, DOMAIN tbl \subseteq S, NEW id \in S, NEW item
  PROVE  /\ DOMAIN EmptyTable \subseteq S
         /\ DOMAIN PutItem(tbl, id, item) \subseteq S
         /\ DOMAIN UpdateItem(tbl, id, item) \subseteq S
         /\ DOMAIN DeleteItem(tbl, id) \subseteq S
  BY DEF EmptyTable, Store, PutItem, UpdateItem, DeleteItem

LEMMA MatchingKeys ==
  ASSUME NEW tbl, NEW filter PROVE Matching(tbl, filter) \subseteq DOMAIN tbl
  BY DEF Matching

(* Every writing call of Next is a Write of a table whose keys are still keys. *)
LEMMA WritingIsWrite ==
  ASSUME TypeOK, NEW c \in Clients, NEW t \in TableNames, Writing(c, t), ~createTable(c, t)
  PROVE  \E new : /\ Write(t, new) /\ DOMAIN new \subseteq Keys
                  /\ status' \in [TableNames -> {"NONE", "CREATING", "ACTIVE"}]
  <1>0. DOMAIN table[t] \subseteq Keys
    BY DEF TypeOK
  <1>1. ASSUME NEW id \in Keys, NEW item \in Items, put(c, t, id, item)
        PROVE  Write(t, PutItem(table[t], id, item)) /\ UNCHANGED status
    BY <1>1 DEF put
  <1>2. ASSUME NEW id \in Keys, NEW values \in Updates, update(c, t, id, values)
        PROVE  Write(t, UpdateItem(table[t], id, values)) /\ UNCHANGED status
    BY <1>2 DEF update
  <1>3. ASSUME NEW id \in Keys, remove(c, t, id)
        PROVE  Write(t, DeleteItem(table[t], id)) /\ UNCHANGED status
    BY <1>3 DEF remove
  <1>4. ASSUME deleteTable(c, t)
        PROVE  Write(t, EmptyTable) /\ status' = [status EXCEPT ![t] = "NONE"]
    BY <1>4 DEF deleteTable
  <1>5. status \in [TableNames -> {"NONE", "CREATING", "ACTIVE"}]
    BY DEF TypeOK
  <1>6. CASE \E id \in Keys, item \in Items : put(c, t, id, item)
    <2>1. PICK id \in Keys, item \in Items : put(c, t, id, item)
      BY <1>6
    <2>2. DOMAIN PutItem(table[t], id, item) \subseteq Keys
      BY <1>0, TableKeys
    <2>3. Write(t, PutItem(table[t], id, item)) /\ UNCHANGED status
      BY <2>1, <1>1
    <2> WITNESS PutItem(table[t], id, item)
    <2> QED BY <2>2, <2>3, <1>5
  <1>7. CASE \E id \in Keys, values \in Updates : update(c, t, id, values)
    <2>1. PICK id \in Keys, values \in Updates : update(c, t, id, values)
      BY <1>7
    <2>2. DOMAIN UpdateItem(table[t], id, values) \subseteq Keys
      BY <1>0, TableKeys
    <2>3. Write(t, UpdateItem(table[t], id, values)) /\ UNCHANGED status
      BY <2>1, <1>2
    <2> WITNESS UpdateItem(table[t], id, values)
    <2> QED BY <2>2, <2>3, <1>5
  <1>8. CASE \E id \in Keys : remove(c, t, id)
    <2>1. PICK id \in Keys : remove(c, t, id)
      BY <1>8
    <2>2. DOMAIN DeleteItem(table[t], id) \subseteq Keys
      BY <1>0, TableKeys
    <2>3. Write(t, DeleteItem(table[t], id)) /\ UNCHANGED status
      BY <2>1, <1>3
    <2> WITNESS DeleteItem(table[t], id)
    <2> QED BY <2>2, <2>3, <1>5
  <1>9. CASE deleteTable(c, t)
    <2>1. DOMAIN EmptyTable \subseteq Keys
      BY DEF EmptyTable
    <2>2. Write(t, EmptyTable) /\ status' = [status EXCEPT ![t] = "NONE"]
      BY <1>9, <1>4
    <2> WITNESS EmptyTable
    <2> QED BY <2>1, <2>2, <1>5
  <1> QED BY <1>6, <1>7, <1>8, <1>9 DEF Writing

-----------------------------------------------------------------------------
(* The type invariant. *)
LEMMA NoPageIsPage == NoPage \in Pages
  BY BoundsAssumption DEF NoPage, Pages

LEMMA InitTypeOK == Init => TypeOK
  <1> SUFFICES ASSUME Init PROVE TypeOK
    OBVIOUS
  <1>1. DOMAIN table = TableNames /\ \A t \in TableNames : DOMAIN table[t] \subseteq Keys
    BY DEF Init
  <1>2. req \in [Clients -> [tablename : TableNames, filter : Filters]]
    BY DEF Init
  <1>3. page \in [Clients -> Pages] /\ pc \in [Clients -> States]
    BY NoPageIsPage DEF Init, States
  <1>4. scans \in [Clients -> 0..MaxScans] /\ writes \in 0..MaxWrites
    BY BoundsAssumption DEF Init
  <1>5. m_lastEvaluatedKey \in 0..N /\ startKey \in [Clients -> 0..N]
    BY BoundsAssumption DEF Init
  <1> QED BY <1>1, <1>2, <1>3, <1>4, <1>5 DEF Init, TypeOK

LEMMA WriteTypeOK ==
  ASSUME TypeOK, NEW t \in TableNames, NEW new, Write(t, new), DOMAIN new \subseteq Keys,
         status' \in [TableNames -> {"NONE", "CREATING", "ACTIVE"}]
  PROVE  TypeOK'
  <1>1. DOMAIN table' = TableNames /\ \A u \in TableNames : DOMAIN table'[u] \subseteq Keys
    BY DEF TypeOK, Write
  <1>2. writes' \in 0..MaxWrites
    BY BoundsAssumption DEF TypeOK, Write
  <1>3. \A c \in Clients : Matching(new, req[c].filter) \subseteq Keys
    BY MatchingKeys
  <1>4. stable' \in [Clients -> SUBSET Keys] /\ ever' \in [Clients -> SUBSET Keys]
    BY <1>3 DEF TypeOK, Write
  <1> QED BY <1>1, <1>2, <1>4 DEF TypeOK, Write

LEMMA OutcomesArePages ==
  ASSUME TypeOK, NEW c \in Clients, NEW p \in Outcomes(c) PROVE p \in Pages
  <1> DEFINE tbl == table[req[c].tablename]
             items(k) == ItemsBetween(tbl, req[c].filter, startKey[c], k)
  <1>1. DOMAIN tbl \subseteq Keys
    BY DEF TypeOK
  <1>2. \A k : items(k) \subseteq Keys
    BY <1>1, MatchingKeys DEF ItemsBetween
  <1>3. \/ p = NoPage
        \/ p = [ok |-> TRUE, values |-> items(N), last |-> NoKey]
        \/ \E k \in DOMAIN tbl : p = [ok |-> TRUE, values |-> items(k), last |-> k]
    BY DEF Outcomes
  <1>4. CASE p = NoPage
    BY <1>4, NoPageIsPage
  <1>5. CASE p = [ok |-> TRUE, values |-> items(N), last |-> NoKey]
    <2>1. items(N) \in SUBSET Keys /\ NoKey \in 0..N
      BY <1>2, BoundsAssumption
    <2> HIDE DEF items
    <2> QED BY <1>5, <2>1 DEF Pages
  <1>6. ASSUME NEW k \in DOMAIN tbl, p = [ok |-> TRUE, values |-> items(k), last |-> k]
        PROVE  p \in Pages
    <2>1. items(k) \in SUBSET Keys /\ k \in 0..N
      BY <1>1, <1>2, BoundsAssumption DEF Keys
    <2> HIDE DEF items
    <2> QED BY <1>6, <2>1 DEF Pages
  <1> QED BY <1>3, <1>4, <1>5, <1>6

LEMMA NextTypeOK == TypeOK /\ [Next]_vars => TypeOK'
  <1> SUFFICES ASSUME TypeOK, [Next]_vars PROVE TypeOK'
    OBVIOUS
  <1> USE DEF TypeOK, serviceVars, clientVars, historyVars, States, Scanning
  <1>1. ASSUME NEW c \in Clients, NEW t \in TableNames, createTable(c, t) PROVE TypeOK'
    <2>1. writes' \in 0..MaxWrites
      BY <1>1, BoundsAssumption DEF createTable
    <2>2. req' \in [Clients -> [tablename : TableNames, filter : Filters]]
      BY <1>1 DEF createTable
    <2>3. status' \in [TableNames -> {"NONE", "CREATING", "ACTIVE"}]
      BY <1>1 DEF createTable
    <2> QED BY <1>1, <2>1, <2>2, <2>3 DEF createTable
  <1>2. ASSUME NEW c \in Clients, NEW t \in TableNames, Writing(c, t) PROVE TypeOK'
    <2>1. CASE createTable(c, t)
      BY <2>1, <1>1
    <2>2. CASE ~createTable(c, t)
      BY <2>2, <1>2, WritingIsWrite, WriteTypeOK
    <2> QED BY <2>1, <2>2
  <1>3. ASSUME NEW c \in Clients, NEW t \in TableNames, NEW f \in Filters, ScanBegin(c, t, f)
        PROVE  TypeOK'
    <2>1. scans' \in [Clients -> 0..MaxScans]
      BY <1>3, BoundsAssumption DEF ScanBegin
    <2>2. Matching(table[t], f) \subseteq Keys
      BY MatchingKeys
    <2> QED BY <1>3, <2>1, <2>2 DEF ScanBegin
  <1>4. ASSUME NEW c \in Clients, ScanReadKey(c) PROVE TypeOK'
    BY <1>4 DEF ScanReadKey
  <1>5. ASSUME NEW c \in Clients, ScanCall(c) PROVE TypeOK'
    <2>1. PICK p \in Outcomes(c) : page' = [page EXCEPT ![c] = p]
      BY <1>5 DEF ScanCall
    <2>2. p \in Pages
      BY OutcomesArePages
    <2>3. startKey' \in [Clients -> 0..N]
      BY <1>5, BoundsAssumption DEF ScanCall
    <2> QED BY <1>5, <2>1, <2>2, <2>3 DEF ScanCall
  <1>6. ASSUME NEW c \in Clients, ScanAnswer(c) PROVE TypeOK'
    <2>1. page[c] \in Pages /\ NoPage \in Pages
      BY NoPageIsPage
    <2>2. page[c].last \in 0..N /\ page[c].values \subseteq Keys /\ page[c].ok \in BOOLEAN
      BY <2>1 DEF Pages
    <2> QED BY <1>6, <2>1, <2>2 DEF ScanAnswer
  <1>7. ASSUME NEW c \in Clients, Abandon(c) PROVE TypeOK'
    BY <1>7 DEF Abandon
  <1>8. ASSUME NEW c \in Clients, WaitUntilActive(c) PROVE TypeOK'
    BY <1>8 DEF WaitUntilActive
  <1>9. ASSUME NEW t \in TableNames, TableActive(t) PROVE TypeOK'
    BY <1>9 DEF TableActive
  <1>10. CASE Restart
    <2>1. NoPage \in Pages /\ NoKey \in 0..N
      BY NoPageIsPage, BoundsAssumption
    <2> QED BY <1>10, <2>1 DEF Restart
  <1>11. CASE UNCHANGED vars
    BY <1>11 DEF vars
  <1> QED
    BY <1>2, <1>3, <1>4, <1>5, <1>6, <1>7, <1>8, <1>9, <1>10, <1>11 DEF Next, Serving

(* Values have the types the code gives them. *)
THEOREM TypeCorrect == Spec => []TypeOK
  BY InitTypeOK, NextTypeOK, PTL DEF Spec

-----------------------------------------------------------------------------
(***************************************************************************)
(* ScanCompleteAlone.  It is not inductive: that a scan misses nothing     *)
(* rests on what lies before the key at each step of it.  While nothing    *)
(* disturbed the scan, every item that matched throughout and lies up to   *)
(* the key has been received, wherever the key is at that moment: in the   *)
(* handler, in the request, or in the answer with the page before it.      *)
(***************************************************************************)
StillMatching(c) ==
  pc[c] \in Scanning => stable[c] \subseteq Matching(table[req[c].tablename], req[c].filter)

UpTo(c, k) == {id \in stable[c] : id <= k}

AnsweredUpTo(c) == IF page[c].last = NoKey THEN N ELSE page[c].last

NoGap(c) ==
  alone[c] /\ ~failed[c] =>
    /\ pc[c] = "more"     => UpTo(c, m_lastEvaluatedKey) \subseteq got[c]
    /\ pc[c] = "reading"  => UpTo(c, startKey[c]) \subseteq got[c]
    /\ pc[c] = "answered" /\ page[c].ok =>
         UpTo(c, AnsweredUpTo(c)) \subseteq got[c] \cup page[c].values
    /\ pc[c] = "done"     => Complete(c)

ScanInv == \A c \in Clients : StillMatching(c) /\ NoGap(c)

LEMMA NextScanInv == TypeOK /\ ScanInv /\ [Next]_vars => ScanInv'
  <1> SUFFICES ASSUME TypeOK, ScanInv, [Next]_vars, NEW d \in Clients
               PROVE  StillMatching(d)' /\ NoGap(d)'
    BY DEF ScanInv
  <1>0. StillMatching(d) /\ NoGap(d)
    BY DEF ScanInv
  <1> USE DEF serviceVars, clientVars, historyVars, StillMatching, NoGap, UpTo, AnsweredUpTo,
              Complete, Scanning
  <1>1. ASSUME NEW c \in Clients, NEW t \in TableNames, createTable(c, t)
        PROVE  StillMatching(d)' /\ NoGap(d)'
    BY <1>0, <1>1 DEF createTable, Free, TypeOK
  <1>2. ASSUME NEW t \in TableNames, NEW new, Write(t, new)
        PROVE  StillMatching(d)' /\ NoGap(d)'
    <2>1. /\ stable'[d] \subseteq stable[d]
          /\ pc[d] = "done" => stable'[d] = stable[d]
      BY <1>2 DEF Write, TypeOK
    <2>2. StillMatching(d)'
      BY <1>0, <1>2 DEF Write, TypeOK
    <2>3. NoGap(d)'
      BY <1>0, <1>2, <2>1 DEF Write
    <2> QED BY <2>2, <2>3
  <1>3. ASSUME NEW c \in Clients, NEW t \in TableNames, Writing(c, t)
        PROVE  StillMatching(d)' /\ NoGap(d)'
    BY <1>1, <1>2, <1>3, WritingIsWrite
  <1>4. ASSUME NEW c \in Clients, NEW t \in TableNames, NEW f \in Filters, ScanBegin(c, t, f)
        PROVE  StillMatching(d)' /\ NoGap(d)'
    BY <1>0, <1>4 DEF ScanBegin, TypeOK
  <1>5. ASSUME NEW c \in Clients, ScanReadKey(c) PROVE StillMatching(d)' /\ NoGap(d)'
    <2>1. StillMatching(d)'
      BY <1>0, <1>5 DEF ScanReadKey, TypeOK
    <2>2. CASE c # d
      BY <1>0, <1>5, <2>2 DEF ScanReadKey, TypeOK
    <2>3. CASE c = d /\ pc[d] = "more"
      BY <1>0, <1>5, <2>3 DEF ScanReadKey, TypeOK
    <2>4. CASE c = d /\ pc[d] = "open"
      <3>1. stable[d] \subseteq Keys
        BY DEF TypeOK
      <3>2. alone'[d] => startKey'[d] = NoKey
        BY <1>5, <2>4 DEF ScanReadKey, TypeOK
      <3>3. alone'[d] => UpTo(d, startKey[d])' = {}
        BY <1>5, <3>1, <3>2 DEF ScanReadKey, Keys
      <3> QED BY <1>5, <2>1, <2>4, <3>3 DEF ScanReadKey, TypeOK
    <2> QED BY <1>5, <2>1, <2>2, <2>3, <2>4 DEF ScanReadKey
  <1>6. ASSUME NEW c \in Clients, ScanCall(c) PROVE StillMatching(d)' /\ NoGap(d)'
    <2>1. StillMatching(d)'
      BY <1>0, <1>6 DEF ScanCall, TypeOK
    <2>2. CASE c # d
      BY <1>0, <1>6, <2>2 DEF ScanCall, TypeOK
    <2>3. CASE c = d
      <3>1. PICK p \in Outcomes(d) : page' = [page EXCEPT ![d] = p]
        BY <1>6, <2>3 DEF ScanCall
      <3>2. page'[d] = p /\ pc[d] = "reading" /\ pc'[d] = "answered"
        BY <1>6, <2>3, <3>1 DEF ScanCall, TypeOK
      <3>3. stable[d] \subseteq Keys /\ startKey[d] \in 0..N
            /\ DOMAIN table[req[d].tablename] \subseteq Keys
        BY DEF TypeOK
      <3>4. ASSUME p.ok, NEW id \in stable[d],
                   id <= (IF p.last = NoKey THEN N ELSE p.last), ~(id <= startKey[d])
            PROVE  id \in p.values
        <4> DEFINE tbl == table[req[d].tablename]
                   items(k) == ItemsBetween(tbl, req[d].filter, startKey[d], k)
        <4>1. id \in Matching(tbl, req[d].filter) /\ id \in Keys
          BY <1>0, <3>2, <3>3
        <4>2. \/ p = [ok |-> TRUE, values |-> items(N), last |-> NoKey]
              \/ \E k \in DOMAIN tbl : p = [ok |-> TRUE, values |-> items(k), last |-> k]
          BY <3>4 DEF Outcomes, NoPage
        <4>3. startKey[d] < id
          BY <3>3, <3>4, <4>1 DEF Keys
        <4>4. \A k : id <= k => id \in items(k)
          BY <4>1, <4>3 DEF ItemsBetween
        <4>5. CASE p = [ok |-> TRUE, values |-> items(N), last |-> NoKey]
          <5>1. id <= N
            BY <4>1, BoundsAssumption DEF Keys
          <5> HIDE DEF items
          <5> QED BY <4>4, <4>5, <5>1
        <4>6. ASSUME NEW k \in DOMAIN tbl, p = [ok |-> TRUE, values |-> items(k), last |-> k]
              PROVE  id \in p.values
          <5>1. k # NoKey
            BY <3>3 DEF Keys
          <5> HIDE DEF items
          <5>2. p.last = k /\ p.values = items(k)
            BY <4>6
          <5> QED BY <3>4, <4>4, <5>1, <5>2
        <4> QED BY <4>2, <4>5, <4>6
      <3>5. UNCHANGED <<stable, got, alone, failed>>
        BY <1>6 DEF ScanCall
      <3>6. alone[d] /\ ~failed[d] => UpTo(d, startKey[d]) \subseteq got[d]
        BY <1>0, <3>2
      <3>7. NoGap(d)'
        BY <3>2, <3>4, <3>5, <3>6
      <3> QED BY <2>1, <3>7
    <2> QED BY <2>2, <2>3
  <1>7. ASSUME NEW c \in Clients, ScanAnswer(c) PROVE StillMatching(d)' /\ NoGap(d)'
    <2>1. StillMatching(d)'
      BY <1>0, <1>7 DEF ScanAnswer, TypeOK
    <2>2. CASE c # d
      <3>1. alone'[d] => alone[d] /\ pc[d] \notin Scanning
        BY <1>7, <2>2 DEF ScanAnswer
      <3> QED BY <1>0, <1>7, <2>1, <2>2, <3>1 DEF ScanAnswer, TypeOK
    <2>3. CASE c = d
      <3>1. /\ pc[d] = "answered" /\ got'[d] = got[d] \cup page[d].values
            /\ alone'[d] = alone[d] /\ failed'[d] = (failed[d] \/ ~page[d].ok)
            /\ pc'[d] = IF page[d].last = NoKey THEN "done" ELSE "more"
            /\ m_lastEvaluatedKey' = page[d].last /\ stable' = stable
        BY <1>7, <2>3 DEF ScanAnswer, TypeOK
      <3>2. stable[d] \subseteq Keys
        BY DEF TypeOK
      <3>3. page[d].last = NoKey => UpTo(d, AnsweredUpTo(d)) = stable[d]
        BY <3>2, BoundsAssumption DEF Keys
      <3>4. NoGap(d)'
        BY <1>0, <3>1, <3>3
      <3> QED BY <2>1, <3>4
    <2> QED BY <2>2, <2>3
  <1>8. ASSUME NEW c \in Clients, Abandon(c) PROVE StillMatching(d)' /\ NoGap(d)'
    BY <1>0, <1>8 DEF Abandon, TypeOK
  <1>9. ASSUME NEW c \in Clients, WaitUntilActive(c) PROVE StillMatching(d)' /\ NoGap(d)'
    BY <1>0, <1>9 DEF WaitUntilActive, TypeOK
  <1>10. ASSUME NEW t \in TableNames, TableActive(t) PROVE StillMatching(d)' /\ NoGap(d)'
    BY <1>0, <1>10 DEF TableActive
  <1>11. CASE Restart
    BY <1>0, <1>11 DEF Restart
  <1>12. CASE UNCHANGED vars
    BY <1>0, <1>12 DEF vars
  <1> QED
    BY <1>3, <1>4, <1>5, <1>6, <1>7, <1>8, <1>9, <1>10, <1>11, <1>12 DEF Next, Serving

(* A scan that began with an empty key, and during which no other scan call ended, has missed
   nothing when it ends without a failure. *)
THEOREM ScanCompleteAloneHolds == Spec => []ScanCompleteAlone
  <1>1. Init => ScanInv
    BY DEF Init, ScanInv, StillMatching, NoGap, Scanning
  <1>2. ScanInv => ScanCompleteAlone
    BY DEF ScanInv, NoGap, ScanCompleteAlone
  <1> QED BY <1>1, <1>2, NextScanInv, TypeCorrect, PTL DEF Spec

(* ScanSound: what a page holds matched when it was read, and belongs to this scan. *)
FoundInScan(c) ==
  /\ got[c] \subseteq ever[c]
  /\ pc[c] \in Scanning => Matching(table[req[c].tablename], req[c].filter) \subseteq ever[c]
  /\ pc[c] = "answered" => page[c].values \subseteq ever[c]

SoundInv == \A c \in Clients : FoundInScan(c)

LEMMA PagesSound ==
  ASSUME NEW c \in Clients, NEW p \in Outcomes(c)
  PROVE  p.values \subseteq Matching(table[req[c].tablename], req[c].filter)
  BY DEF Outcomes, NoPage, ItemsBetween

LEMMA NextSoundInv == TypeOK /\ SoundInv /\ [Next]_vars => SoundInv'
  <1> SUFFICES ASSUME TypeOK, SoundInv, [Next]_vars, NEW d \in Clients PROVE FoundInScan(d)'
    BY DEF SoundInv
  <1>0. FoundInScan(d)
    BY DEF SoundInv
  <1> USE DEF serviceVars, clientVars, historyVars, FoundInScan, Scanning
  <1>1. ASSUME NEW c \in Clients, NEW t \in TableNames, createTable(c, t) PROVE FoundInScan(d)'
    BY <1>0, <1>1 DEF createTable, Free, TypeOK
  <1>2. ASSUME NEW t \in TableNames, NEW new, Write(t, new) PROVE FoundInScan(d)'
    BY <1>0, <1>2 DEF Write, TypeOK
  <1>3. ASSUME NEW c \in Clients, NEW t \in TableNames, Writing(c, t) PROVE FoundInScan(d)'
    BY <1>1, <1>2, <1>3, WritingIsWrite
  <1>4. ASSUME NEW c \in Clients, NEW t \in TableNames, NEW f \in Filters, ScanBegin(c, t, f)
        PROVE  FoundInScan(d)'
    BY <1>0, <1>4 DEF ScanBegin, TypeOK
  <1>5. ASSUME NEW c \in Clients, ScanReadKey(c) PROVE FoundInScan(d)'
    BY <1>0, <1>5 DEF ScanReadKey, TypeOK
  <1>6. ASSUME NEW c \in Clients, ScanCall(c) PROVE FoundInScan(d)'
    <2>1. CASE c # d
      BY <1>0, <1>6, <2>1 DEF ScanCall, TypeOK
    <2>2. CASE c = d
      <3>1. PICK p \in Outcomes(d) : page' = [page EXCEPT ![d] = p]
        BY <1>6, <2>2 DEF ScanCall
      <3>2. page'[d] = p /\ p.values \subseteq ever[d]
        BY <1>0, <1>6, <2>2, <3>1, PagesSound DEF ScanCall, TypeOK
      <3> QED BY <1>0, <1>6, <2>2, <3>2 DEF ScanCall, TypeOK
    <2> QED BY <2>1, <2>2
  <1>7. ASSUME NEW c \in Clients, ScanAnswer(c) PROVE FoundInScan(d)'
    BY <1>0, <1>7 DEF ScanAnswer, TypeOK
  <1>8. ASSUME NEW c \in Clients, Abandon(c) PROVE FoundInScan(d)'
    BY <1>0, <1>8 DEF Abandon, TypeOK
  <1>9. ASSUME NEW c \in Clients, WaitUntilActive(c) PROVE FoundInScan(d)'
    BY <1>0, <1>9 DEF WaitUntilActive, TypeOK
  <1>10. ASSUME NEW t \in TableNames, TableActive(t) PROVE FoundInScan(d)'
    BY <1>0, <1>10 DEF TableActive
  <1>11. CASE Restart
    BY <1>0, <1>11 DEF Restart
  <1>12. CASE UNCHANGED vars
    BY <1>0, <1>12 DEF vars
  <1> QED
    BY <1>3, <1>4, <1>5, <1>6, <1>7, <1>8, <1>9, <1>10, <1>11, <1>12 DEF Next, Serving

(* However other scans mislead it, a scan only returns items that matched its own filter, in
   its own table, at some moment of the scan. *)
THEOREM ScanSoundHolds == Spec => []ScanSound
  <1>1. Init => SoundInv
    BY DEF Init, SoundInv, FoundInScan, Scanning
  <1>2. SoundInv => ScanSound
    BY DEF SoundInv, FoundInScan, ScanSound
  <1> QED BY <1>1, <1>2, NextSoundInv, TypeCorrect, PTL DEF Spec

-----------------------------------------------------------------------------
LEMMA NextKeyHasScan == TypeOK /\ KeyHasScan /\ [Next]_vars => KeyHasScan'
  <1> SUFFICES ASSUME TypeOK, KeyHasScan, [Next]_vars, m_lastEvaluatedKey' # NoKey
               PROVE  \E d \in Clients : pc'[d] \in Scanning \cup {"stopped"}
    BY DEF KeyHasScan
  <1> USE DEF serviceVars, clientVars, historyVars, Scanning
  <1>1. CASE \E c \in Clients : ScanAnswer(c)
    <2>1. PICK c \in Clients : ScanAnswer(c)
      BY <1>1
    <2>2. pc'[c] = "more"
      BY <2>1 DEF ScanAnswer, TypeOK
    <2> QED BY <2>2
  <1>2. CASE Restart
    BY <1>2 DEF Restart
  <1>3. CASE m_lastEvaluatedKey' = m_lastEvaluatedKey
    <2>1. PICK d \in Clients : pc[d] \in Scanning \cup {"stopped"}
      BY <1>3 DEF KeyHasScan
    <2>2. ASSUME NEW c \in Clients, NEW t \in TableNames, Writing(c, t)
          PROVE  pc'[d] \in Scanning \cup {"stopped"}
      <3>1. CASE createTable(c, t)
        BY <2>1, <3>1 DEF createTable, Free, TypeOK
      <3>2. CASE ~createTable(c, t)
        <4>1. PICK new : Write(t, new)
          BY <2>2, <3>2, WritingIsWrite
        <4> QED BY <2>1, <4>1 DEF Write
      <3> QED BY <3>1, <3>2
    <2>3. ASSUME NEW c \in Clients, NEW t \in TableNames, NEW f \in Filters, ScanBegin(c, t, f)
          PROVE  pc'[d] \in Scanning \cup {"stopped"}
      BY <2>1, <2>3 DEF ScanBegin, TypeOK
    <2>4. ASSUME NEW c \in Clients, ScanReadKey(c) PROVE pc'[d] \in Scanning \cup {"stopped"}
      BY <2>1, <2>4 DEF ScanReadKey, TypeOK
    <2>5. ASSUME NEW c \in Clients, ScanCall(c) PROVE pc'[d] \in Scanning \cup {"stopped"}
      BY <2>1, <2>5 DEF ScanCall, TypeOK
    <2>6. ASSUME NEW c \in Clients, Abandon(c) PROVE pc'[d] \in Scanning \cup {"stopped"}
      BY <2>1, <2>6 DEF Abandon, TypeOK
    <2>7. ASSUME NEW c \in Clients, WaitUntilActive(c)
          PROVE  pc'[d] \in Scanning \cup {"stopped"}
      BY <2>1, <2>7 DEF WaitUntilActive, TypeOK
    <2>8. ASSUME NEW t \in TableNames, TableActive(t) PROVE pc'[d] \in Scanning \cup {"stopped"}
      BY <2>1, <2>8 DEF TableActive
    <2>9. CASE UNCHANGED vars
      BY <2>1, <2>9 DEF vars
    <2> QED
      BY <1>1, <1>2, <2>2, <2>3, <2>4, <2>5, <2>6, <2>7, <2>8, <2>9 DEF Next, Serving
  <1>4. ~Restart /\ ~(\E c \in Clients : ScanAnswer(c))
          => m_lastEvaluatedKey' = m_lastEvaluatedKey
    <2>1. ASSUME NEW c \in Clients, NEW t \in TableNames, Writing(c, t)
          PROVE  m_lastEvaluatedKey' = m_lastEvaluatedKey
      BY <2>1, WritingIsWrite DEF Write, createTable
    <2> QED
      BY <2>1 DEF Next, Serving, ScanBegin, ScanReadKey, ScanCall, Abandon, WaitUntilActive,
                  TableActive, vars
  <1> QED BY <1>1, <1>2, <1>3, <1>4

(* Scans that end, in whatever order, leave no key behind them. *)
THEOREM KeyHasScanHolds == Spec => []KeyHasScan
  <1>1. Init => KeyHasScan
    BY DEF Init, KeyHasScan
  <1> QED BY <1>1, NextKeyHasScan, TypeCorrect, PTL DEF Spec

-----------------------------------------------------------------------------
(* FirstPutKept, of one step. *)
KeepsFirstPut ==
  \A t \in TableNames : \A id \in DOMAIN table[t] \cap DOMAIN table'[t] :
    \A a \in DOMAIN table[t][id] \ Updatable :
      a \in DOMAIN table'[t][id] /\ table'[t][id][a] = table[t][id][a]

(* What a write does to the item of a key that was there before it *)
LEMMA PutKeeps ==
  ASSUME NEW tbl, NEW id, NEW item, NEW i \in DOMAIN tbl
  PROVE  PutItem(tbl, id, item)[i] = tbl[i]
  BY DEF PutItem, Store

LEMMA UpdateKeeps ==
  ASSUME NEW tbl, NEW id, NEW values, NEW i \in DOMAIN tbl,
         NEW a \in DOMAIN tbl[i] \ DOMAIN values
  PROVE  LET new == UpdateItem(tbl, id, values)[i]
         IN  a \in DOMAIN new /\ new[a] = tbl[i][a]
  BY DEF UpdateItem, Store, Merge

LEMMA DeleteKeeps ==
  ASSUME NEW tbl, NEW id, NEW i \in DOMAIN tbl \cap DOMAIN DeleteItem(tbl, id)
  PROVE  DeleteItem(tbl, id)[i] = tbl[i]
  BY DEF DeleteItem

LEMMA WriteKeeps ==
  ASSUME TypeOK, NEW t \in TableNames, NEW new, Write(t, new),
         \A i \in DOMAIN table[t] \cap DOMAIN new : \A a \in DOMAIN table[t][i] \ Updatable :
            a \in DOMAIN new[i] /\ new[i][a] = table[t][i][a]
  PROVE  KeepsFirstPut
  <1>1. table' = [table EXCEPT ![t] = new] /\ DOMAIN table = TableNames
    BY DEF Write, TypeOK
  <1>2. table'[t] = new /\ \A u \in TableNames : u # t => table'[u] = table[u]
    BY <1>1
  <1> QED BY <1>2 DEF KeepsFirstPut

LEMMA NextKeepsFirstPut == TypeOK /\ [Next]_vars => KeepsFirstPut
  <1> SUFFICES ASSUME TypeOK, [Next]_vars PROVE KeepsFirstPut
    OBVIOUS
  <1>1. ASSUME UNCHANGED table PROVE KeepsFirstPut
    BY <1>1 DEF KeepsFirstPut
  <1>2. ASSUME NEW c \in Clients, NEW t \in TableNames, NEW id \in Keys, NEW item \in Items,
               put(c, t, id, item)
        PROVE  KeepsFirstPut
    <2>1. Write(t, PutItem(table[t], id, item))
      BY <1>2 DEF put
    <2> QED BY <2>1, PutKeeps, WriteKeeps
  <1>3. ASSUME NEW c \in Clients, NEW t \in TableNames, NEW id \in Keys, NEW values \in Updates,
               update(c, t, id, values)
        PROVE  KeepsFirstPut
    <2>1. Write(t, UpdateItem(table[t], id, values))
      BY <1>3 DEF update
    <2>2. DOMAIN values \subseteq Updatable
      BY DEF Updatable
    <2>3. \A i \in DOMAIN table[t] : \A a \in DOMAIN table[t][i] \ Updatable :
            LET new == UpdateItem(table[t], id, values)[i]
            IN  a \in DOMAIN new /\ new[a] = table[t][i][a]
      BY <2>2, UpdateKeeps
    <2> QED BY <2>1, <2>3, WriteKeeps
  <1>4. ASSUME NEW c \in Clients, NEW t \in TableNames, NEW id \in Keys, remove(c, t, id)
        PROVE  KeepsFirstPut
    <2>1. Write(t, DeleteItem(table[t], id))
      BY <1>4 DEF remove
    <2> QED BY <2>1, DeleteKeeps, WriteKeeps
  <1>5. ASSUME NEW c \in Clients, NEW t \in TableNames, deleteTable(c, t) PROVE KeepsFirstPut
    <2>1. Write(t, EmptyTable) /\ DOMAIN EmptyTable = {}
      BY <1>5 DEF deleteTable, EmptyTable
    <2> QED BY <2>1, WriteKeeps
  <1>6. ASSUME NEW c \in Clients, NEW t \in TableNames, Writing(c, t) PROVE KeepsFirstPut
    BY <1>1, <1>2, <1>3, <1>4, <1>5, <1>6 DEF Writing, createTable
  <1> QED
    BY <1>1, <1>6 DEF Next, Serving, ScanBegin, ScanReadKey, ScanCall, ScanAnswer, Abandon,
                      WaitUntilActive, TableActive, Restart, vars, serviceVars

(* An item's attributes that no update names keep the values its first put gave them. *)
THEOREM FirstPutKeptHolds == Spec => FirstPutKept
  <1>1. TypeOK /\ [Next]_vars => [KeepsFirstPut]_table
    BY NextKeepsFirstPut
  <1> QED BY <1>1, TypeCorrect, PTL DEF Spec, FirstPutKept, KeepsFirstPut

-----------------------------------------------------------------------------
(* The refinement: what each action is to the clients. *)
USE DEF InScan, Scanning

(* A step that leaves the tables, the questions and the answers alone, and in which no scan
   that was disturbed becomes undisturbed *)
LEMMA QuietStep ==
  ASSUME TypeOK, UNCHANGED <<table, queryBar, mustBar, mayBar, answerBar>>,
         \A c \in Clients : cleanBar'[c] => cleanBar[c]
  PROVE  Scans!Next
  <1>1. cleanBar' \in [Clients -> BOOLEAN]
    BY DEF cleanBar
  <1> QED BY <1>1 DEF Scans!Next, Scans!Disturb, Scans!Disturbed

(* A client lets go of its scan or of its answer *)
LEMMA DropStep ==
  ASSUME TypeOK, UNCHANGED <<table, req, got, failed, stable, ever, alone>>,
         NEW D \in SUBSET Clients,
         \A c \in D : pc'[c] \notin Scanning \cup {"done"},
         \A c \in Clients \ D : pc'[c] = pc[c]
  PROVE  Scans!Next
  <1>1. queryBar' = [c \in DOMAIN queryBar \ D |-> queryBar[c]]
    BY DEF queryBar
  <1>2. mustBar' = [c \in Clients |-> IF c \in D THEN {} ELSE mustBar[c]]
    BY DEF mustBar
  <1>3. mayBar' = [c \in Clients |-> IF c \in D THEN {} ELSE mayBar[c]]
    BY DEF mayBar
  <1>4. cleanBar' = [c \in Clients |-> cleanBar[c] /\ c \notin D]
    BY DEF cleanBar
  <1>5. answerBar' = [c \in Clients |-> IF c \in D THEN Scans!NoAnswer ELSE answerBar[c]]
    BY DEF answerBar, Scans!NoAnswer
  <1>6. Scans!Drop(D)
    BY <1>1, <1>2, <1>3, <1>4, <1>5 DEF Scans!Drop
  <1> QED BY <1>6 DEF Scans!Next

LEMMA WriteStep ==
  ASSUME TypeOK, NEW t \in TableNames, NEW new, Write(t, new)
  PROVE  Scans!Next
  <1>1. UNCHANGED <<queryBar, cleanBar, answerBar>>
    BY DEF Write, queryBar, cleanBar, answerBar
  <1>2. \A u \in TableNames \ {t} : table'[u] = table[u]
    BY DEF Write, TypeOK
  <1>3. table'[t] = new
    BY DEF Write, TypeOK
  <1> DEFINE looking(c) == c \in DOMAIN queryBar /\ queryBar[c].tablename = t
  <1>4. \A c \in Clients : looking(c) <=> InScan(c) /\ req[c].tablename = t
    BY DEF queryBar
  <1>5. \A c \in Clients : InScan(c) /\ req[c].tablename = t =>
          Scans!Found(queryBar[c])' = Matching(new, req[c].filter)
    <2>1. \A c \in Clients : InScan(c) => queryBar'[c] = req[c]
      BY <1>1 DEF queryBar
    <2> QED BY <1>3, <2>1 DEF Scans!Found, Scans!Matching, Matching, Scans!Matches, Matches
  <1>6. \A c \in Clients : pc'[c] = pc[c]
    BY DEF Write
  <1>7. mustBar' = [c \in Clients |-> IF looking(c) THEN mustBar[c] \cap Scans!Found(queryBar[c])'
                                                  ELSE mustBar[c]]
    BY <1>4, <1>5, <1>6 DEF Write, mustBar
  <1>8. mayBar' = [c \in Clients |-> IF looking(c) THEN mayBar[c] \cup Scans!Found(queryBar[c])'
                                                 ELSE mayBar[c]]
    <2>1. \A c \in Clients :
            /\ InScan(c) /\ req[c].tablename = t =>
                 ever'[c] = ever[c] \cup Scans!Found(queryBar[c])'
            /\ InScan(c) /\ req[c].tablename # t => ever'[c] = ever[c]
      BY <1>5 DEF Write
    <2> QED BY <1>4, <1>6, <2>1 DEF mayBar
  <1>9. Scans!Change(t)
    BY <1>1, <1>2, <1>7, <1>8 DEF Scans!Change
  <1> QED BY <1>9 DEF Scans!Next

LEMMA BeginStep ==
  ASSUME TypeOK, NEW c \in Clients, NEW t \in TableNames, NEW f \in Filters, ScanBegin(c, t, f)
  PROVE  Scans!Next
  <1> DEFINE q == [tablename |-> t, filter |-> f]
  <1>1. q \in Scans!Queries
    BY DEF Scans!Queries
  <1>2. Scans!Found(q) = Matching(table[t], f)
    <2>1. q.tablename = t /\ q.filter = f
      OBVIOUS
    <2>2. Scans!Matching(table[t], f) = Matching(table[t], f)
      BY DEF Scans!Matching, Matching, Scans!Matches, Matches
    <2>3. Scans!Found(q) = Scans!Matching(table[q.tablename], q.filter)
      BY DEF Scans!Found
    <2> HIDE DEF q
    <2> QED BY <2>1, <2>2, <2>3
  <1>3. pc'[c] = "open" /\ ~InScan(c) /\ \A d \in Clients \ {c} : pc'[d] = pc[d]
    BY DEF ScanBegin, Free, TypeOK
  <1>4. /\ c \notin DOMAIN queryBar
        /\ queryBar' = [d \in DOMAIN queryBar \cup {c} |-> IF d = c THEN q ELSE queryBar[d]]
    <2>1. \A d \in Clients : InScan(d)' <=> InScan(d) \/ d = c
      BY <1>3
    <2>2. req' = [req EXCEPT ![c] = q]
      BY DEF ScanBegin
    <2> QED BY <1>3, <2>1, <2>2 DEF TypeOK, queryBar
  <1>5. mustBar' = [mustBar EXCEPT ![c] = Scans!Found(q)]
    BY <1>2, <1>3 DEF ScanBegin, TypeOK, mustBar
  <1>6. mayBar' = [mayBar EXCEPT ![c] = Scans!Found(q)]
    BY <1>2, <1>3 DEF ScanBegin, TypeOK, mayBar
  <1>7. cleanBar' = [cleanBar EXCEPT ![c] = TRUE]
    BY <1>3 DEF ScanBegin, TypeOK, cleanBar
  <1>8. answerBar' = [answerBar EXCEPT ![c] = Scans!NoAnswer]
    BY <1>3 DEF ScanBegin, TypeOK, answerBar, Scans!NoAnswer
  <1>9. UNCHANGED table
    BY DEF ScanBegin, serviceVars
  <1>10. Scans!Begin(c, q)
    BY <1>4, <1>5, <1>6, <1>7, <1>8, <1>9 DEF Scans!Begin
  <1> QED BY <1>1, <1>10 DEF Scans!Next

(* The answer that ends a scan is an answer ScanService allows: that is what the invariants of
   the next state say of it. *)
LEMMA AnswerStep ==
  ASSUME TypeOK, ScanCompleteAlone', ScanSound', NEW c \in Clients, ScanAnswer(c)
  PROVE  Scans!Next
  <1>1. UNCHANGED <<table, req, stable, ever>> /\ pc[c] = "answered"
    BY DEF ScanAnswer
  <1>2. \A d \in Clients \ {c} : pc'[d] = pc[d] /\ got'[d] = got[d] /\ failed'[d] = failed[d]
    BY DEF ScanAnswer, TypeOK
  <1>3. alone'[c] = alone[c] /\ \A d \in Clients : alone'[d] => alone[d]
    BY DEF ScanAnswer, TypeOK
  <1>4. CASE page[c].last # NoKey
    <2>1. pc'[c] = "more"
      BY <1>4 DEF ScanAnswer, TypeOK
    <2>2. UNCHANGED <<table, queryBar, mustBar, mayBar, answerBar>>
      BY <1>1, <1>2, <2>1 DEF queryBar, mustBar, mayBar, answerBar
    <2>3. \A d \in Clients : cleanBar'[d] => cleanBar[d]
      BY <1>1, <1>2, <1>3, <2>1 DEF cleanBar
    <2> QED BY <2>2, <2>3, QuietStep
  <1>5. CASE page[c].last = NoKey
    <2>1. pc'[c] = "done"
      BY <1>5 DEF ScanAnswer, TypeOK
    <2>2. got'[c] \subseteq mayBar[c]
      BY <1>1 DEF ScanSound, mayBar
    <2>3. cleanBar[c] /\ ~failed'[c] => mustBar[c] \subseteq got'[c]
      BY <1>1, <1>3, <2>1 DEF ScanCompleteAlone, Complete, cleanBar, mustBar
    <2>4. c \in DOMAIN queryBar
      BY <1>1 DEF queryBar
    <2>5. queryBar' = [d \in DOMAIN queryBar \ {c} |-> queryBar[d]]
      BY <1>1, <1>2, <2>1 DEF queryBar
    <2>6. mustBar' = [mustBar EXCEPT ![c] = {}] /\ mayBar' = [mayBar EXCEPT ![c] = {}]
      BY <1>1, <1>2, <2>1 DEF mustBar, mayBar
    <2>7. answerBar' = [answerBar EXCEPT ![c] = [ids |-> got'[c], failed |-> failed'[c]]]
      BY <1>1, <1>2, <2>1 DEF answerBar
    <2>8. /\ cleanBar' \in [Clients -> BOOLEAN] /\ ~cleanBar'[c]
          /\ \A d \in Clients : cleanBar'[d] => cleanBar[d]
      BY <1>1, <1>2, <1>3, <2>1 DEF cleanBar
    <2>9. Scans!End(c, got'[c], failed'[c])
      BY <1>1, <2>2, <2>3, <2>4, <2>5, <2>6, <2>7, <2>8 DEF Scans!End, Scans!Disturbed
    <2>10. failed'[c] \in BOOLEAN
      BY DEF ScanAnswer, TypeOK, Pages
    <2> QED BY <2>2, <2>9, <2>10 DEF Scans!Next
  <1> QED BY <1>4, <1>5

LEMMA NextScanService ==
  TypeOK /\ ScanCompleteAlone' /\ ScanSound' /\ [Next]_vars => [Scans!Next]_(Scans!vars)
  <1> SUFFICES ASSUME TypeOK, ScanCompleteAlone', ScanSound', [Next]_vars
               PROVE  Scans!Next \/ UNCHANGED Scans!vars
    OBVIOUS
  <1>1. ASSUME NEW c \in Clients, NEW t \in TableNames, Writing(c, t), ~createTable(c, t)
        PROVE  Scans!Next
    BY <1>1, WritingIsWrite, WriteStep
  <1>2. ASSUME NEW c \in Clients, NEW t \in TableNames, createTable(c, t) PROVE Scans!Next
    <2>1. UNCHANGED <<table, got, failed, stable, ever, alone>>
      BY <1>2 DEF createTable, historyVars
    <2>2. pc'[c] = "creating" /\ ~InScan(c)
      BY <1>2 DEF createTable, Free, TypeOK
    <2>3. \A d \in Clients \ {c} : pc'[d] = pc[d] /\ req'[d] = req[d]
      BY <1>2 DEF createTable, TypeOK
    <2>4. Scans!Drop({c})
      BY <2>1, <2>2, <2>3
         DEF Scans!Drop, Scans!NoAnswer, queryBar, mustBar, mayBar, cleanBar, answerBar
    <2> QED BY <2>4 DEF Scans!Next
  <1>3. ASSUME NEW c \in Clients, NEW t \in TableNames, NEW f \in Filters, ScanBegin(c, t, f)
        PROVE  Scans!Next
    BY <1>3, BeginStep
  <1>4. ASSUME NEW c \in Clients, ScanReadKey(c) \/ ScanCall(c) PROVE Scans!Next
    <2>1. UNCHANGED <<table, req, got, failed, stable, ever>>
      BY <1>4 DEF ScanReadKey, ScanCall, serviceVars, historyVars
    <2>2. InScan(c) /\ InScan(c)' /\ pc[c] # "done" /\ pc'[c] # "done"
      BY <1>4 DEF ScanReadKey, ScanCall, TypeOK
    <2>3. \A d \in Clients \ {c} : pc'[d] = pc[d] /\ alone'[d] = alone[d]
      BY <1>4 DEF ScanReadKey, ScanCall, TypeOK, historyVars
    <2>4. UNCHANGED <<queryBar, mustBar, mayBar, answerBar>>
      BY <2>1, <2>2, <2>3 DEF queryBar, mustBar, mayBar, answerBar
    <2>5. cleanBar'[c] => cleanBar[c]
      BY <1>4, <2>2 DEF ScanReadKey, ScanCall, historyVars, TypeOK, cleanBar
    <2>6. \A d \in Clients : cleanBar'[d] => cleanBar[d]
      BY <2>3, <2>5 DEF cleanBar
    <2> QED BY <2>1, <2>4, <2>6, QuietStep
  <1>5. ASSUME NEW c \in Clients, ScanAnswer(c) PROVE Scans!Next
    BY <1>5, AnswerStep
  <1>6. ASSUME NEW c \in Clients, Abandon(c) PROVE Scans!Next
    <2>1. /\ UNCHANGED <<table, req, got, failed, stable, ever, alone>>
          /\ \A d \in {c} : pc'[d] = "stopped"
          /\ \A d \in Clients \ {c} : pc'[d] = pc[d]
      BY <1>6 DEF Abandon, serviceVars, historyVars, TypeOK
    <2>2. \A d \in {c} : pc'[d] \notin Scanning \cup {"done"}
      BY <2>1
    <2>3. {c} \in SUBSET Clients
      OBVIOUS
    <2> QED BY <2>1, <2>2, <2>3, DropStep, Zenon
  <1>7. ASSUME NEW c \in Clients, WaitUntilActive(c) PROVE Scans!Next
    <2>1. /\ UNCHANGED <<table, req, got, failed, stable, ever, alone>>
          /\ \A d \in {c} : pc'[d] = "idle"
          /\ \A d \in Clients \ {c} : pc'[d] = pc[d]
      BY <1>7 DEF WaitUntilActive, serviceVars, historyVars, TypeOK
    <2>2. \A d \in {c} : pc'[d] \notin Scanning \cup {"done"}
      BY <2>1
    <2>3. {c} \in SUBSET Clients
      OBVIOUS
    <2> QED BY <2>1, <2>2, <2>3, DropStep, Zenon
  <1>8. ASSUME NEW t \in TableNames, TableActive(t) PROVE Scans!Next
    <2>1. UNCHANGED <<table, pc, req, got, failed, stable, ever, alone>>
      BY <1>8 DEF TableActive, clientVars, historyVars
    <2>2. UNCHANGED <<queryBar, mustBar, mayBar, cleanBar, answerBar>>
      BY <2>1 DEF queryBar, mustBar, mayBar, cleanBar, answerBar
    <2> QED BY <2>1, <2>2, QuietStep
  <1>9. ASSUME Restart PROVE Scans!Next
    <2>1. /\ UNCHANGED <<table, req, got, failed, stable, ever, alone>>
          /\ \A c \in Clients : pc'[c] = IF pc[c] = "done" THEN "done" ELSE "idle"
      BY <1>9 DEF Restart, historyVars
    <2> DEFINE D == {c \in Clients : pc[c] # "done"}
    <2>2. D \in SUBSET Clients
      OBVIOUS
    <2>3. \A c \in D : pc'[c] \notin Scanning \cup {"done"}
      BY <2>1
    <2>4. \A c \in Clients \ D : pc'[c] = pc[c]
      BY <2>1
    <2> HIDE DEF D
    <2> QED BY <2>1, <2>2, <2>3, <2>4, DropStep
  <1>10. ASSUME UNCHANGED vars PROVE UNCHANGED Scans!vars
    BY <1>10 DEF vars, serviceVars, clientVars, historyVars, Scans!vars,
                 queryBar, mustBar, mayBar, cleanBar, answerBar
  <1> QED
    BY <1>1, <1>2, <1>3, <1>4, <1>5, <1>6, <1>7, <1>8, <1>9, <1>10 DEF Next, Serving

(* Every scan of the service is a scan of ScanService: the keys, pages and calls never show. *)
THEOREM ScanServiceHolds == Spec => ScanServiceImplemented
  <1>1. Init => Scans!Init
    BY DEF Init, Scans!Init, Scans!NoAnswer,
           queryBar, mustBar, mayBar, cleanBar, answerBar
  <1> QED
    BY <1>1, NextScanService, TypeCorrect, ScanCompleteAloneHolds, ScanSoundHolds, PTL
    DEF Spec, ScanServiceImplemented, Scans!Spec

=============================================================================
