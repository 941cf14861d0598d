---------------------------- MODULE ScanService ----------------------------
(***************************************************************************)
(* What dynamodb_access promises a client that pages through a table, with *)
(* no keys, no pages and no calls: a scan has an answer in one step.  The  *)
(* answer holds nothing but items that matched at some moment of the scan; *)
(* it holds every item that matched throughout, unless the client was told *)
(* of a failure or the scan was disturbed by one of another client.        *)
(***************************************************************************)
EXTENDS DynamoTable

CONSTANTS Clients, TableNames, Filters

Queries  == [tablename : TableNames, filter : Filters]
NoAnswer == <<>>

VARIABLES
  table,      \* the tables
  query,      \* what the clients that are in a scan look for: no others are in its domain
  must,       \* the IDs that matched at every moment of its scan
  may,        \* the IDs that matched at some moment of it
  clean,      \* no scan of another client has disturbed it
  answer      \* what the client has at the end of it

vars == <<table, query, must, may, clean, answer>>

Found(q) == Matching(table[q.tablename], q.filter)

Init ==
  /\ query  = [c \in {} |-> <<>>]
  /\ must   = [c \in Clients |-> {}]
  /\ may    = [c \in Clients |-> {}]
  /\ clean  = [c \in Clients |-> FALSE]
  /\ answer = [c \in Clients |-> NoAnswer]

(* Table t becomes any other *)
Change(t) ==
  LET scans(c) == c \in DOMAIN query /\ query[c].tablename = t
  IN  /\ UNCHANGED <<query, clean, answer>>
      /\ \A u \in TableNames \ {t} : table'[u] = table[u]
      /\ must' = [c \in Clients |-> IF scans(c) THEN must[c] \cap Found(query[c])' ELSE must[c]]
      /\ may'  = [c \in Clients |-> IF scans(c) THEN may[c] \cup Found(query[c])' ELSE may[c]]

Begin(c, q) ==
  /\ c \notin DOMAIN query
  /\ query'  = [d \in DOMAIN query \cup {c} |-> IF d = c THEN q ELSE query[d]]
  /\ must'   = [must EXCEPT ![c] = Found(q)]
  /\ may'    = [may EXCEPT ![c] = Found(q)]
  /\ clean'  = [clean EXCEPT ![c] = TRUE]
  /\ answer' = [answer EXCEPT ![c] = NoAnswer]
  /\ UNCHANGED table

Disturbed == clean' \in [Clients -> BOOLEAN] /\ \A c \in Clients : clean'[c] => clean[c]

Disturb == Disturbed /\ UNCHANGED <<table, query, must, may, answer>>

End(c, ids, failed) ==
  /\ c \in DOMAIN query
  /\ ids \subseteq may[c]
  /\ clean[c] /\ ~failed => must[c] \subseteq ids
  /\ answer' = [answer EXCEPT ![c] = [ids |-> ids, failed |-> failed]]
  /\ query'  = [d \in DOMAIN query \ {c} |-> query[d]]
  /\ must'   = [must EXCEPT ![c] = {}]
  /\ may'    = [may EXCEPT ![c] = {}]
  /\ Disturbed /\ ~clean'[c]
  /\ UNCHANGED table

(* The clients D have lost their connections, or have gone on to another call: they have
   neither a scan nor its answer *)
Drop(D) ==
  /\ query'  = [c \in DOMAIN query \ D |-> query[c]]
  /\ must'   = [c \in Clients |-> IF c \in D THEN {} ELSE must[c]]
  /\ may'    = [c \in Clients |-> IF c \in D THEN {} ELSE may[c]]
  /\ clean'  = [c \in Clients |-> clean[c] /\ c \notin D]
  /\ answer' = [c \in Clients |-> IF c \in D THEN NoAnswer ELSE answer[c]]
  /\ UNCHANGED table

Next ==
  \/ \E t \in TableNames : Change(t)
  \/ \E c \in Clients, q \in Queries : Begin(c, q)
  \/ Disturb
  \/ \E c \in Clients : \E ids \in SUBSET may[c], failed \in BOOLEAN : End(c, ids, failed)
  \/ \E D \in SUBSET Clients : Drop(D)

Spec == Init /\ [][Next]_vars

=============================================================================
