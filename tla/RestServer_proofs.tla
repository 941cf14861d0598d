------------------------- MODULE RestServer_proofs -------------------------
(* What every request of rest_server can rely on, for any number of requests and threads. *)
EXTENDS RestServer, FiniteSetTheorems, TLAPS

(* Searches of two types that are under way at the same time have met. *)
MetInv ==
  \A q, r \in Requests :
    /\ at[q] \in Searching /\ at[r] \in Searching /\ req[q].searchType # req[r].searchType
    => met[q] /\ met[r]

(* Between its assignment and its last read, a search that has met no other finds its own type. *)
ValueInv ==
  \A r \in Requests :
    at[r] \in {"type", "min", "max"} /\ ~met[r] => searchTypeValue = req[r].searchType

SearchInv == TypeOK /\ MetInv /\ ValueInv /\ SearchesOwnType

(* Before a handler replies its status is 0; a deposit is woken by a refusal, or by a success
   or the lack of a body; and what succeeded is done. *)
ReplyOf(r) ==
  /\ outcome[r] = "success" /\ Service(r) \in Posters => done[r]
  /\ at[r] \in Searching => Service(r) \notin Posters
  /\ at[r] \notin {"woken", "end"} => status[r] = 0
  /\ at[r] = "woken" => status[r] = 400 \/ (status[r] = 0 /\ outcome[r] \in {"success", "unread"})
  /\ Service(r) \in Posters /\ status[r] = 200 => outcome[r] = "unread" \/ done[r]

ReplyInv == TypeOK /\ \A r \in Requests : ReplyOf(r)

-----------------------------------------------------------------------------
(* The points a handler goes through. *)
LEMMA Moves == {"queued", "handler", "opened", "call", "returned", "posted", "woken", "raised",
                "assign", "type", "min", "max", "scan", "end"} \subseteq Points
  BY DEF Points, Handling, Searching

(* Go moves one handler and leaves the others where they are. *)
LEMMA GoMoves ==
  ASSUME TypeOK, NEW r \in Requests, NEW p \in Points, Go(r, p)
  PROVE  /\ at' \in [Requests -> Points] /\ at'[r] = p
         /\ \A q \in Requests : q # r => at'[q] = at[q]
  BY DEF TypeOK, Go

(* TypeOK: Init gives every variable its type. *)
LEMMA InitType == ASSUME RestAssumption, Init PROVE TypeOK
<1>1. req \in [Requests -> Content]
  BY DEF RestAssumption, Init
<1>2. QED BY <1>1, Moves DEF Init, TypeOK, Statuses

(* Every step of a handler moves it. *)
LEMMA HandleMoves ==
  ASSUME NEW r \in Requests, Handle(r)
  PROVE  \E p \in Points : Go(r, p)
<1>1. CASE Start(r) \/ Unknown(r) \/ Open(r) \/ fetchHousePrice(r) \/ Incomplete(r) \/ Call(r)
  BY <1>1, Moves, Zenon DEF Start, Unknown, Open, fetchHousePrice, Incomplete, Call
<1>2. CASE Return(r) \/ Again(r) \/ Answer(r) \/ Raised(r)
  BY <1>2, Moves DEF Return, Again, Answer, Raised
<1>3. CASE handle_announce_deposit(r) \/ Continuation(r) \/ Deposited(r) \/ Woken(r)
  BY <1>3, Moves DEF handle_announce_deposit, Continuation, Deposited, Woken
<1>4. CASE fetchSummary(r) \/ Assigned(r) \/ ReadType(r) \/ ReadMin(r) \/ ReadMax(r) \/ Page(r)
  BY <1>4, Moves DEF fetchSummary, Assigned, ReadType, ReadMin, ReadMax, Read, Page
<1>5. QED BY <1>1, <1>2, <1>3, <1>4 DEF Handle

(* The statuses a handler replies. *)
LEMMA HandleReplies ==
  ASSUME NEW r \in Requests, Handle(r)
  PROVE  UNCHANGED status \/ \E code \in Statuses : Reply(r, code)
<1>a. {200, 400, 404, 500, 503} \subseteq Statuses
  BY DEF Statuses
<1>1. CASE Unknown(r)
  BY <1>1, <1>a DEF Unknown
<1>2. CASE Incomplete(r)
  <2>1. Reply(r, 200) \/ Reply(r, 400)
    BY <1>2, Zenon DEF Incomplete
  <2>2. QED BY <2>1, <1>a
<1>3. CASE Answer(r)
  <2>1. CASE outcome[r] = "raised"
    BY <1>3, <2>1, Zenon DEF Answer
  <2>2. CASE outcome[r] = "success"
    <3>1. Reply(r, 200)
      BY <1>3, <2>2, Zenon DEF Answer
    <3>2. QED BY <3>1, <1>a
  <2>3. CASE outcome[r] \notin {"raised", "success"}
    <3>1. Reply(r, Refusal(Service(r)))
      BY <1>3, <2>3, Zenon DEF Answer
    <3>2. Refusal(Service(r)) \in Statuses
      BY <1>a DEF Refusal
    <3>3. QED BY <3>1, <3>2
  <2>4. QED BY <2>1, <2>2, <2>3
<1>4. CASE Raised(r) \/ Woken(r)
  BY <1>4, <1>a DEF Raised, Woken
<1>5. CASE Deposited(r)
  <2>1. UNCHANGED status \/ Reply(r, 400)
    BY <1>5, Zenon DEF Deposited
  <2>2. QED BY <2>1, <1>a
<1>6. CASE Page(r)
  <2>1. UNCHANGED status \/ Reply(r, 200)
    BY <1>6, Zenon DEF Page
  <2>2. QED BY <2>1, <1>a
<1>7. CASE Start(r) \/ Open(r) \/ fetchHousePrice(r) \/ Call(r) \/ Return(r) \/ Again(r)
  BY <1>7 DEF Start, Open, fetchHousePrice, Call, Return, Again
<1>8. CASE handle_announce_deposit(r) \/ Continuation(r) \/ fetchSummary(r)
  BY <1>8 DEF handle_announce_deposit, Continuation, fetchSummary
<1>9. CASE Assigned(r) \/ ReadType(r) \/ ReadMin(r) \/ ReadMax(r)
  BY <1>9 DEF Assigned, ReadType, ReadMin, ReadMax, Read
<1>10. QED BY <1>1, <1>2, <1>3, <1>4, <1>5, <1>6, <1>7, <1>8, <1>9 DEF Handle

(* TypeOK: no step of a handler leaves the types. *)
LEMMA NextType == ASSUME TypeOK, [Next]_vars PROVE TypeOK'
<1>1. CASE UNCHANGED vars
  BY <1>1 DEF vars, TypeOK
<1>2. ASSUME NEW r \in Requests, Handle(r) PROVE TypeOK'
  <2>1. at' \in [Requests -> Points]
    BY <1>2, HandleMoves, GoMoves
  <2>2. status' \in [Requests -> Statuses]
    BY <1>2, HandleReplies DEF Reply, TypeOK
  <2> DEFINE Rest == <<req, calls, searchTypeValue, outcome, done, strayed, met>>
  <2>3. CASE UNCHANGED Rest
    BY <2>1, <2>2, <2>3 DEF TypeOK
  <2>4. CASE Call(r) BY <2>1, <2>2, <2>4 DEF Call, TypeOK
  <2>5. CASE Return(r)
    <3>1. PICK o \in {"success", "refused", "raised"}, d \in BOOLEAN :
            /\ outcome' = [outcome EXCEPT ![r] = o]
            /\ done'    = [done EXCEPT ![r] = @ \/ d]
      BY <2>5, Zenon DEF Return
    <3>2. outcome' \in [Requests -> {"none", "success", "refused", "raised", "unread"}]
      BY <3>1 DEF TypeOK
    <3>3. done' \in [Requests -> BOOLEAN]
      BY <3>1 DEF TypeOK
    <3>4. UNCHANGED <<req, calls, searchTypeValue, strayed, met>>
      BY <2>5 DEF Return
    <3>5. QED BY <2>1, <2>2, <3>2, <3>3, <3>4 DEF TypeOK
  <2>6. CASE Again(r) BY <2>1, <2>2, <2>6 DEF Again, TypeOK
  <2>7. CASE Continuation(r)
    <3>1. /\ outcome' = outcome \/ outcome' = [outcome EXCEPT ![r] = "unread"]
          /\ calls' = calls \/ calls' = [calls EXCEPT ![r] = 1]
          /\ UNCHANGED <<req, searchTypeValue, done, strayed, met>>
      BY <2>7, Zenon DEF Continuation
    <3>2. outcome' \in [Requests -> {"none", "success", "refused", "raised", "unread"}]
      BY <3>1 DEF TypeOK
    <3>3. calls' \in [Requests -> Nat]
      <4>1. calls \in [Requests -> Nat]
        BY DEF TypeOK
      <4>2. QED BY <3>1, <4>1
    <3>4. QED BY <2>1, <2>2, <3>1, <3>2, <3>3 DEF TypeOK
  <2>8. CASE fetchSummary(r) BY <2>1, <2>2, <2>8 DEF fetchSummary, TypeOK
  <2>9. CASE Assigned(r)
    <3>1. req[r].searchType \in Types
      BY DEF TypeOK, Content
    <3>2. QED BY <2>1, <2>2, <2>9, <3>1 DEF Assigned, TypeOK
  <2>10. CASE ReadType(r) \/ ReadMin(r) \/ ReadMax(r)
    <3>1. PICK v \in Readable : strayed' = [strayed EXCEPT ![r] = @ \/ v # req[r].searchType]
      BY <2>10, Zenon DEF ReadType, ReadMin, ReadMax, Read
    <3>2. strayed' \in [Requests -> BOOLEAN]
      BY <3>1 DEF TypeOK
    <3>3. QED BY <2>1, <2>2, <2>10, <3>2 DEF ReadType, ReadMin, ReadMax, Read, TypeOK
  <2>11. CASE Page(r)
    <3>1. calls' = [calls EXCEPT ![r] = @ + 1]
          /\ UNCHANGED <<req, searchTypeValue, outcome, done, strayed, met>>
      BY <2>11, Zenon DEF Page
    <3>2. calls' \in [Requests -> Nat]
      <4>1. calls \in [Requests -> Nat]
        BY DEF TypeOK
      <4>2. QED BY <3>1, <4>1
    <3>3. QED BY <2>1, <2>2, <3>1, <3>2 DEF TypeOK
  <2>12. Start(r) \/ Unknown(r) \/ Open(r) \/ fetchHousePrice(r) \/ Incomplete(r) \/ Answer(r)
         \/ Raised(r) \/ handle_announce_deposit(r) \/ Deposited(r) \/ Woken(r)
         => UNCHANGED Rest
    BY Zenon DEF Start, Unknown, Open, fetchHousePrice, Incomplete, Answer, Raised,
       handle_announce_deposit, Deposited, Woken
  <2>13. QED
    BY <1>2, <2>3, <2>4, <2>5, <2>6, <2>7, <2>8, <2>9, <2>10, <2>11, <2>12 DEF Handle
<1>3. QED BY <1>1, <1>2 DEF Next

-----------------------------------------------------------------------------
(* searchTypeValue: a search that has met no other reads its own type, whole. *)
LEMMA ReadsOwn ==
  ASSUME SearchInv, NEW r \in Requests, at[r] \in {"type", "min", "max"}, ~met[r],
         NEW v \in Readable
  PROVE  v = req[r].searchType
<1> DEFINE own == req[r].searchType
           written == {req[q].searchType : q \in {w \in Requests : at[w] = "assign"}} \cup {searchTypeValue}
<1>1. searchTypeValue = own
  BY DEF SearchInv, ValueInv
<1>2. \A q \in Requests : at[q] = "assign" => req[q].searchType = own
  BY DEF SearchInv, MetInv, Searching
<1>3. written = {own}
  BY <1>1, <1>2
<1>4. Cardinality({own}) = 1
  BY FS_Singleton
<1>5. Readable = {own}
  BY <1>3, <1>4 DEF Readable
<1>6. QED BY <1>5

(* SearchInv: a step that moves one handler to a point outside the searches. *)
LEMMA QuietSearch ==
  ASSUME SearchInv, NEW r \in Requests, NEW p \in Points \ Searching, Go(r, p),
         UNCHANGED <<req, searchTypeValue, strayed, met>>
  PROVE  MetInv' /\ ValueInv' /\ SearchesOwnType'
<1>1. \A q \in Requests : at'[q] \in Searching => q # r /\ at'[q] = at[q]
  BY DEF Go, SearchInv, TypeOK
<1>2. MetInv'
  BY <1>1 DEF SearchInv, MetInv
<1>3. ValueInv'
  BY <1>1 DEF SearchInv, ValueInv, Searching
<1>4. SearchesOwnType'
  BY DEF SearchInv, SearchesOwnType
<1>5. QED BY <1>2, <1>3, <1>4

(* SearchInv: a read of searchTypeValue. *)
LEMMA ReadSearch ==
  ASSUME SearchInv, NEW r \in Requests, NEW from \in {"type", "min", "max"},
         NEW to \in {"min", "max", "scan"}, Read(r, from, to)
  PROVE  MetInv' /\ ValueInv' /\ SearchesOwnType'
<1> USE DEF Read, Go
<1>1. \A q \in Requests : at'[q] \in Searching => at[q] \in Searching
  BY DEF SearchInv, TypeOK, Searching
<1>2. MetInv'
  BY <1>1 DEF SearchInv, MetInv
<1>3. \A q \in Requests : at'[q] \in {"type", "min", "max"} => at[q] \in {"type", "min", "max"}
  BY DEF SearchInv, TypeOK
<1>4. ValueInv'
  BY <1>3 DEF SearchInv, ValueInv
<1>5. SearchesOwnType'
  <2>1. PICK v \in Readable : strayed' = [strayed EXCEPT ![r] = @ \/ v # req[r].searchType]
    OBVIOUS
  <2>2. ~met[r] => v = req[r].searchType
    BY <2>1, ReadsOwn
  <2>3. SUFFICES ASSUME NEW q \in Requests, strayed'[q] PROVE met'[q]
    BY DEF SearchesOwnType
  <2>4. CASE q # r BY <2>1, <2>3, <2>4 DEF SearchInv, SearchesOwnType, TypeOK
  <2>5. CASE q = r
    <3>1. strayed[r] \/ v # req[r].searchType
      BY <2>1, <2>3, <2>5 DEF SearchInv, TypeOK
    <3>2. QED BY <3>1, <2>2, <2>5 DEF SearchInv, SearchesOwnType
  <2>6. QED BY <2>4, <2>5
<1>6. QED BY <1>2, <1>4, <1>5

(* SearchInv: every step of a handler preserves it. *)
LEMMA NextSearch == ASSUME SearchInv, [Next]_vars PROVE SearchInv'
<1>1. TypeOK'
  BY NextType DEF SearchInv
<1>2. CASE UNCHANGED vars
  BY <1>1, <1>2 DEF vars, SearchInv, MetInv, ValueInv, SearchesOwnType
<1>3. ASSUME NEW r \in Requests, Handle(r) PROVE MetInv' /\ ValueInv' /\ SearchesOwnType'
  <2> USE <1>3
  <2>1. CASE \E p \in Points \ Searching : Go(r, p) /\ UNCHANGED <<req, searchTypeValue, strayed, met>>
    BY <2>1, QuietSearch
  <2>2. CASE fetchSummary(r)
    <3> USE <2>2 DEF fetchSummary, Go
    <3>1. \A q \in Requests : at'[q] \in Searching => q = r \/ at[q] \in Searching
      BY DEF SearchInv, TypeOK
    <3>2. \A q \in Requests : met'[q] = (met[q] \/ q \in Other(r) \/ (q = r /\ Other(r) # {}))
      BY DEF SearchInv, TypeOK
    <3>3. MetInv'
      BY <3>1, <3>2 DEF SearchInv, MetInv, Other
    <3>4. \A q \in Requests : at'[q] \in {"type", "min", "max"} => at[q] = at'[q]
      BY DEF SearchInv, TypeOK
    <3>5. ValueInv'
      BY <3>2, <3>4 DEF SearchInv, ValueInv
    <3>6. SearchesOwnType'
      BY <3>2 DEF SearchInv, SearchesOwnType
    <3>7. QED BY <3>3, <3>5, <3>6
  <2>3. CASE Assigned(r)
    <3> USE <2>3 DEF Assigned, Go
    <3>1. \A q \in Requests : at'[q] \in Searching => at[q] \in Searching
      BY DEF SearchInv, TypeOK, Searching
    <3>2. MetInv'
      BY <3>1 DEF SearchInv, MetInv
    <3>3. \A q \in Requests : at'[q] \in {"type", "min", "max"} => at[q] \in Searching
      BY <3>1 DEF Searching
    <3>4. ValueInv'
      BY <3>3 DEF SearchInv, ValueInv, MetInv, Searching
    <3>5. SearchesOwnType'
      BY DEF SearchInv, SearchesOwnType
    <3>6. QED BY <3>2, <3>4, <3>5
  <2>4. CASE ReadType(r) BY <2>4, ReadSearch DEF ReadType
  <2>5. CASE ReadMin(r) BY <2>5, ReadSearch DEF ReadMin
  <2>6. CASE ReadMax(r) BY <2>6, ReadSearch DEF ReadMax
  <2>7. CASE Page(r)
    <3>1. CASE Go(r, "assign")
      <4> USE <2>7, <3>1 DEF Page, Go
      <4>1. \A q \in Requests : at'[q] \in Searching => at[q] \in Searching
        BY DEF SearchInv, TypeOK, Searching
      <4>2. MetInv'
        BY <4>1 DEF SearchInv, MetInv
      <4>3. \A q \in Requests : at'[q] \in {"type", "min", "max"} => at[q] = at'[q]
        BY DEF SearchInv, TypeOK
      <4>4. ValueInv'
        BY <4>3 DEF SearchInv, ValueInv
      <4>5. SearchesOwnType'
        BY DEF SearchInv, SearchesOwnType
      <4>6. QED BY <4>2, <4>4, <4>5
    <3>2. CASE Go(r, "end") \/ Go(r, "raised")
      BY <2>7, <3>2, <2>1 DEF Page, Points, Handling, Searching
    <3>3. QED BY <2>7, <3>1, <3>2 DEF Page
  <2>8. \/ Start(r) \/ Unknown(r) \/ Open(r) \/ fetchHousePrice(r) \/ Incomplete(r) \/ Call(r)
        \/ Return(r) \/ Again(r) \/ Answer(r) \/ Raised(r)
        \/ handle_announce_deposit(r) \/ Continuation(r) \/ Deposited(r) \/ Woken(r)
        => \E p \in Points \ Searching : Go(r, p) /\ UNCHANGED <<req, searchTypeValue, strayed, met>>
    <3>1. {"handler", "opened", "call", "returned", "posted", "woken", "raised", "end"} \subseteq Points \ Searching
      BY DEF Points, Handling, Searching
    <3>2. QED
      BY <3>1, Zenon DEF Start, Unknown, Open, fetchHousePrice, Incomplete, Call, Return, Again, Answer, Raised,
         handle_announce_deposit, Continuation, Deposited, Woken
  <2>9. QED BY <2>1, <2>2, <2>3, <2>4, <2>5, <2>6, <2>7, <2>8 DEF Handle
<1>4. QED BY <1>1, <1>2, <1>3 DEF Next, SearchInv

(* fetchSummary: a page is never filtered by another type than the query's, but beside a
   search of that other type. *)
THEOREM SearchesOwnTypeHolds == ASSUME RestAssumption PROVE Spec => []SearchesOwnType
<1>1. Init => SearchInv
  BY InitType DEF Init, SearchInv, MetInv, ValueInv, SearchesOwnType, Searching
<1>2. SearchInv /\ [Next]_vars => SearchInv'
  BY NextSearch
<1>3. SearchInv => SearchesOwnType
  BY DEF SearchInv
<1>4. QED BY <1>1, <1>2, <1>3, PTL DEF Spec

-----------------------------------------------------------------------------
(* The orders are not reads, nor is "unknown" one. *)
LEMMA Orders == \A s \in Posters : s \notin Getters \cup {"unknown"}
  BY DEF Posters, Getters

(* Every step of a handler leaves the requests as they were sent. *)
LEMMA SameRequests == ASSUME NEW r \in Requests, Handle(r) PROVE UNCHANGED req
<1>1. CASE Start(r) \/ Unknown(r) \/ Open(r) \/ fetchHousePrice(r) \/ Incomplete(r) \/ Call(r)
  BY <1>1 DEF Start, Unknown, Open, fetchHousePrice, Incomplete, Call
<1>2. CASE Return(r) \/ Again(r) \/ Answer(r) \/ Raised(r)
  BY <1>2 DEF Return, Again, Answer, Raised
<1>3. CASE handle_announce_deposit(r) \/ Continuation(r) \/ Deposited(r) \/ Woken(r)
  BY <1>3 DEF handle_announce_deposit, Continuation, Deposited, Woken
<1>4. CASE fetchSummary(r) \/ Assigned(r) \/ ReadType(r) \/ ReadMin(r) \/ ReadMax(r) \/ Page(r)
  BY <1>4 DEF fetchSummary, Assigned, ReadType, ReadMin, ReadMax, Read, Page
<1>5. QED BY <1>1, <1>2, <1>3, <1>4 DEF Handle

(* A reply where none has been sent. *)
LEMMA FirstReply ==
  ASSUME TypeOK, NEW r \in Requests, NEW code \in Statuses, Reply(r, code)
  PROVE  /\ status[r] = 0 => status'[r] = code
         /\ status[r] # 0 => status'[r] = status[r]
  BY DEF TypeOK, Reply

(* ReplyInv: the steps of one request. *)
LEMMA ReplyStep ==
  ASSUME ReplyInv, NEW r \in Requests, Handle(r)
  PROVE  ReplyOf(r)'
<1>a. TypeOK /\ ReplyOf(r) /\ Service(r)' = Service(r)
  BY SameRequests DEF ReplyInv, Service
<1>b. {200, 400, 404, 500, 503} \subseteq Statuses
  BY DEF Statuses
<1>c. \A p \in Points : Go(r, p) => at'[r] = p
  BY <1>a, GoMoves
<1>d. \A code \in Statuses : Reply(r, code) /\ status[r] = 0 => status'[r] = code
  BY <1>a, FirstReply
<1>1. ASSUME UNCHANGED <<outcome, status, done>>, at[r] \notin {"woken", "end"},
             NEW p \in Points \ {"woken", "end"}, Go(r, p),
             p \in Searching => at[r] \in Searching
      PROVE  ReplyOf(r)'
  BY <1>a, <1>c, <1>1 DEF ReplyOf
<1>2. CASE Start(r) \/ Open(r) \/ handle_announce_deposit(r)
  <2>1. /\ UNCHANGED <<outcome, status, done>> /\ at[r] \notin {"woken", "end"}
        /\ Go(r, "handler") \/ Go(r, "opened") \/ Go(r, "posted") \/ Go(r, "raised")
    BY <1>2 DEF Start, Open, handle_announce_deposit
  <2>2. QED BY <1>1, <2>1, Moves DEF Searching
<1>3. CASE fetchHousePrice(r) \/ Call(r) \/ Again(r)
  <2>1. /\ UNCHANGED <<outcome, status, done>> /\ at[r] \notin {"woken", "end"}
        /\ Go(r, "call") \/ Go(r, "raised")
    BY <1>3 DEF fetchHousePrice, Call, Again
  <2>2. QED BY <1>1, <2>1, Moves DEF Searching
<1>4. CASE fetchSummary(r)
  <2>1. /\ UNCHANGED <<outcome, status, done>> /\ at[r] \notin {"woken", "end"}
        /\ at'[r] = "assign" /\ Service(r) \notin Posters
    BY <1>4, <1>c, Moves, Orders DEF fetchSummary, Getters
  <2>2. QED BY <1>a, <2>1 DEF ReplyOf
<1>5. CASE Assigned(r) \/ ReadType(r) \/ ReadMin(r) \/ ReadMax(r)
  <2>1. /\ UNCHANGED <<outcome, status, done>> /\ at[r] \in Searching
        /\ Go(r, "type") \/ Go(r, "min") \/ Go(r, "max") \/ Go(r, "scan")
    BY <1>5 DEF Assigned, ReadType, ReadMin, ReadMax, Read, Searching
  <2>2. QED BY <1>1, <2>1, Moves DEF Searching
<1>6. CASE Unknown(r)
  <2>1. at'[r] = "end" /\ status'[r] = 404 /\ Service(r) \notin Posters /\ UNCHANGED <<outcome, done>>
    BY <1>a, <1>b, <1>c, <1>d, <1>6, Moves, Orders DEF Unknown, ReplyOf
  <2>2. QED BY <1>a, <2>1 DEF ReplyOf, Searching
<1>7. CASE Incomplete(r)
  <2>1. at'[r] = "end" /\ UNCHANGED <<outcome, done>> /\ status[r] = 0
    BY <1>a, <1>c, <1>7, Moves DEF Incomplete, ReplyOf
  <2>2. ASSUME Service(r) \in Posters PROVE Reply(r, 400)
    <3>1. Service(r) \notin Getters
      BY <2>2, Orders
    <3>2. QED BY <1>7, <3>1, Zenon DEF Incomplete
  <2>3. Service(r) \in Posters => status'[r] = 400
    BY <1>b, <1>d, <2>1, <2>2
  <2>4. QED BY <1>a, <2>1, <2>3 DEF ReplyOf, Searching
<1>8. CASE Return(r)
  <2>1. at'[r] = "returned" /\ UNCHANGED status /\ status[r] = 0
    BY <1>a, <1>c, <1>8, Moves DEF Return, ReplyOf
  <2>2. outcome'[r] = "success" /\ Service(r) \in Posters => done'[r]
    <3>1. PICK o \in {"success", "refused", "raised"}, d \in BOOLEAN :
            /\ Service(r) \in Posters /\ o = "success" => d
            /\ outcome' = [outcome EXCEPT ![r] = o]
            /\ done'    = [done EXCEPT ![r] = @ \/ d]
      BY <1>8, Zenon DEF Return
    <3>2. outcome'[r] = o /\ (d => done'[r])
      BY <1>a, <3>1 DEF TypeOK
    <3>3. QED BY <3>1, <3>2
  <2>3. QED BY <1>a, <2>1, <2>2 DEF ReplyOf, Searching
<1>9. CASE Answer(r)
  <2>1. UNCHANGED <<outcome, done>> /\ status[r] = 0
    BY <1>a, <1>9 DEF Answer, ReplyOf
  <2>2. CASE outcome[r] = "raised"
    <3>1. Go(r, "raised") /\ UNCHANGED status
      BY <1>9, <2>2, Zenon DEF Answer
    <3>2. QED BY <1>a, <1>c, <2>1, <3>1, Moves DEF ReplyOf, Searching
  <2>3. CASE outcome[r] = "success"
    <3>1. Go(r, "end") /\ Reply(r, 200)
      BY <1>9, <2>3, Zenon DEF Answer
    <3>2. at'[r] = "end" /\ status'[r] = 200
      BY <1>b, <1>c, <1>d, <2>1, <3>1, Moves
    <3>3. QED BY <1>a, <2>1, <2>3, <3>2 DEF ReplyOf, Searching
  <2>4. CASE outcome[r] \notin {"raised", "success"}
    <3>1. Go(r, "end") /\ Reply(r, Refusal(Service(r)))
      BY <1>9, <2>4, Zenon DEF Answer
    <3>2. Service(r) \in Posters => Refusal(Service(r)) \in {400, 503}
      BY Orders DEF Refusal
    <3>3. Service(r) \in Posters => status'[r] \in {400, 503}
      BY <1>b, <1>d, <2>1, <3>1, <3>2
    <3>4. at'[r] = "end"
      BY <1>c, <3>1, Moves
    <3>5. QED BY <1>a, <2>1, <3>3, <3>4 DEF ReplyOf, Searching
  <2>5. QED BY <2>2, <2>3, <2>4
<1>10. CASE Raised(r)
  <2>1. at'[r] = "end" /\ status'[r] = 500 /\ UNCHANGED <<outcome, done>>
    BY <1>a, <1>b, <1>c, <1>d, <1>10, Moves DEF Raised, ReplyOf
  <2>2. QED BY <1>a, <2>1 DEF ReplyOf, Searching
<1>11. CASE Continuation(r)
  <2>1. at[r] = "posted" /\ UNCHANGED <<status, done>>
    BY <1>11 DEF Continuation
  <2>2. CASE Go(r, "woken") /\ outcome' = [outcome EXCEPT ![r] = "unread"]
    <3>1. at'[r] = "woken" /\ outcome'[r] = "unread"
      BY <1>a, <1>c, <2>2, Moves DEF TypeOK
    <3>2. QED BY <1>a, <2>1, <3>1 DEF ReplyOf, Searching
  <2>3. CASE (Go(r, "raised") \/ Go(r, "call")) /\ UNCHANGED outcome
    BY <1>1, <2>1, <2>3, Moves DEF Searching
  <2>4. QED BY <1>11, <2>2, <2>3 DEF Continuation
<1>12. CASE Deposited(r)
  <2>1. at'[r] = "woken" /\ UNCHANGED <<outcome, done>> /\ status[r] = 0
    BY <1>a, <1>c, <1>12, Moves DEF Deposited, ReplyOf
  <2>2. CASE outcome[r] = "success"
    <3>1. UNCHANGED status
      BY <1>12, <2>2, Zenon DEF Deposited
    <3>2. QED BY <1>a, <2>1, <2>2, <3>1 DEF ReplyOf, Searching
  <2>3. CASE outcome[r] # "success"
    <3>1. Reply(r, 400)
      BY <1>12, <2>3, Zenon DEF Deposited
    <3>2. status'[r] = 400
      BY <1>b, <1>d, <2>1, <3>1
    <3>3. QED BY <1>a, <2>1, <3>2 DEF ReplyOf, Searching
  <2>4. QED BY <2>2, <2>3
<1>13. CASE Woken(r)
  <2>1. at[r] = "woken" /\ at'[r] = "end" /\ Reply(r, 200) /\ UNCHANGED <<outcome, done>>
    BY <1>c, <1>13, Moves DEF Woken
  <2>2. CASE status[r] = 0
    <3>1. outcome[r] \in {"success", "unread"}
      BY <1>a, <2>1, <2>2 DEF ReplyOf
    <3>2. QED BY <1>a, <2>1, <3>1 DEF ReplyOf, Searching
  <2>3. CASE status[r] # 0
    <3>1. status'[r] = 400
      BY <1>a, <1>b, <2>1, <2>3, FirstReply DEF ReplyOf
    <3>2. QED BY <1>a, <2>1, <3>1 DEF ReplyOf, Searching
  <2>4. QED BY <2>2, <2>3
<1>14. CASE Page(r)
  <2>1. at[r] = "scan" /\ UNCHANGED <<outcome, done>>
    BY <1>14 DEF Page
  <2>2. status[r] = 0 /\ Service(r) \notin Posters
    BY <1>a, <2>1 DEF ReplyOf, Searching
  <2>3. CASE Go(r, "end")
    BY <1>a, <1>c, <2>1, <2>2, <2>3, Moves DEF ReplyOf, Searching
  <2>4. CASE (Go(r, "assign") \/ Go(r, "raised")) /\ UNCHANGED status
    BY <1>1, <2>1, <2>4, Moves DEF Searching
  <2>5. QED BY <1>14, <2>3, <2>4 DEF Page
<1>15. QED
  BY <1>2, <1>3, <1>4, <1>5, <1>6, <1>7, <1>8, <1>9, <1>10, <1>11, <1>12, <1>13, <1>14 DEF Handle

(* ReplyInv: a step of one request leaves the others as they were. *)
LEMMA OthersStep ==
  ASSUME ReplyInv, NEW r \in Requests, Handle(r), NEW q \in Requests, q # r
  PROVE  ReplyOf(q)'
<1>1. at'[q] = at[q]
  BY HandleMoves, GoMoves DEF ReplyInv
<1>2. status'[q] = status[q]
  BY HandleReplies DEF ReplyInv, TypeOK, Reply
<1>3. outcome' = outcome \/ \E o \in {"success", "refused", "raised", "unread"} : outcome' = [outcome EXCEPT ![r] = o]
  <2>1. CASE Return(r) BY <2>1 DEF Return
  <2>2. CASE Continuation(r) BY <2>2, Zenon DEF Continuation
  <2>3. ~Return(r) /\ ~Continuation(r) => outcome' = outcome
    BY Zenon DEF Handle, Start, Unknown, Open, fetchHousePrice, Incomplete, Call, Again, Answer, Raised,
       handle_announce_deposit, Deposited, Woken, fetchSummary, Assigned, ReadType, ReadMin, ReadMax,
       Read, Page
  <2>4. QED BY <2>1, <2>2, <2>3
<1>4. outcome'[q] = outcome[q]
  BY <1>3 DEF ReplyInv, TypeOK
<1>5. done'[q] = done[q]
  <2>1. CASE Return(r)
    <3>1. PICK d \in BOOLEAN : done' = [done EXCEPT ![r] = @ \/ d]
      BY <2>1, Zenon DEF Return
    <3>2. QED BY <3>1 DEF ReplyInv, TypeOK
  <2>2. ~Return(r) => done' = done
    BY Zenon DEF Handle, Start, Unknown, Open, fetchHousePrice, Incomplete, Call, Again, Answer, Raised,
       handle_announce_deposit, Continuation, Deposited, Woken, fetchSummary, Assigned, ReadType,
       ReadMin, ReadMax, Read, Page
  <2>3. QED BY <2>1, <2>2
<1>6. UNCHANGED req
  BY SameRequests
<1>7. QED BY <1>1, <1>2, <1>4, <1>5, <1>6 DEF ReplyInv, ReplyOf, Service

(* The replies: a request that was answered 200 has been done, whatever raised on the way,
   but for a deposit whose body could not be read. *)
THEOREM AcceptedIsDoneHolds == ASSUME RestAssumption PROVE Spec => []AcceptedIsDone
<1>1. Init => ReplyInv
  <2>1. SUFFICES ASSUME Init PROVE \A r \in Requests : ReplyOf(r)
    BY InitType DEF ReplyInv
  <2>2. \A r \in Requests : at[r] = "queued" /\ status[r] = 0 /\ outcome[r] = "none"
    BY <2>1 DEF Init
  <2>3. QED BY <2>2 DEF ReplyOf, Searching
<1>2. ReplyInv /\ [Next]_vars => ReplyInv'
  <2>1. SUFFICES ASSUME ReplyInv, [Next]_vars PROVE \A q \in Requests : ReplyOf(q)'
    BY NextType DEF ReplyInv
  <2>2. CASE UNCHANGED vars
    BY <2>1, <2>2 DEF vars, ReplyInv, ReplyOf, Service
  <2>3. CASE Next
    BY <2>1, <2>3, ReplyStep, OthersStep DEF Next
  <2>4. QED BY <2>1, <2>2, <2>3
<1>3. ReplyInv => AcceptedIsDone
  BY DEF ReplyInv, ReplyOf, AcceptedIsDone
<1>4. QED BY <1>1, <1>2, <1>3, PTL DEF Spec

=============================================================================
