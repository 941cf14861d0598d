----------------------------- MODULE RestServer -----------------------------
(***************************************************************************)
(* rest_server: a thread of cpprest's pool runs the handler of each        *)
(* request, opens a connection of its own to the service the request       *)
(* needs, calls it and replies.  What the handlers share is the pool       *)
(* itself, where the continuation of a deposit must find a thread while    *)
(* its handler waits on another one, and the global searchTypeValue, which *)
(* each page of a search writes and then reads three times.                *)
(***************************************************************************)
EXTENDS Naturals, FiniteSets

CONSTANTS
  Requests,   \* the requests, each sent once
  Contents,   \* what each may ask for
  Threads,    \* the threads of the pool
  MaxPages    \* the pages of the longest scan

Getters == {"/search/all", "/search/ad", "/predict", "/city_info",
            "/my_realestate_search", "/my_ad"}
Posters == {"/sendemailtosurfyn", "/registeremailalert", "/change_alert_status",
            "/accountcreation", "/announcedeposit", "/delete_announce"}
Types   == {"For sale", "For rent"}

(* A request has the parameters its handler looks for, or lacks one.  searchType is what its
   search_type says, and the SEARCH_TYPE of the ad that /search/ad asks for. *)
Content == [service : Getters \cup Posters \cup {"unknown"}, complete : BOOLEAN,
            searchType : Types]

ASSUME RestAssumption ==
  /\ IsFiniteSet(Requests) /\ Contents \in [Requests -> SUBSET Content]
  /\ Threads \in Nat \ {0} /\ MaxPages \in Nat \ {0}

VARIABLES
  req,              \* the content of each request
  at,               \* where its handler is
  calls,            \* the calls it has made
  searchTypeValue,
  outcome,          \* the end of its last call
  status,           \* the status replied, 0 before
  (* History *)
  done,             \* the service has done what was asked
  strayed,          \* a page of the search was filtered by another SEARCH_TYPE or unit of prices
  met               \* a search of the other type ran at the same time

vars == <<req, at, calls, searchTypeValue, outcome, status, done, strayed, met>>

Torn == "torn"

Searching == {"assign", "type", "min", "max", "scan"}
Handling  == Searching \cup {"handler", "opened", "call", "returned", "posted", "woken", "raised"}
Points    == Handling \cup {"queued", "end"}

Service(r) == req[r].service

(* The handler of a deposit keeps its thread while the continuation runs on another one. *)
InHandler      == {r \in Requests : at[r] \in Handling}
InContinuation == {r \in Requests : Service(r) = "/announcedeposit" /\ at[r] \in {"call", "returned"}}
ThreadFree     == Cardinality(InHandler) + Cardinality(InContinuation) < Threads

Init ==
  /\ req \in {f \in [Requests -> UNION {Contents[r] : r \in Requests}] :
                \A r \in Requests : f[r] \in Contents[r]}
  /\ at = [r \in Requests |-> "queued"]
  /\ calls = [r \in Requests |-> 0]
  /\ searchTypeValue = ""
  /\ outcome = [r \in Requests |-> "none"]
  /\ status  = [r \in Requests |-> 0]
  /\ done    = [r \in Requests |-> FALSE]
  /\ strayed = [r \in Requests |-> FALSE]
  /\ met     = [r \in Requests |-> FALSE]

-----------------------------------------------------------------------------
Go(r, point) == at' = [at EXCEPT ![r] = point]

(* The first reply of a request is sent.  A second one raises, which nobody sees. *)
Reply(r, code) == status' = IF status[r] = 0 THEN [status EXCEPT ![r] = code] ELSE status

Start(r) ==
  /\ at[r] = "queued" /\ ThreadFree
  /\ Go(r, "handler")
  /\ UNCHANGED <<req, calls, searchTypeValue, outcome, status, done, strayed, met>>

Unknown(r) ==
  /\ at[r] = "handler" /\ Service(r) = "unknown"
  /\ Go(r, "end") /\ Reply(r, 404)
  /\ UNCHANGED <<req, calls, searchTypeValue, outcome, done, strayed, met>>

(* The constructors of DBaccess, EmailAlertAccess, DepositAccess and SendEmailAccess open a
   connection before the handler looks at the parameters. *)
Open(r) ==
  /\ at[r] = "handler" /\ Service(r) \notin {"unknown", "/announcedeposit"}
  /\ (Service(r) = "/predict" => req[r].complete)
  /\ \/ Go(r, "opened")
     \/ Go(r, "raised")
  /\ UNCHANGED <<req, calls, searchTypeValue, outcome, status, done, strayed, met>>

(* EstimatorAccess opens nothing: the call of getprice raises.  Without a code_postal it is
   the first call. *)
fetchHousePrice(r) ==
  /\ Service(r) = "/predict"
  /\ \/ at[r] = "handler" /\ ~req[r].complete
     \/ at[r] = "returned" /\ outcome[r] # "raised"
  /\ Go(r, "raised")
  /\ UNCHANGED <<req, calls, searchTypeValue, outcome, status, done, strayed, met>>

(* A parameter is missing: the reads answer an empty list, the others refuse. *)
Incomplete(r) ==
  /\ at[r] = "opened" /\ ~req[r].complete /\ Service(r) # "/sendemailtosurfyn"
  /\ Go(r, "end") /\ Reply(r, IF Service(r) \in Getters THEN 200 ELSE 400)
  /\ UNCHANGED <<req, calls, searchTypeValue, outcome, done, strayed, met>>

Call(r) ==
  /\ at[r] = "opened" /\ Service(r) # "/search/all"
  /\ req[r].complete \/ Service(r) = "/sendemailtosurfyn"
  /\ Go(r, "call") /\ calls' = [calls EXCEPT ![r] = 1]
  /\ UNCHANGED <<req, searchTypeValue, outcome, status, done, strayed, met>>

(* The service answers, or the connection breaks, before or after it has done its work. *)
Return(r) ==
  /\ at[r] = "call" /\ Go(r, "returned")
  /\ \E o \in {"success", "refused", "raised"}, d \in BOOLEAN :
       /\ IF Service(r) \in Posters THEN o = "success" => d ELSE ~d
       /\ outcome' = [outcome EXCEPT ![r] = o]
       /\ done'    = [done EXCEPT ![r] = @ \/ d]
  /\ UNCHANGED <<req, calls, searchTypeValue, status, strayed, met>>

(* The median price of the city of an ad for sale. *)
Again(r) ==
  /\ at[r] = "returned" /\ Service(r) = "/search/ad" /\ outcome[r] = "success"
  /\ req[r].searchType = "For sale" /\ calls[r] = 1
  /\ Go(r, "call") /\ calls' = [calls EXCEPT ![r] = 2]
  /\ UNCHANGED <<req, searchTypeValue, outcome, status, done, strayed, met>>

(* The reads ignore the success of their calls. *)
Refusal(service) ==
  CASE service \in Getters                                         -> 200
    [] service \in {"/sendemailtosurfyn", "/accountcreation"}      -> 503
    [] OTHER                                                       -> 400

Answer(r) ==
  /\ at[r] = "returned" /\ Service(r) # "/announcedeposit"
  /\ Service(r) = "/predict" => outcome[r] = "raised"
  /\ IF outcome[r] = "raised"
     THEN Go(r, "raised") /\ UNCHANGED status
     ELSE Go(r, "end") /\ Reply(r, IF outcome[r] = "success" THEN 200 ELSE Refusal(Service(r)))
  /\ UNCHANGED <<req, calls, searchTypeValue, outcome, done, strayed, met>>

(* An exception that leaves the handler: the listener replies. *)
Raised(r) ==
  /\ at[r] = "raised" /\ Go(r, "end") /\ Reply(r, 500)
  /\ UNCHANGED <<req, calls, searchTypeValue, outcome, done, strayed, met>>

-----------------------------------------------------------------------------
(* A deposit: the handler asks for the body and waits for what follows it. *)
handle_announce_deposit(r) ==
  /\ at[r] = "handler" /\ Service(r) = "/announcedeposit"
  /\ Go(r, "posted")
  /\ UNCHANGED <<req, calls, searchTypeValue, outcome, status, done, strayed, met>>

(* Seeded fault: every exception of the continuation is caught and logged. *)
CatchAll(r) ==
  /\ at[r] = "posted" /\ ThreadFree
  /\ \/ Go(r, "woken") /\ UNCHANGED calls
     \/ req[r].complete /\ Go(r, "call") /\ calls' = [calls EXCEPT ![r] = 1]
  /\ UNCHANGED <<req, searchTypeValue, outcome, status, done, strayed, met>>

(* The body can't be read, which is only logged; or it is no JSON, or has no user_id, or
   DepositAccess can't connect: wait() raises what was raised; or the service is called. *)
Continuation(r) ==
  /\ at[r] = "posted" /\ ThreadFree
  /\ \/ Go(r, "woken") /\ outcome' = [outcome EXCEPT ![r] = "unread"] /\ UNCHANGED calls
     \/ Go(r, "raised") /\ UNCHANGED <<outcome, calls>>
     \/ req[r].complete /\ Go(r, "call") /\ calls' = [calls EXCEPT ![r] = 1] /\ UNCHANGED outcome
  /\ UNCHANGED <<req, searchTypeValue, status, done, strayed, met>>

(* announce_deposit catches what the call raises, and then finds no success in its result. *)
Deposited(r) ==
  /\ at[r] = "returned" /\ Service(r) = "/announcedeposit"
  /\ Go(r, "woken")
  /\ IF outcome[r] = "success" THEN UNCHANGED status ELSE Reply(r, 400)
  /\ UNCHANGED <<req, calls, searchTypeValue, outcome, done, strayed, met>>

(* Seeded fault: only the continuation's result is replied. *)
WokenReplied(r) ==
  /\ at[r] = "woken" /\ Go(r, "end")
  /\ IF outcome[r] = "success" THEN Reply(r, 200) ELSE UNCHANGED status
  /\ UNCHANGED <<req, calls, searchTypeValue, outcome, done, strayed, met>>

Woken(r) ==
  /\ at[r] = "woken" /\ Go(r, "end") /\ Reply(r, 200)
  /\ UNCHANGED <<req, calls, searchTypeValue, outcome, done, strayed, met>>

-----------------------------------------------------------------------------
(* A search, page after page. *)
Other(r) == {q \in Requests \ {r} : at[q] \in Searching /\ req[q].searchType # req[r].searchType}

fetchSummary(r) ==
  /\ at[r] = "opened" /\ Service(r) = "/search/all" /\ req[r].complete
  /\ Go(r, "assign")
  /\ met' = [q \in Requests |-> met[q] \/ q \in Other(r) \/ (q = r /\ Other(r) # {})]
  /\ UNCHANGED <<req, calls, searchTypeValue, outcome, status, done, strayed>>

(* Seeded fault: searchTypeValue is written once. *)
AssignedOnce(r) ==
  /\ at[r] = "assign" /\ Go(r, "type")
  /\ searchTypeValue' = IF searchTypeValue = "" THEN req[r].searchType ELSE searchTypeValue
  /\ UNCHANGED <<req, calls, outcome, status, done, strayed, met>>

(* The characters are copied one after the other: until the end of the assignment another
   thread can read the old value, the new one, or some of each. *)
Assigned(r) ==
  /\ at[r] = "assign" /\ Go(r, "type")
  /\ searchTypeValue' = req[r].searchType
  /\ UNCHANGED <<req, calls, outcome, status, done, strayed, met>>

Readable ==
  LET written == {req[q].searchType : q \in {w \in Requests : at[w] = "assign"}} \cup {searchTypeValue}
  IN  IF Cardinality(written) = 1 THEN written ELSE written \cup {Torn}

Read(r, from, to) ==
  /\ at[r] = from /\ Go(r, to)
  /\ \E v \in Readable : strayed' = [strayed EXCEPT ![r] = @ \/ v # req[r].searchType]
  /\ UNCHANGED <<req, calls, searchTypeValue, outcome, status, done, met>>

(* For the filter on SEARCH_TYPE, and for the units of price_min and price_max. *)
ReadType(r) == Read(r, "type", "min")
ReadMin(r)  == Read(r, "min",  "max")
ReadMax(r)  == Read(r, "max",  "scan")

(* The answer says that the scan goes on, or that it ends: scan says so of a failure too. *)
Page(r) ==
  /\ at[r] = "scan" /\ calls' = [calls EXCEPT ![r] = @ + 1]
  /\ \/ calls[r] + 1 < MaxPages /\ Go(r, "assign") /\ UNCHANGED status
     \/ Go(r, "end") /\ Reply(r, 200)
     \/ Go(r, "raised") /\ UNCHANGED status
  /\ UNCHANGED <<req, searchTypeValue, outcome, done, strayed, met>>

-----------------------------------------------------------------------------
Handle(r) ==
  \/ Start(r) \/ Unknown(r) \/ Open(r) \/ fetchHousePrice(r) \/ Incomplete(r) \/ Call(r)
  \/ Return(r) \/ Again(r) \/ Answer(r) \/ Raised(r)
  \/ handle_announce_deposit(r) \/ Continuation(r) \/ Deposited(r) \/ Woken(r)
  \/ fetchSummary(r) \/ Assigned(r) \/ ReadType(r) \/ ReadMin(r) \/ ReadMax(r) \/ Page(r)

Next == \E r \in Requests : Handle(r)

Spec == Init /\ [][Next]_vars

(* The pool serves its tasks, and the services answer: no handler gives up a call. *)
Fairness == \A r \in Requests : WF_vars(Handle(r))

FairSpec == Spec /\ Fairness

-----------------------------------------------------------------------------
Statuses == {0, 200, 400, 404, 500, 503}

TypeOK ==
  /\ req \in [Requests -> Content]
  /\ at \in [Requests -> Points]
  /\ calls \in [Requests -> Nat]
  /\ searchTypeValue \in Types \cup {""}
  /\ outcome \in [Requests -> {"none", "success", "refused", "raised", "unread"}]
  /\ status \in [Requests -> Statuses]
  /\ done \in [Requests -> BOOLEAN]
  /\ strayed \in [Requests -> BOOLEAN]
  /\ met \in [Requests -> BOOLEAN]

(* fetchSummary: every page of a search is filtered by the SEARCH_TYPE of its own query, and
   its prices are in the unit of that type, unless a search of the other type has run at the
   same time: what earlier searches left in searchTypeValue, and searches of the same type,
   do no harm. *)
SearchesOwnType == \A r \in Requests : strayed[r] => met[r]

(* Of the two replies of a deposit, and with exceptions at any point, the one sent is true:
   who is answered 200 to an order has had it done by the service, but for a deposit whose
   body could not be read. *)
AcceptedIsDone ==
  \A r \in Requests :
    Service(r) \in Posters /\ status[r] = 200 /\ outcome[r] # "unread" => done[r]

(* Every thread of the pool waits for the continuation of a deposit: none is left to run one. *)
Exhausted == ~ThreadFree /\ \A r \in Requests : at[r] \in Handling => at[r] = "posted"

(* Every request is answered, whatever raises, unless the deposits exhaust the pool. *)
Answered == \A r \in Requests : <>(status[r] # 0 \/ Exhausted)

=============================================================================
