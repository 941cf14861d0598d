------------------------ MODULE DepositService_proofs ------------------------
(* What the owners of deposited ads can rely on, for any threads, ads and number of deletions,
   though the threads of the service take one another's replies. *)
EXTENDS DepositService, SequenceTheorems, FiniteSetTheorems, TLAPS

Call(fun, tablename) == [fun |-> fun, tablename |-> tablename]
RemoteCalls == {Call("put", "summary"), Call("put", "deposits"), Call("get", "deposits"),
                Call("remove", "summary"), Call("update", "deposits")}
Request == [call : RemoteCalls, id : IDs, thread : Threads]
Reply   == [fun : {"put", "get", "remove", "update"}, success : BOOLEAN, thread : Threads,
            values : IDs \cup {0}]

(* TypeOK, by what changes together; a thread is within the steps of its handler. *)
TablesOK ==
  /\ DOMAIN summary \subseteq IDs /\ DOMAIN deposits \subseteq IDs
  /\ \A id \in DOMAIN summary : summary[id] = Status("ON")
  /\ \A id \in DOMAIN deposits : deposits[id] \in {Status("ON"), Status("OFF")}

ConnectionOK == requests \in Seq(Request) /\ replies \in Seq(Reply)

ThreadsOK ==
  /\ op \in [Threads -> Handlers \cup {"none"}] /\ adId \in [Threads -> IDs \cup {0}]
  /\ step \in [Threads -> 0..3] /\ waiting \in [Threads -> BOOLEAN]
  /\ results \in [Threads -> Seq(BOOLEAN)]
  /\ announce \in [Threads -> IDs \cup {0}] /\ own \in [Threads -> BOOLEAN]
  /\ \A t \in Threads :
       /\ Len(results[t]) = step[t]
       /\ step[t] <= Len(Steps(op[t]))
       /\ waiting[t] => step[t] < Len(Steps(op[t]))
       /\ IF op[t] = "none" THEN announce[t] = 0 ELSE adId[t] \in IDs

ToldOK ==
  /\ used \subseteq IDs /\ bucket \subseteq IDs /\ deletes \in 0..MaxDeletes
  /\ toldOnline \subseteq Ads /\ toldDeleted \subseteq Ads /\ deletion \subseteq IDs

TypeInv == TablesOK /\ ConnectionOK /\ ThreadsOK /\ ToldOK

-----------------------------------------------------------------------------
(* The ads to delete are in the table of deposits; the deposits alone are OFF after that. *)
DeletionInv ==
  /\ \A t \in Threads : op[t] = "delete_announce" => adId[t] \in deletion
  /\ \A i \in 1..Len(requests) :
       requests[i].call.fun \in {"remove", "update"} => requests[i].id \in deletion
  /\ \A id \in DOMAIN deposits : deposits[id] = Status("OFF") => id \in deletion

(* Once an ad is in the table of deposits no put of it is to come: a thread sends both puts in
   their order, and no two deposit the same ad. *)
Announcing(t, id) == op[t] = "announce_deposit" /\ adId[t] = id
Sent(t) == IF waiting[t] THEN step[t] + 1 ELSE step[t]
PutsSent(id) == id \in used /\ \A t \in Threads : Announcing(t, id) => Sent(t) = 2
PutAt(i, id) == requests[i].call.fun = "put" /\ requests[i].id = id
LastPut(i, id) == PutsSent(id) /\ \A j \in (i + 1)..Len(requests) : ~PutAt(j, id)
PutInv ==
  /\ \A t \in Threads : op[t] = "announce_deposit" => adId[t] \in used
  /\ \A t, u \in Threads :
       op[t] = "announce_deposit" /\ op[u] = "announce_deposit" /\ adId[t] = adId[u] => t = u
  /\ \A i \in 1..Len(requests) :
       requests[i].call = Call("put", "deposits") => LastPut(i, requests[i].id)
  /\ \A id \in DOMAIN deposits :
       PutsSent(id) /\ \A i \in 1..Len(requests) : ~PutAt(i, id)
  /\ deletion \subseteq DOMAIN deposits

(* What the success of the kth call of a handler says of its ad. *)
DepositedBy(k, id) ==
  id \notin deletion =>
    IF k = 1 THEN id \in DOMAIN summary ELSE id \in DOMAIN deposits /\ deposits[id] = Status("ON")
DeletedBy(k, id) ==
  /\ k = 2 => id \notin DOMAIN summary
  /\ k = 3 => deposits[id] = Status("OFF")
Effect(handler, k, id) ==
  /\ handler = "announce_deposit" => DepositedBy(k, id)
  /\ handler = "delete_announce" => DeletedBy(k, id)

(* The last message of a thread that waits is the request it waits for, or the reply to it. *)
LastRequest(t, i) ==
  requests[i].thread = t /\ \A j \in (i + 1)..Len(requests) : requests[j].thread # t
LastReply(t, i) ==
  /\ replies[i].thread = t
  /\ \A j \in (i + 1)..Len(replies) : replies[j].thread # t
  /\ \A j \in 1..Len(requests) : requests[j].thread # t
RequestOf(t, i) == requests[i].call = Steps(op[t])[step[t] + 1] /\ requests[i].id = adId[t]
ReplyTo(t, i) ==
  /\ \A k \in 1..3 : k = step[t] + 1 /\ replies[i].success => Effect(op[t], k, adId[t])
  /\ replies[i].values \in {0, adId[t]}
MessageInv ==
  \A t \in Threads : waiting[t] =>
    /\ \A i \in 1..Len(requests) : LastRequest(t, i) => RequestOf(t, i)
    /\ \A i \in 1..Len(replies) : LastReply(t, i) => ReplyTo(t, i)

(* A thread that has had its own replies knows the tables. *)
Knows(t) ==
  /\ \A k \in 1..step[t] : results[t][k] => Effect(op[t], k, adId[t])
  /\ announce[t] \in {0, adId[t]}
KnowsInv == \A t \in Threads : own[t] => Knows(t)

Promised ==
  /\ OwnDepositOnline
  /\ \A a \in toldDeleted : a.id \in deletion
  /\ OwnDeletionDone

DepositInv == TypeInv /\ DeletionInv /\ PutInv /\ MessageInv /\ KnowsInv /\ Promised

-----------------------------------------------------------------------------
(* The remote calls of each handler. *)
LEMMA StepsOf ==
  /\ Len(Steps("none")) = 0
  /\ Len(Steps("announce_deposit")) = 2
  /\ Steps("announce_deposit")[1] = Call("put", "summary")
  /\ Steps("announce_deposit")[2] = Call("put", "deposits")
  /\ Len(Steps("delete_announce")) = 3
  /\ Steps("delete_announce")[1] = Call("get", "deposits")
  /\ Steps("delete_announce")[2] = Call("remove", "summary")
  /\ Steps("delete_announce")[3] = Call("update", "deposits")
<1>1. /\ Len(Steps("announce_deposit")) = 2
      /\ Steps("announce_deposit")[1] = Call("put", "summary")
      /\ Steps("announce_deposit")[2] = Call("put", "deposits")
  BY DEF Steps, Call
<1>2. /\ Len(Steps("delete_announce")) = 3
      /\ Steps("delete_announce")[1] = Call("get", "deposits")
      /\ Steps("delete_announce")[2] = Call("remove", "summary")
      /\ Steps("delete_announce")[3] = Call("update", "deposits")
  BY DEF Steps, Call
<1>3. Steps("none") = <<>>
  BY DEF Steps
<1>4. QED BY <1>1, <1>2, <1>3

(* A thread that can send has a request to send. *)
LEMMA NextCall ==
  ASSUME TypeInv, NEW t \in Threads, step[t] < Len(Steps(op[t]))
  PROVE  /\ op[t] \in Handlers
         /\ step[t] + 1 \in 1..Len(Steps(op[t]))
         /\ Steps(op[t])[step[t] + 1] \in RemoteCalls
         /\ adId[t] \in IDs
<1>1. op[t] \in Handlers \cup {"none"} /\ step[t] \in 0..3
  BY DEF TypeInv, ThreadsOK
<1>2. op[t] \in Handlers
  BY <1>1, StepsOf DEF Handlers
<1>3. adId[t] \in IDs
  BY <1>2 DEF TypeInv, ThreadsOK, Handlers
<1>4. step[t] + 1 \in 1..Len(Steps(op[t])) /\ Len(Steps(op[t])) \in {2, 3}
  BY <1>1, <1>2, StepsOf DEF Handlers
<1>5. Steps(op[t])[step[t] + 1] \in RemoteCalls
  <2>1. CASE op[t] = "announce_deposit"
    <3>1. step[t] < 2
      BY <2>1, StepsOf
    <3>2. step[t] = 0 \/ step[t] = 1
      BY <1>1, <3>1
    <3>3. step[t] + 1 = 1 \/ step[t] + 1 = 2
      BY <3>2
    <3>4. QED BY <2>1, <3>3, StepsOf DEF RemoteCalls
  <2>2. CASE op[t] = "delete_announce"
    <3>1. step[t] < 3
      BY <2>2, StepsOf
    <3>2. step[t] = 0 \/ step[t] = 1 \/ step[t] = 2
      BY <1>1, <3>1
    <3>3. step[t] + 1 = 1 \/ step[t] + 1 = 2 \/ step[t] + 1 = 3
      BY <3>2
    <3>4. QED BY <2>2, <3>3, StepsOf DEF RemoteCalls
  <2>3. QED BY <1>2, <2>1, <2>2 DEF Handlers
<1>6. QED BY <1>2, <1>3, <1>4, <1>5

(* The first message of a connection that has one. *)
LEMMA FirstRequest ==
  ASSUME TypeInv, requests # <<>>
  PROVE  /\ Head(requests) \in Request /\ Head(requests) = requests[1] /\ 1 \in 1..Len(requests)
         /\ Tail(requests) \in Seq(Request)
         /\ Len(Tail(requests)) = Len(requests) - 1
         /\ \A i \in 1..Len(Tail(requests)) : Tail(requests)[i] = requests[i + 1]
<1>1. requests \in Seq(Request)
  BY DEF TypeInv, ConnectionOK
<1>2. QED BY <1>1, HeadTailProperties, EmptySeq

LEMMA FirstReply ==
  ASSUME TypeInv, replies # <<>>
  PROVE  /\ Head(replies) \in Reply /\ Head(replies) = replies[1] /\ 1 \in 1..Len(replies)
         /\ Tail(replies) \in Seq(Reply)
         /\ Len(Tail(replies)) = Len(replies) - 1
         /\ \A i \in 1..Len(Tail(replies)) : Tail(replies)[i] = replies[i + 1]
<1>1. replies \in Seq(Reply)
  BY DEF TypeInv, ConnectionOK
<1>2. QED BY <1>1, HeadTailProperties, EmptySeq

(* Send appends one request, and Serve one reply. *)
LEMMA Sending ==
  ASSUME TypeInv, NEW t \in Threads, Send(t)
  PROVE  /\ requests' \in Seq(Request) /\ Len(requests') = Len(requests) + 1
         /\ Len(requests) \in Nat
         /\ \A i \in 1..Len(requests') : i \in 1..Len(requests) \/ i = Len(requests) + 1
         /\ \A i \in 1..Len(requests) : requests'[i] = requests[i]
         /\ requests'[Len(requests) + 1].call = Steps(op[t])[step[t] + 1]
         /\ requests'[Len(requests) + 1].id = adId[t]
         /\ requests'[Len(requests) + 1].thread = t
<1> DEFINE r == [call |-> Steps(op[t])[step[t] + 1], id |-> adId[t], thread |-> t]
<1>1. r \in Request
  BY NextCall DEF Send, Request
<1>2. requests' = Append(requests, r) /\ requests \in Seq(Request)
  BY DEF Send, TypeInv, ConnectionOK
<1>3. r.call = Steps(op[t])[step[t] + 1] /\ r.id = adId[t] /\ r.thread = t
  OBVIOUS
<1> HIDE DEF r
<1>4. /\ requests' \in Seq(Request) /\ Len(requests') = Len(requests) + 1
      /\ \A i \in 1..Len(requests) : requests'[i] = requests[i]
      /\ requests'[Len(requests) + 1] = r
  BY <1>1, <1>2, AppendProperties
<1>5. Len(requests) \in Nat
  BY <1>2, LenProperties
<1>6. \A i \in 1..Len(requests') : i \in 1..Len(requests) \/ i = Len(requests) + 1
  BY <1>4, <1>5
<1>7. QED BY <1>3, <1>4, <1>5, <1>6

LEMMA Serving ==
  ASSUME TypeInv, Serve
  PROVE  \E r \in Reply :
           /\ replies' = Append(replies, r)
           /\ r.thread = Head(requests).thread
           /\ \/ Execute(Head(requests).call, Head(requests).id)
              \/ UNCHANGED <<summary, deposits>> /\ ~r.success
           /\ r.values \in {0, Head(requests).id}
           /\ r.fun = Head(requests).call.fun
<1> DEFINE q == Head(requests)
           ReplyOf(success) ==
             [fun |-> q.call.fun, success |-> success, thread |-> q.thread,
              values |-> IF success /\ q.call.fun = "get" /\ q.id \in DOMAIN deposits THEN q.id ELSE 0]
<1>1. q \in Request
  BY FirstRequest DEF Serve
<1>2. \A success \in BOOLEAN : ReplyOf(success) \in Reply
  BY <1>1 DEF Request, Reply, RemoteCalls, Call
<1>3. \E success \in BOOLEAN :
        /\ replies' = Append(replies, ReplyOf(success))
        /\ Execute(q.call, q.id) \/ (UNCHANGED <<summary, deposits>> /\ ~success)
  BY Zenon DEF Serve
<1>4. PICK success \in BOOLEAN :
        /\ replies' = Append(replies, ReplyOf(success))
        /\ Execute(q.call, q.id) \/ (UNCHANGED <<summary, deposits>> /\ ~success)
  BY <1>3
<1>5. /\ ReplyOf(success).thread = q.thread /\ ReplyOf(success).success = success
      /\ ReplyOf(success).values \in {0, q.id} /\ ReplyOf(success).fun = q.call.fun
  OBVIOUS
<1>6. ReplyOf(success) \in Reply
  BY <1>2
<1> HIDE DEF ReplyOf, q
<1>7. QED BY <1>4, <1>5, <1>6 DEF q

-----------------------------------------------------------------------------
(* UpdateItem leaves an item that has nothing but its status. *)
LEMMA MergeStatus == \A x : Merge(Status(x), Status("OFF")) = Status("OFF")
  BY DEF Merge, Status

(* Execute leaves items of the two tables. *)
LEMMA ExecuteTables ==
  ASSUME TablesOK, NEW q \in Request, Execute(q.call, q.id)
  PROVE  TablesOK'
<1>1. q.id \in IDs /\ q.call \in RemoteCalls
  BY DEF Request
<1>2. CASE q.call = Call("put", "summary")
  <2>1. summary' = PutItem(summary, q.id, Status("ON")) /\ UNCHANGED deposits
    BY <1>2 DEF Execute, Call
  <2>2. QED BY <1>1, <2>1 DEF TablesOK, PutItem, Store
<1>3. CASE q.call = Call("put", "deposits")
  <2>1. deposits' = PutItem(deposits, q.id, Status("ON")) /\ UNCHANGED summary
    BY <1>3 DEF Execute, Call
  <2>2. QED BY <1>1, <2>1 DEF TablesOK, PutItem, Store
<1>4. CASE q.call = Call("get", "deposits")
  <2>1. UNCHANGED <<summary, deposits>>
    BY <1>4 DEF Execute, Call
  <2>2. QED BY <2>1 DEF TablesOK
<1>5. CASE q.call = Call("remove", "summary")
  <2>1. summary' = DeleteItem(summary, q.id) /\ UNCHANGED deposits
    BY <1>5 DEF Execute, Call
  <2>2. QED BY <2>1 DEF TablesOK, DeleteItem
<1>6. CASE q.call = Call("update", "deposits")
  <2>1. deposits' = UpdateItem(deposits, q.id, Status("OFF")) /\ UNCHANGED summary
    BY <1>6 DEF Execute, Call
  <2>2. /\ DOMAIN deposits' = DOMAIN deposits \cup {q.id}
        /\ \A id \in DOMAIN deposits' :
             deposits'[id] = IF id = q.id
                             THEN IF id \in DOMAIN deposits THEN Merge(deposits[id], Status("OFF"))
                                  ELSE Status("OFF")
                             ELSE deposits[id]
    BY <2>1 DEF UpdateItem, Store
  <2>3. \A id \in DOMAIN deposits : Merge(deposits[id], Status("OFF")) = Status("OFF")
    BY MergeStatus DEF TablesOK
  <2>4. QED BY <1>1, <2>1, <2>2, <2>3 DEF TablesOK
<1>7. QED BY <1>1, <1>2, <1>3, <1>4, <1>5, <1>6 DEF RemoteCalls


LEMMA TypeInvTypeOK == TypeInv => TypeOK
  BY DEF TypeInv, TablesOK, ThreadsOK, ToldOK, TypeOK

LEMMA InitType == ASSUME DepositAssumption, Init PROVE TypeInv
<1>1. TablesOK /\ ToldOK
  BY DEF Init, TablesOK, ToldOK, EmptyTable, DepositAssumption
<1>2. ConnectionOK
  BY EmptySeq DEF Init, ConnectionOK
<1>3. ThreadsOK
  BY StepsOf, EmptySeq DEF Init, ThreadsOK, Handlers
<1>4. QED BY <1>1, <1>2, <1>3 DEF TypeInv

(* The thread that ends its call is as it was before. *)
LEMMA EndThreads ==
  ASSUME TypeInv, NEW t \in Threads, End(t),
         waiting' \in [Threads -> BOOLEAN], ~waiting'[t],
         \A u \in Threads : u # t => waiting'[u] = waiting[u],
         own' \in [Threads -> BOOLEAN]
  PROVE  ThreadsOK'
<1>1. /\ op' \in [Threads -> Handlers \cup {"none"}] /\ adId' \in [Threads -> IDs \cup {0}]
      /\ step' \in [Threads -> 0..3]
      /\ results' \in [Threads -> Seq(BOOLEAN)]
      /\ announce' \in [Threads -> IDs \cup {0}]
  BY EmptySeq DEF TypeInv, ThreadsOK, End
<1>2. ASSUME NEW u \in Threads
      PROVE  /\ Len(results'[u]) = step'[u]
             /\ step'[u] <= Len(Steps(op'[u]))
             /\ waiting'[u] => step'[u] < Len(Steps(op'[u]))
             /\ IF op'[u] = "none" THEN announce'[u] = 0 ELSE adId'[u] \in IDs
  <2>1. CASE u = t
    <3>1. op'[u] = "none" /\ step'[u] = 0 /\ results'[u] = <<>> /\ announce'[u] = 0
      BY <2>1 DEF TypeInv, ThreadsOK, End
    <3>2. QED BY <2>1, <3>1, StepsOf, EmptySeq
  <2>2. CASE u # t
    <3>1. /\ op'[u] = op[u] /\ step'[u] = step[u] /\ results'[u] = results[u]
          /\ announce'[u] = announce[u] /\ adId'[u] = adId[u] /\ waiting'[u] = waiting[u]
      BY <2>2 DEF TypeInv, ThreadsOK, End
    <3>2. QED BY <3>1 DEF TypeInv, ThreadsOK
  <2>3. QED BY <2>1, <2>2
<1>3. QED BY <1>1, <1>2 DEF ThreadsOK

LEMMA BeginThreads ==
  ASSUME TypeInv, NEW t \in Threads, NEW handler \in Handlers, NEW id \in IDs, Begin(t, handler, id)
  PROVE  ThreadsOK'
<1>1. /\ op' \in [Threads -> Handlers \cup {"none"}] /\ adId' \in [Threads -> IDs \cup {0}]
      /\ own' \in [Threads -> BOOLEAN]
  BY DEF TypeInv, ThreadsOK, Begin
<1>2. ASSUME NEW u \in Threads
      PROVE  /\ Len(results[u]) = step[u]
             /\ step[u] <= Len(Steps(op'[u]))
             /\ waiting[u] => step[u] < Len(Steps(op'[u]))
             /\ IF op'[u] = "none" THEN announce[u] = 0 ELSE adId'[u] \in IDs
  <2>1. CASE u = t
    <3>1. op'[u] = handler /\ adId'[u] = id /\ op[u] = "none" /\ handler # "none"
      BY <2>1 DEF TypeInv, ThreadsOK, Begin, Handlers
    <3>2. step[u] = 0 /\ ~waiting[u]
      <4>1. step[u] \in 0..3 /\ step[u] <= 0 /\ (waiting[u] => step[u] < 0)
        BY <3>1, StepsOf DEF TypeInv, ThreadsOK
      <4>2. QED BY <4>1
    <3>3. Len(Steps(handler)) \in {2, 3}
      BY StepsOf DEF Handlers
    <3>4. Len(results[u]) = step[u]
      BY DEF TypeInv, ThreadsOK
    <3>5. QED BY <3>1, <3>2, <3>3, <3>4
  <2>2. CASE u # t
    <3>1. op'[u] = op[u] /\ adId'[u] = adId[u]
      BY <2>2 DEF TypeInv, ThreadsOK, Begin
    <3>2. QED BY <3>1 DEF TypeInv, ThreadsOK
  <2>3. QED BY <2>1, <2>2
<1>3. UNCHANGED <<step, waiting, results, announce>>
  BY DEF Begin
<1>4. QED BY <1>1, <1>2, <1>3 DEF TypeInv, ThreadsOK

LEMMA SendThreads ==
  ASSUME TypeInv, NEW t \in Threads, Send(t)
  PROVE  ThreadsOK'
<1>1. waiting' \in [Threads -> BOOLEAN] /\ step[t] < Len(Steps(op[t]))
      /\ \A u \in Threads : u # t => waiting'[u] = waiting[u]
  BY DEF TypeInv, ThreadsOK, Send
<1>2. UNCHANGED <<op, adId, step, results, announce, own>>
  BY DEF Send
<1>3. QED BY <1>1, <1>2 DEF TypeInv, ThreadsOK

(* A reply is taken, and the call goes on. *)
Goes(t) ==
  /\ step' = [step EXCEPT ![t] = @ + 1]
  /\ \E success \in BOOLEAN :
       /\ results' = [results EXCEPT ![t] = Append(@, success)]
       /\ success => Head(replies).success
  /\ \E ad \in IDs \cup {0} :
       /\ announce' = [announce EXCEPT ![t] = ad]
       /\ ad \in {announce[t], Head(replies).values}
  /\ UNCHANGED <<op, adId>>

LEMMA Receiving ==
  ASSUME TypeInv, NEW t \in Threads, Receive(t)
  PROVE  /\ End(t) \/ Goes(t)
         /\ own' \in [Threads -> BOOLEAN] /\ \A u \in Threads : u # t => own'[u] = own[u]
         /\ own'[t] => own[t] /\ Head(replies).thread = t /\ t \notin Askers(Tail(replies) \o requests)
         /\ waiting' \in [Threads -> BOOLEAN] /\ ~waiting'[t]
         /\ \A u \in Threads : u # t => waiting'[u] = waiting[u]
<1> DEFINE r   == Head(replies)
           fun == Steps(op[t])[step[t] + 1].fun
           whose == r.thread = t /\ t \notin Askers(Tail(replies) \o requests)
<1>1. r \in Reply
  BY FirstReply DEF Receive
<1>2. own' = [own EXCEPT ![t] = @ /\ whose]
  BY Zenon DEF Receive
<1>3. /\ own' \in [Threads -> BOOLEAN] /\ \A u \in Threads : u # t => own'[u] = own[u]
      /\ own'[t] => own[t] /\ whose
  <2> HIDE DEF whose
  <2>1. own \in [Threads -> BOOLEAN] /\ whose \in BOOLEAN
    BY DEF TypeInv, ThreadsOK, whose
  <2>2. QED BY <1>2, <2>1
<1>4. waiting' = [waiting EXCEPT ![t] = FALSE]
  BY Zenon DEF Receive
<1>5. waiting' \in [Threads -> BOOLEAN] /\ ~waiting'[t]
      /\ \A u \in Threads : u # t => waiting'[u] = waiting[u]
  BY <1>4 DEF TypeInv, ThreadsOK
<1>6. End(t) \/ Goes(t)
  <2>1. CASE fun = "get" /\ r.fun # "get"
    BY <2>1, Zenon DEF Receive
  <2>2. CASE ~(fun = "get" /\ r.fun # "get")
    <3>1. /\ step' = [step EXCEPT ![t] = @ + 1]
          /\ results' = [results EXCEPT ![t] = Append(@, r.success /\ (r.fun = "get" <=> fun = "get"))]
          /\ announce' = [announce EXCEPT ![t] = IF fun = "get" THEN r.values ELSE @]
          /\ UNCHANGED <<op, adId>>
      BY <2>2, Zenon DEF Receive
    <3>2. \E ad \in IDs \cup {0} :
            announce' = [announce EXCEPT ![t] = ad] /\ ad \in {announce[t], r.values}
      <4>1. r.values \in IDs \cup {0} /\ announce[t] \in IDs \cup {0}
        BY <1>1 DEF Reply, TypeInv, ThreadsOK
      <4>2. (IF fun = "get" THEN r.values ELSE announce[t]) \in (IDs \cup {0}) \cap {announce[t], r.values}
        BY <4>1
      <4>3. QED BY <3>1, <4>2
    <3>3. /\ (r.success /\ (r.fun = "get" <=> fun = "get")) \in BOOLEAN
          /\ (r.success /\ (r.fun = "get" <=> fun = "get")) => r.success
      OBVIOUS
    <3>4. \E success \in BOOLEAN :
            results' = [results EXCEPT ![t] = Append(@, success)] /\ (success => r.success)
      BY <3>1, <3>3, Zenon
    <3>5. QED BY <3>1, <3>2, <3>4 DEF Goes
  <2>3. QED BY <2>1, <2>2
<1>7. QED BY <1>3, <1>5, <1>6

LEMMA ReceiveThreads ==
  ASSUME TypeInv, NEW t \in Threads, Receive(t)
  PROVE  ThreadsOK'
<1>1. CASE End(t)
  BY <1>1, Receiving, EndThreads
<1>2. CASE Goes(t)
  <2>0. UNCHANGED <<op, adId>> /\ step' = [step EXCEPT ![t] = @ + 1]
    BY <1>2, Zenon DEF Goes
  <2>1. PICK success \in BOOLEAN : results' = [results EXCEPT ![t] = Append(@, success)]
    BY <1>2 DEF Goes
  <2>2. PICK ad \in IDs \cup {0} : announce' = [announce EXCEPT ![t] = ad]
    BY <1>2 DEF Goes
  <2>3. waiting[t] /\ step[t] \in 0..3 /\ step[t] < Len(Steps(op[t])) /\ op[t] \in Handlers
    BY NextCall DEF Receive, TypeInv, ThreadsOK
  <2>4. step[t] + 1 \in 0..3 /\ step[t] + 1 <= Len(Steps(op[t]))
    <3>1. PICK n \in {2, 3} : Len(Steps(op[t])) = n
      BY <2>3, StepsOf DEF Handlers
    <3>2. step[t] \in 0..3 /\ step[t] < n
      BY <2>3, <3>1
    <3>3. step[t] + 1 \in 0..3 /\ step[t] + 1 <= n
      BY <3>2
    <3>4. QED BY <3>1, <3>3
  <2>5. /\ Append(results[t], success) \in Seq(BOOLEAN)
        /\ Len(Append(results[t], success)) = step[t] + 1
    BY <2>1, AppendProperties DEF TypeInv, ThreadsOK
  <2>6. /\ step' \in [Threads -> 0..3] /\ results' \in [Threads -> Seq(BOOLEAN)]
        /\ announce' \in [Threads -> IDs \cup {0}]
    BY <2>0, <2>1, <2>2, <2>4, <2>5 DEF TypeInv, ThreadsOK
  <2>7. ASSUME NEW u \in Threads
        PROVE  /\ Len(results'[u]) = step'[u]
               /\ step'[u] <= Len(Steps(op[u]))
               /\ waiting'[u] => step'[u] < Len(Steps(op[u]))
               /\ IF op[u] = "none" THEN announce'[u] = 0 ELSE adId[u] \in IDs
    <3>1. CASE u = t
      <4>1. Len(results'[u]) = step'[u] /\ step'[u] = step[u] + 1
        BY <2>0, <2>1, <2>5, <3>1 DEF TypeInv, ThreadsOK
      <4>2. op[u] # "none" /\ adId[u] \in IDs /\ ~waiting'[u]
        BY <2>3, <3>1, NextCall, Receiving DEF Handlers
      <4>3. QED BY <2>4, <3>1, <4>1, <4>2
    <3>2. CASE u # t
      <4>1. /\ step'[u] = step[u] /\ results'[u] = results[u] /\ announce'[u] = announce[u]
        BY <2>0, <2>1, <2>2, <3>2 DEF TypeInv, ThreadsOK
      <4>2. waiting'[u] = waiting[u]
        BY <3>2, Receiving
      <4>3. QED BY <4>1, <4>2 DEF TypeInv, ThreadsOK
    <3>3. QED BY <3>1, <3>2
  <2>8. UNCHANGED <<op, adId>> /\ own' \in [Threads -> BOOLEAN] /\ waiting' \in [Threads -> BOOLEAN]
    BY <2>0, Receiving
  <2>9. QED BY <2>6, <2>7, <2>8 DEF TypeInv, ThreadsOK
<1>3. QED BY <1>1, <1>2, Receiving

LEMMA NextType == ASSUME DepositAssumption, TypeInv, [Next]_vars PROVE TypeInv'
<1> USE DEF tables, channel, threads, told
<1>1. CASE UNCHANGED vars
  BY <1>1 DEF vars, TypeInv, TablesOK, ConnectionOK, ThreadsOK, ToldOK
<1>2. ASSUME NEW t \in Threads, NEW id \in IDs, announce_deposit(t, id)
      PROVE  TypeInv'
  <2>1. ThreadsOK'
    BY <1>2, BeginThreads DEF announce_deposit, Handlers
  <2>2. TablesOK' /\ ConnectionOK' /\ ToldOK'
    BY <1>2 DEF announce_deposit, Begin, TypeInv, TablesOK, ConnectionOK, ToldOK
  <2>3. QED BY <2>1, <2>2 DEF TypeInv
<1>3. ASSUME NEW t \in Threads, NEW id \in IDs, delete_announce(t, id)
      PROVE  TypeInv'
  <2>1. ThreadsOK'
    BY <1>3, BeginThreads DEF delete_announce, Handlers
  <2>2. deletes' \in 0..MaxDeletes
    BY <1>3 DEF delete_announce, TypeInv, ToldOK, DepositAssumption
  <2>3. TablesOK' /\ ConnectionOK' /\ ToldOK'
    BY <1>3, <2>2 DEF delete_announce, Begin, TypeInv, TablesOK, ConnectionOK, ToldOK
  <2>4. QED BY <2>1, <2>3 DEF TypeInv
<1>4. CASE Serve
  <2>1. TablesOK'
    BY <1>4, Serving, FirstRequest, ExecuteTables DEF Serve, TypeInv, TablesOK
  <2>2. ConnectionOK'
    <3>1. PICK r \in Reply : replies' = Append(replies, r)
      BY <1>4, Serving
    <3>2. replies' \in Seq(Reply)
      BY <3>1, AppendProperties DEF TypeInv, ConnectionOK
    <3>3. requests' \in Seq(Request)
      BY <1>4, FirstRequest DEF Serve
    <3>4. QED BY <3>2, <3>3 DEF ConnectionOK
  <2>3. UNCHANGED <<bucket, threads, deletes, told>>
    BY <1>4 DEF Serve
  <2>4. ThreadsOK' /\ ToldOK'
    BY <2>3 DEF TypeInv, ThreadsOK, ToldOK
  <2>5. QED BY <2>1, <2>2, <2>4 DEF TypeInv
<1>5. ASSUME NEW t \in Threads, Send(t)
      PROVE  TypeInv'
  <2>1. UNCHANGED <<tables, replies, deletes, told>>
    BY <1>5 DEF Send
  <2>2. TablesOK' /\ ConnectionOK' /\ ToldOK'
    BY <1>5, <2>1, Sending DEF TypeInv, TablesOK, ConnectionOK, ToldOK
  <2>3. QED BY <1>5, <2>2, SendThreads DEF TypeInv
<1>6. ASSUME NEW t \in Threads, Receive(t)
      PROVE  TypeInv'
  <2>1. UNCHANGED <<tables, requests, deletes, told>> /\ replies' \in Seq(Reply)
    BY <1>6, FirstReply DEF Receive
  <2>2. TablesOK' /\ ConnectionOK' /\ ToldOK'
    BY <2>1 DEF TypeInv, TablesOK, ConnectionOK, ToldOK
  <2>3. QED BY <1>6, <2>2, ReceiveThreads DEF TypeInv
<1>7. ASSUME NEW t \in Threads, AnswerDeposit(t)
      PROVE  TypeInv'
  <2>1. /\ ~waiting[t] /\ op[t] = "announce_deposit" /\ End(t)
        /\ UNCHANGED <<tables, channel, waiting, own, deletes, used, toldDeleted, deletion>>
    BY <1>7 DEF AnswerDeposit, Served
  <2>2. ThreadsOK'
    BY <2>1, EndThreads DEF TypeInv, ThreadsOK
  <2>3. adId[t] \in IDs /\ own[t] \in BOOLEAN
    BY <2>1 DEF TypeInv, ThreadsOK
  <2>4. toldOnline' \subseteq Ads
    BY <1>7, <2>3 DEF AnswerDeposit, TypeInv, ToldOK, Ads
  <2>5. TablesOK' /\ ConnectionOK' /\ ToldOK'
    BY <2>1, <2>4 DEF TypeInv, TablesOK, ConnectionOK, ToldOK
  <2>6. QED BY <2>2, <2>5 DEF TypeInv
<1>8. ASSUME NEW t \in Threads, AnswerDelete(t)
      PROVE  TypeInv'
  <2>1. /\ ~waiting[t] /\ op[t] = "delete_announce" /\ End(t)
        /\ UNCHANGED <<summary, deposits, channel, waiting, own, deletes, used, toldOnline, deletion>>
    BY <1>8 DEF AnswerDelete, Served
  <2>2. ThreadsOK'
    BY <2>1, EndThreads DEF TypeInv, ThreadsOK
  <2>3. adId[t] \in IDs /\ own[t] \in BOOLEAN
    BY <2>1 DEF TypeInv, ThreadsOK
  <2>4. toldDeleted' \subseteq Ads /\ bucket' \subseteq IDs
    <3>1. /\ UNCHANGED toldDeleted \/ toldDeleted' = toldDeleted \cup {[id |-> adId[t], own |-> own[t]]}
          /\ UNCHANGED bucket \/ bucket' = bucket \ {announce[t]}
      BY <1>8, Zenon DEF AnswerDelete
    <3>2. [id |-> adId[t], own |-> own[t]] \in Ads
      BY <2>3 DEF Ads
    <3>3. toldDeleted \subseteq Ads /\ bucket \subseteq IDs
      BY DEF TypeInv, ToldOK
    <3>4. QED BY <3>1, <3>2, <3>3
  <2>5. TablesOK' /\ ConnectionOK' /\ ToldOK'
    BY <2>1, <2>4 DEF TypeInv, TablesOK, ConnectionOK, ToldOK
  <2>6. QED BY <2>2, <2>5 DEF TypeInv
<1>9. QED
  BY <1>1, <1>2, <1>3, <1>4, <1>5, <1>6, <1>7, <1>8 DEF Next, Handle

(* Every reachable state of the service has its type, for any threads, ads and deletions. *)
THEOREM DepositTypes == ASSUME DepositAssumption PROVE Spec => []TypeOK
<1>1. Init => TypeInv
  BY InitType
<1>2. TypeInv /\ [Next]_vars => TypeInv'
  BY NextType
<1>3. TypeInv => TypeOK
  BY TypeInvTypeOK
<1>4. QED BY <1>1, <1>2, <1>3, PTL DEF Spec

-----------------------------------------------------------------------------
(* OneReplyEach: a message is written and a reply taken by a thread that begins or ends to wait. *)
LEMMA NextOneReply ==
  ASSUME DepositAssumption, TypeInv, OneReplyEach, [Next]_vars
  PROVE  OneReplyEach'
<1> DEFINE W == {t \in Threads : waiting[t]}
<1>1. IsFiniteSet(W) /\ Cardinality(W) \in Nat
  BY FS_Subset, FS_CardinalityType DEF DepositAssumption
<1>2. Len(requests) \in Nat /\ Len(replies) \in Nat
  BY LenProperties DEF TypeInv, ConnectionOK
<1>3. CASE UNCHANGED <<requests, replies, waiting>>
  BY <1>3 DEF OneReplyEach
<1>4. CASE Serve
  <2>1. Len(requests') = Len(requests) - 1
    BY <1>4, FirstRequest DEF Serve
  <2>2. Len(replies') = Len(replies) + 1
    <3>1. PICK r \in Reply : replies' = Append(replies, r)
      BY <1>4, Serving
    <3>2. QED BY <3>1, AppendProperties DEF TypeInv, ConnectionOK
  <2>3. UNCHANGED waiting
    BY <1>4 DEF Serve, threads
  <2>4. QED BY <1>2, <2>1, <2>2, <2>3 DEF OneReplyEach
<1>5. ASSUME NEW t \in Threads, Send(t)
      PROVE  OneReplyEach'
  <2>1. t \notin W /\ W' = W \cup {t}
    BY <1>5 DEF Send, TypeInv, ThreadsOK
  <2>2. Cardinality(W') = Cardinality(W) + 1
    BY <1>1, <2>1, FS_AddElement
  <2>3. Len(requests') = Len(requests) + 1 /\ UNCHANGED replies
    BY <1>5, Sending DEF Send
  <2>4. QED BY <1>1, <1>2, <2>2, <2>3 DEF OneReplyEach
<1>6. ASSUME NEW t \in Threads, Receive(t)
      PROVE  OneReplyEach'
  <2>1. t \in W /\ W' = W \ {t}
    BY <1>6, Receiving DEF Receive
  <2>2. Cardinality(W') = Cardinality(W) - 1
    BY <1>1, <2>1, FS_RemoveElement
  <2>3. Len(replies') = Len(replies) - 1 /\ UNCHANGED requests
    BY <1>6, FirstReply DEF Receive
  <2>4. QED BY <1>1, <1>2, <2>2, <2>3 DEF OneReplyEach
<1>7. \A t \in Threads : AnswerDeposit(t) \/ AnswerDelete(t) => UNCHANGED <<requests, replies, waiting>>
  BY DEF AnswerDeposit, AnswerDelete, channel
<1>8. \A t \in Threads, id \in IDs :
        announce_deposit(t, id) \/ delete_announce(t, id) => UNCHANGED <<requests, replies, waiting>>
  BY DEF announce_deposit, delete_announce, Begin, channel
<1>9. UNCHANGED vars => UNCHANGED <<requests, replies, waiting>>
  BY DEF vars, channel, threads
<1>10. QED BY <1>3, <1>4, <1>5, <1>6, <1>7, <1>8, <1>9 DEF Next, Handle

(* However the threads of the service take one another's replies, there is one message on the
   connection for each that waits, and none is left over. *)
THEOREM OneReplyEachHolds == ASSUME DepositAssumption PROVE Spec => []OneReplyEach
<1>1. Init => TypeInv /\ OneReplyEach
  <2>1. ASSUME Init PROVE OneReplyEach
    <3>1. {t \in Threads : waiting[t]} = {}
      BY <2>1 DEF Init
    <3>2. Len(requests) = 0 /\ Len(replies) = 0
      BY <2>1, EmptySeq DEF Init
    <3>3. Cardinality({t \in Threads : waiting[t]}) = 0
      BY <3>1, FS_EmptySet
    <3>4. QED BY <3>2, <3>3 DEF OneReplyEach
  <2>2. QED BY <2>1, InitType
<1>2. TypeInv /\ OneReplyEach /\ [Next]_vars => TypeInv' /\ OneReplyEach'
  BY NextType, NextOneReply
<1>3. QED BY <1>1, <1>2, PTL DEF Spec

-----------------------------------------------------------------------------
(* What a request may change in the tables: each call adds, removes or switches off its own ad. *)
TablesStep(q) ==
  /\ \A id \in DOMAIN summary' \ DOMAIN summary : id = q.id /\ q.call = Call("put", "summary")
  /\ \A id \in DOMAIN summary \ DOMAIN summary' : id = q.id /\ q.call = Call("remove", "summary")
  /\ DOMAIN deposits \subseteq DOMAIN deposits'
  /\ \A id \in DOMAIN deposits' \ DOMAIN deposits :
       /\ id = q.id
       /\ \/ q.call = Call("put", "deposits") /\ deposits'[id] = Status("ON")
          \/ q.call = Call("update", "deposits") /\ deposits'[id] = Status("OFF")
  /\ \A id \in DOMAIN deposits : deposits'[id] # deposits[id] =>
       id = q.id /\ q.call = Call("update", "deposits") /\ deposits'[id] = Status("OFF")

(* What it has changed when it succeeds. *)
TablesDone(q) ==
  /\ q.call = Call("put", "summary") => q.id \in DOMAIN summary'
  /\ q.call = Call("put", "deposits") => q.id \in DOMAIN deposits'
  /\ q.call = Call("remove", "summary") => q.id \notin DOMAIN summary'
  /\ q.call = Call("update", "deposits") => deposits'[q.id] = Status("OFF")

LEMMA DifferentCalls ==
  /\ \A f, g, m, n : Call(f, m) = Call(g, n) <=> f = g /\ m = n
  /\ \A f, m : Call(f, m).fun = f
  BY DEF Call

LEMMA DifferentStatus == Status("ON") # Status("OFF")
  BY DEF Status

LEMMA ExecuteStep ==
  ASSUME TablesOK, NEW q \in Request, Execute(q.call, q.id)
  PROVE  TablesStep(q) /\ TablesDone(q)
<1>1. q.id \in IDs /\ q.call \in RemoteCalls
  BY DEF Request
<1>2. CASE q.call = Call("put", "summary")
  <2>1. summary' = PutItem(summary, q.id, Status("ON")) /\ UNCHANGED deposits
    BY <1>2 DEF Execute, Call
  <2>2. DOMAIN summary' = DOMAIN summary \cup {q.id}
    BY <2>1 DEF PutItem, Store
  <2>3. QED BY <1>2, <2>1, <2>2, DifferentCalls DEF TablesStep, TablesDone
<1>3. CASE q.call = Call("put", "deposits")
  <2>1. deposits' = PutItem(deposits, q.id, Status("ON")) /\ UNCHANGED summary
    BY <1>3 DEF Execute, Call
  <2>2. /\ DOMAIN deposits' = DOMAIN deposits \cup {q.id}
        /\ \A id \in DOMAIN deposits : deposits'[id] = deposits[id]
        /\ q.id \notin DOMAIN deposits => deposits'[q.id] = Status("ON")
    BY <2>1 DEF PutItem, Store
  <2>3. QED BY <1>3, <2>1, <2>2, DifferentCalls DEF TablesStep, TablesDone
<1>4. CASE q.call = Call("get", "deposits")
  <2>1. UNCHANGED <<summary, deposits>>
    BY <1>4 DEF Execute, Call
  <2>2. QED BY <1>4, <2>1, DifferentCalls DEF TablesStep, TablesDone
<1>5. CASE q.call = Call("remove", "summary")
  <2>1. summary' = DeleteItem(summary, q.id) /\ UNCHANGED deposits
    BY <1>5 DEF Execute, Call
  <2>2. DOMAIN summary' = DOMAIN summary \ {q.id}
    BY <2>1 DEF DeleteItem
  <2>3. QED BY <1>5, <2>1, <2>2, DifferentCalls DEF TablesStep, TablesDone
<1>6. CASE q.call = Call("update", "deposits")
  <2>1. deposits' = UpdateItem(deposits, q.id, Status("OFF")) /\ UNCHANGED summary
    BY <1>6 DEF Execute, Call
  <2>2. /\ DOMAIN deposits' = DOMAIN deposits \cup {q.id}
        /\ \A id \in DOMAIN deposits' :
             deposits'[id] = IF id = q.id
                             THEN IF id \in DOMAIN deposits THEN Merge(deposits[id], Status("OFF"))
                                  ELSE Status("OFF")
                             ELSE deposits[id]
    BY <2>1 DEF UpdateItem, Store
  <2>3. \A id \in DOMAIN deposits : Merge(deposits[id], Status("OFF")) = Status("OFF")
    BY MergeStatus DEF TablesOK
  <2>4. QED BY <1>6, <2>1, <2>2, <2>3, DifferentCalls DEF TablesStep, TablesDone
<1>7. QED BY <1>1, <1>2, <1>3, <1>4, <1>5, <1>6 DEF RemoteCalls

LEMMA ServeStep == ASSUME TypeInv, Serve PROVE TablesStep(Head(requests))
<1>1. Head(requests) \in Request
  BY FirstRequest DEF Serve
<1>2. CASE Execute(Head(requests).call, Head(requests).id)
  BY <1>1, <1>2, ExecuteStep DEF TypeInv
<1>3. CASE UNCHANGED <<summary, deposits>>
  BY <1>3 DEF TablesStep
<1>4. QED BY <1>2, <1>3, Serving

(* Serve drops the first request and leaves the order of the others. *)
LEMMA ServeRequests ==
  ASSUME TypeInv, Serve
  PROVE  /\ Len(requests') = Len(requests) - 1 /\ Len(requests) \in Nat
         /\ \A i \in 1..Len(requests') : requests'[i] = requests[i + 1] /\ i + 1 \in 1..Len(requests)
         /\ Head(requests) = requests[1] /\ 1 \in 1..Len(requests)
         /\ requests[1] \in Request
<1>1. Len(requests) \in Nat
  BY LenProperties DEF TypeInv, ConnectionOK
<1>2. QED BY <1>1, FirstRequest DEF Serve

(* Requests are a thread's own, so those that delete have their ads among the deletions. *)
LEMMA NextDeletion ==
  ASSUME TypeInv, DeletionInv, [Next]_vars
  PROVE  DeletionInv'
<1> USE DEF tables, channel, threads, told
<1>1. CASE UNCHANGED <<op, adId, requests, deposits, deletion>>
  BY <1>1 DEF DeletionInv
<1>2. ASSUME NEW t \in Threads, NEW id \in IDs, announce_deposit(t, id) \/ delete_announce(t, id)
      PROVE  DeletionInv'
  <2>1. UNCHANGED <<requests, deposits>> /\ deletion \subseteq deletion'
    BY <1>2 DEF announce_deposit, delete_announce, Begin
  <2>2. \A u \in Threads : op'[u] = "delete_announce" => adId'[u] \in deletion'
    <3>1. \A u \in Threads : u # t => op'[u] = op[u] /\ adId'[u] = adId[u]
      BY <1>2 DEF announce_deposit, delete_announce, Begin, TypeInv, ThreadsOK
    <3>2. op'[t] = "delete_announce" => adId'[t] \in deletion'
      BY <1>2 DEF announce_deposit, delete_announce, Begin, TypeInv, ThreadsOK
    <3>3. QED BY <2>1, <3>1, <3>2 DEF DeletionInv
  <2>3. QED BY <2>1, <2>2 DEF DeletionInv
<1>3. CASE Serve
  <2>1. UNCHANGED <<op, adId, deletion>>
    BY <1>3 DEF Serve
  <2>2. \A i \in 1..Len(requests') :
          requests'[i].call.fun \in {"remove", "update"} => requests'[i].id \in deletion
    BY <1>3, ServeRequests DEF DeletionInv
  <2>3. requests[1].call.fun \in {"remove", "update"} => requests[1].id \in deletion
    BY <1>3, ServeRequests DEF DeletionInv
  <2>4. \A id \in DOMAIN deposits' : deposits'[id] = Status("OFF") => id \in deletion
    <3>1. TablesStep(requests[1])
      BY <1>3, ServeStep, ServeRequests
    <3>2. \A id \in DOMAIN deposits' : deposits'[id] = Status("OFF") =>
            \/ id \in DOMAIN deposits /\ deposits[id] = Status("OFF")
            \/ id = requests[1].id /\ requests[1].call = Call("update", "deposits")
      BY <3>1, DifferentStatus, DifferentCalls DEF TablesStep
    <3>3. QED BY <2>3, <3>2, DifferentCalls DEF DeletionInv
  <2>5. QED BY <2>1, <2>2, <2>4 DEF DeletionInv
<1>4. ASSUME NEW t \in Threads, Send(t)
      PROVE  DeletionInv'
  <2>1. UNCHANGED <<op, adId, deposits, deletion>>
    BY <1>4 DEF Send
  <2>2. Steps(op[t])[step[t] + 1].fun \in {"remove", "update"} => op[t] = "delete_announce"
    <3>1. CASE op[t] = "announce_deposit"
      <4>1. step[t] \in 0..3 /\ step[t] < 2
        BY <1>4, <3>1, StepsOf DEF Send, TypeInv, ThreadsOK
      <4>2. step[t] + 1 = 1 \/ step[t] + 1 = 2
        BY <4>1
      <4>3. QED BY <3>1, <4>2, StepsOf, DifferentCalls
    <3>2. QED BY <1>4, <3>1, NextCall DEF Send, Handlers
  <2>3. \A i \in 1..Len(requests') :
          requests'[i].call.fun \in {"remove", "update"} => requests'[i].id \in deletion
    <3>1. requests'[Len(requests) + 1].call.fun \in {"remove", "update"} =>
            requests'[Len(requests) + 1].id \in deletion
      BY <1>4, <2>2, Sending DEF DeletionInv
    <3>2. QED BY <1>4, <3>1, Sending DEF DeletionInv
  <2>4. QED BY <2>1, <2>3 DEF DeletionInv
<1>5. ASSUME NEW t \in Threads, Receive(t)
      PROVE  DeletionInv'
  <2>1. UNCHANGED <<requests, deposits, deletion>>
    BY <1>5 DEF Receive
  <2>2. \A u \in Threads : op'[u] = "delete_announce" => op[u] = "delete_announce" /\ adId'[u] = adId[u]
    BY <1>5, Receiving DEF End, Goes, TypeInv, ThreadsOK
  <2>3. QED BY <2>1, <2>2 DEF DeletionInv
<1>6. ASSUME NEW t \in Threads, AnswerDeposit(t) \/ AnswerDelete(t)
      PROVE  DeletionInv'
  <2>1. UNCHANGED <<requests, deposits, deletion>> /\ End(t)
    BY <1>6 DEF AnswerDeposit, AnswerDelete
  <2>2. \A u \in Threads : op'[u] = "delete_announce" => op[u] = "delete_announce" /\ adId'[u] = adId[u]
    BY <2>1 DEF End, TypeInv, ThreadsOK
  <2>3. QED BY <2>1, <2>2 DEF DeletionInv
<1>7. UNCHANGED vars => UNCHANGED <<op, adId, requests, deposits, deletion>>
  BY DEF vars
<1>8. QED BY <1>1, <1>2, <1>3, <1>4, <1>5, <1>6, <1>7 DEF Next, Handle

-----------------------------------------------------------------------------
(* PutInv: steps that change neither the requests nor the deposits, by one thread. *)
LEMMA QuietPut ==
  ASSUME PutInv, UNCHANGED <<requests, deposits>>, NEW t \in Threads,
         deletion' \subseteq DOMAIN deposits, used \subseteq used',
         \A u \in Threads \ {t} : op'[u] = op[u] /\ adId'[u] = adId[u] /\ Sent(u)' = Sent(u),
         op'[t] = "announce_deposit" =>
           /\ adId'[t] \in used'
           /\ \/ op[t] = "announce_deposit" /\ adId'[t] = adId[t] /\ Sent(t)' = Sent(t)
              \/ adId'[t] \notin used
  PROVE  PutInv'
<1>1. ASSUME NEW id, PutsSent(id) PROVE PutsSent(id)'
  BY <1>1 DEF PutsSent, Announcing
<1>2. \A u \in Threads : op'[u] = "announce_deposit" => adId'[u] \in used'
  BY DEF PutInv
<1>3. \A u, v \in Threads :
        op'[u] = "announce_deposit" /\ op'[v] = "announce_deposit" /\ adId'[u] = adId'[v] => u = v
  BY DEF PutInv
<1>4. QED BY <1>1, <1>2, <1>3 DEF PutInv, PutAt, LastPut

(* A thread that deposits sends the put of the table of deposits second and last. *)
LEMMA SendPut ==
  ASSUME TypeInv, PutInv, NEW t \in Threads, Send(t)
  PROVE  PutInv'
<1> DEFINE n == Len(requests) + 1
           x == adId[t]
<1>1. UNCHANGED <<op, adId, step, deposits, used, deletion>>
  BY DEF Send, tables, told
<1>2. /\ \A u \in Threads \ {t} : Sent(u)' = Sent(u)
      /\ Sent(t) = step[t] /\ Sent(t)' = step[t] + 1 /\ step[t] \in 0..3
  BY <1>1 DEF Send, Sent, TypeInv, ThreadsOK
<1>3. /\ Len(requests) \in Nat /\ Len(requests') = n
      /\ \A i \in 1..Len(requests) : requests'[i] = requests[i]
      /\ \A i \in 1..n : i \in 1..Len(requests) \/ i = n
      /\ requests'[n].call = Steps(op[t])[step[t] + 1] /\ requests'[n].id = x
  BY Sending
<1>4. CASE op[t] = "delete_announce"
  <2>1. requests'[n].call.fun # "put"
    <3>1. step[t] < 3
      BY <1>4, StepsOf DEF Send
    <3>2. step[t] + 1 = 1 \/ step[t] + 1 = 2 \/ step[t] + 1 = 3
      BY <1>2, <3>1
    <3>3. QED BY <1>3, <1>4, <3>2, StepsOf, DifferentCalls
  <2>2. ASSUME NEW id, PutsSent(id) PROVE PutsSent(id)'
    BY <1>1, <1>2, <1>4, <2>2 DEF PutsSent, Announcing
  <2>3. \A i \in 1..n : requests'[i].call = Call("put", "deposits") => i \in 1..Len(requests)
    BY <1>3, <2>1, DifferentCalls
  <2>4. \A i \in 1..n : \A id : PutAt(i, id)' => i \in 1..Len(requests) /\ PutAt(i, id)
    BY <1>3, <2>1 DEF PutAt
  <2>5. ASSUME NEW i \in 1..n, requests'[i].call = Call("put", "deposits"), NEW id, id = requests'[i].id
        PROVE  LastPut(i, id)'
    <3>1. i \in 1..Len(requests) /\ requests'[i] = requests[i]
      BY <1>3, <2>3, <2>5
    <3>2. LastPut(i, id)
      BY <2>5, <3>1 DEF PutInv
    <3>3. \A j \in (i + 1)..n : j \in 1..n /\ (j \in 1..Len(requests) => j \in (i + 1)..Len(requests))
      BY <1>3, <3>1
    <3>4. \A j \in (i + 1)..n : ~PutAt(j, id)'
      BY <2>4, <3>2, <3>3 DEF LastPut
    <3>5. PutsSent(id)'
      BY <2>2, <3>2 DEF LastPut
    <3>6. QED BY <1>3, <3>4, <3>5 DEF LastPut
  <2>6. ASSUME NEW id \in DOMAIN deposits
        PROVE  PutsSent(id)' /\ \A i \in 1..n : ~PutAt(i, id)'
    BY <2>2, <2>4 DEF PutInv
  <2>7. QED BY <1>1, <1>3, <2>5, <2>6 DEF PutInv
<1>5. CASE op[t] = "announce_deposit"
  <2>1. step[t] < 2 /\ (step[t] = 0 \/ step[t] = 1)
    <3>1. step[t] < 2
      BY <1>5, StepsOf DEF Send
    <3>2. QED BY <1>2, <3>1
  <2>2. ~PutsSent(x)
    BY <1>2, <1>5, <2>1 DEF PutsSent, Announcing
  <2>3. ASSUME NEW id, id # x, PutsSent(id) PROVE PutsSent(id)'
    BY <1>1, <1>2, <2>3 DEF PutsSent, Announcing
  <2>4. requests'[n].call = Call("put", "deposits") => step[t] = 1
    BY <1>3, <1>5, <2>1, StepsOf, DifferentCalls
  <2>5. ASSUME step[t] = 1, NEW id, id = x PROVE PutsSent(id)'
    <3>1. \A u \in Threads : Announcing(u, id)' => u = t
      BY <1>1, <1>5, <2>5 DEF PutInv, Announcing
    <3>2. id \in used
      BY <1>5, <2>5 DEF PutInv
    <3>3. QED BY <1>1, <1>2, <2>5, <3>1, <3>2 DEF PutsSent
  <2>6. \A i \in 1..n : \A id : id # x /\ PutAt(i, id)' => i \in 1..Len(requests) /\ PutAt(i, id)
    BY <1>3 DEF PutAt
  <2>7. ASSUME NEW i \in 1..n, requests'[i].call = Call("put", "deposits"), NEW id, id = requests'[i].id
        PROVE  LastPut(i, id)'
    <3>1. CASE i = n
      <4>1. (i + 1)..n = {}
        BY <1>3, <3>1
      <4>2. PutsSent(id)'
        BY <1>3, <2>4, <2>5, <2>7, <3>1
      <4>3. QED BY <1>3, <4>1, <4>2 DEF LastPut
    <3>2. CASE i \in 1..Len(requests)
      <4>1. LastPut(i, id)
        BY <1>3, <2>7, <3>2 DEF PutInv
      <4>2. id # x
        BY <2>2, <4>1 DEF LastPut
      <4>3. \A j \in (i + 1)..n : j \in 1..n /\ (j \in 1..Len(requests) => j \in (i + 1)..Len(requests))
        BY <1>3, <3>2
      <4>4. \A j \in (i + 1)..n : ~PutAt(j, id)'
        BY <2>6, <4>1, <4>2, <4>3 DEF LastPut
      <4>5. PutsSent(id)'
        BY <2>3, <4>1, <4>2 DEF LastPut
      <4>6. QED BY <1>3, <4>4, <4>5 DEF LastPut
    <3>3. QED BY <1>3, <3>1, <3>2
  <2>8. ASSUME NEW id \in DOMAIN deposits
        PROVE  PutsSent(id)' /\ \A i \in 1..n : ~PutAt(i, id)'
    <3>1. PutsSent(id) /\ \A i \in 1..Len(requests) : ~PutAt(i, id)
      BY DEF PutInv
    <3>2. QED BY <2>2, <2>3, <2>6, <3>1
  <2>9. QED BY <1>1, <1>3, <2>7, <2>8 DEF PutInv
<1>6. QED BY <1>4, <1>5, NextCall DEF Send, Handlers

(* The put of the table of deposits is served after the other one. *)
LEMMA ServePut ==
  ASSUME TypeInv, DeletionInv, PutInv, Serve
  PROVE  PutInv'
<1>1. UNCHANGED <<op, adId, step, waiting, used, deletion>>
  BY DEF Serve, threads, told
<1>2. \A id : PutsSent(id) => PutsSent(id)'
  BY <1>1 DEF PutsSent, Announcing, Sent
<1>3. /\ Len(requests') = Len(requests) - 1 /\ Len(requests) \in Nat
      /\ \A i \in 1..Len(requests') : requests'[i] = requests[i + 1] /\ i + 1 \in 1..Len(requests)
      /\ 1 \in 1..Len(requests)
  BY ServeRequests
<1>4. \A i \in 1..Len(requests') : \A id : PutAt(i, id)' => PutAt(i + 1, id)
  BY <1>3 DEF PutAt
<1>5. ASSUME NEW i \in 1..Len(requests'), requests'[i].call = Call("put", "deposits"),
             NEW id, id = requests'[i].id
      PROVE  LastPut(i, id)'
  <2>1. LastPut(i + 1, id)
    BY <1>3, <1>5 DEF PutInv
  <2>2. \A j \in (i + 1)..Len(requests') : j \in 1..Len(requests') /\ j + 1 \in ((i + 1) + 1)..Len(requests)
    BY <1>3
  <2>3. \A j \in (i + 1)..Len(requests') : ~PutAt(j, id)'
    BY <1>4, <2>1, <2>2 DEF LastPut
  <2>4. PutsSent(id)'
    BY <1>2, <2>1 DEF LastPut
  <2>5. QED BY <2>3, <2>4 DEF LastPut
<1>6. ASSUME NEW id \in DOMAIN deposits'
      PROVE  PutsSent(id)' /\ \A i \in 1..Len(requests') : ~PutAt(i, id)'
  <2>1. CASE id \in DOMAIN deposits
    BY <1>2, <1>3, <1>4, <2>1 DEF PutInv
  <2>2. CASE id \notin DOMAIN deposits
    <3>1. /\ id = requests[1].id
          /\ requests[1].call \in {Call("put", "deposits"), Call("update", "deposits")}
      BY <2>2, ServeStep, ServeRequests DEF TablesStep
    <3>2. requests[1].call # Call("update", "deposits")
      BY <1>3, <2>2, <3>1, DifferentCalls DEF DeletionInv, PutInv
    <3>3. LastPut(1, id)
      BY <1>3, <3>1, <3>2 DEF PutInv
    <3>4. \A i \in 1..Len(requests') : i + 1 \in (1 + 1)..Len(requests)
      BY <1>3
    <3>5. \A i \in 1..Len(requests') : ~PutAt(i, id)'
      BY <1>4, <3>3, <3>4 DEF LastPut
    <3>6. QED BY <1>2, <3>3, <3>5 DEF LastPut
  <2>3. QED BY <2>1, <2>2
<1>7. deletion' \subseteq DOMAIN deposits'
  BY <1>1, ServeStep DEF PutInv, TablesStep
<1>8. QED BY <1>1, <1>5, <1>6, <1>7 DEF PutInv

LEMMA NextPut ==
  ASSUME TypeInv, DeletionInv, PutInv, [Next]_vars
  PROVE  PutInv'
<1> USE DEF tables, channel, threads, told
<1>1. CASE UNCHANGED vars
  <2>1. UNCHANGED <<requests, deposits, op, adId, step, waiting, used, deletion>>
    BY <1>1 DEF vars
  <2>2. QED BY <2>1 DEF PutInv, PutsSent, LastPut, PutAt, Announcing, Sent
<1>2. ASSUME NEW t \in Threads, NEW id \in IDs, announce_deposit(t, id)
      PROVE  PutInv'
  <2>1. /\ UNCHANGED <<requests, deposits, deletion, step, waiting>> /\ used' = used \cup {id}
        /\ id \notin used
    BY <1>2 DEF announce_deposit, Begin
  <2>2. \A u \in Threads \ {t} : op'[u] = op[u] /\ adId'[u] = adId[u] /\ Sent(u)' = Sent(u)
    BY <1>2, <2>1 DEF announce_deposit, Begin, Sent
  <2>3. adId'[t] = id
    BY <1>2 DEF announce_deposit, Begin, TypeInv, ThreadsOK
  <2>4. deletion' \subseteq DOMAIN deposits
    BY <2>1 DEF PutInv
  <2>5. QED BY <2>1, <2>2, <2>3, <2>4, QuietPut
<1>3. ASSUME NEW t \in Threads, NEW id \in IDs, delete_announce(t, id)
      PROVE  PutInv'
  <2>1. /\ UNCHANGED <<requests, deposits, used, step, waiting>> /\ deletion' = deletion \cup {id}
        /\ id \in DOMAIN deposits
    BY <1>3 DEF delete_announce, Begin
  <2>2. \A u \in Threads \ {t} : op'[u] = op[u] /\ adId'[u] = adId[u] /\ Sent(u)' = Sent(u)
    BY <1>3, <2>1 DEF delete_announce, Begin, Sent
  <2>3. op'[t] = "delete_announce"
    BY <1>3 DEF delete_announce, Begin, TypeInv, ThreadsOK
  <2>4. deletion' \subseteq DOMAIN deposits
    BY <2>1 DEF PutInv
  <2>5. QED BY <2>1, <2>2, <2>3, <2>4, QuietPut
<1>4. CASE Serve
  BY <1>4, ServePut
<1>5. ASSUME NEW t \in Threads, Send(t) PROVE PutInv'
  BY <1>5, SendPut
<1>6. ASSUME NEW t \in Threads, Receive(t) PROVE PutInv'
  <2>1. UNCHANGED <<requests, deposits, used, deletion>> /\ waiting[t]
    BY <1>6 DEF Receive
  <2>2. \A u \in Threads \ {t} : op'[u] = op[u] /\ adId'[u] = adId[u] /\ Sent(u)' = Sent(u)
    <3>1. \A u \in Threads \ {t} : op'[u] = op[u] /\ adId'[u] = adId[u] /\ step'[u] = step[u]
      <4>1. CASE End(t) BY <4>1 DEF End, TypeInv, ThreadsOK
      <4>2. CASE Goes(t)
        <5>1. UNCHANGED <<op, adId>> /\ step' = [step EXCEPT ![t] = @ + 1]
          BY <4>2, Zenon DEF Goes
        <5>2. QED BY <5>1 DEF TypeInv, ThreadsOK
      <4>3. QED BY <1>6, <4>1, <4>2, Receiving
    <3>2. \A u \in Threads \ {t} : waiting'[u] = waiting[u]
      BY <1>6, Receiving
    <3>3. QED BY <3>1, <3>2 DEF Sent
  <2>3. op'[t] = "none" \/ (op'[t] = op[t] /\ adId'[t] = adId[t] /\ Sent(t)' = Sent(t))
    <3>1. CASE End(t)
      BY <3>1 DEF End, TypeInv, ThreadsOK
    <3>2. CASE Goes(t)
      <4>1. step'[t] = step[t] + 1 /\ UNCHANGED <<op, adId>>
        BY <3>2 DEF Goes, TypeInv, ThreadsOK
      <4>2. ~waiting'[t]
        BY <1>6, Receiving
      <4>3. QED BY <2>1, <4>1, <4>2 DEF Sent
    <3>3. QED BY <1>6, <3>1, <3>2, Receiving
  <2>4. deletion' \subseteq DOMAIN deposits /\ \A u \in Threads : op[u] = "announce_deposit" => adId[u] \in used
    BY <2>1 DEF PutInv
  <2>5. QED BY <2>1, <2>2, <2>3, <2>4, QuietPut
<1>7. ASSUME NEW t \in Threads, AnswerDeposit(t) \/ AnswerDelete(t) PROVE PutInv'
  <2>1. UNCHANGED <<requests, deposits, used, deletion, waiting>> /\ End(t)
    BY <1>7 DEF AnswerDeposit, AnswerDelete
  <2>2. \A u \in Threads \ {t} : op'[u] = op[u] /\ adId'[u] = adId[u] /\ Sent(u)' = Sent(u)
    BY <2>1 DEF End, Sent, TypeInv, ThreadsOK
  <2>3. op'[t] = "none"
    BY <2>1 DEF End, TypeInv, ThreadsOK
  <2>4. deletion' \subseteq DOMAIN deposits
    BY <2>1 DEF PutInv
  <2>5. QED BY <2>1, <2>2, <2>3, <2>4, QuietPut
<1>8. QED BY <1>1, <1>2, <1>3, <1>4, <1>5, <1>6, <1>7 DEF Next, Handle

-----------------------------------------------------------------------------
(* Steps that leave the tables; deletions are never forgotten. *)
LEMMA TablesKept ==
  ASSUME [Next]_vars
  PROVE  /\ Serve \/ UNCHANGED <<summary, deposits>>
         /\ deletion \subseteq deletion'
<1> USE DEF tables, channel, threads, told
<1>1. CASE UNCHANGED vars
  BY <1>1 DEF vars
<1>2. CASE Serve
  BY <1>2 DEF Serve
<1>3. ASSUME NEW t \in Threads, NEW id \in IDs, announce_deposit(t, id) \/ delete_announce(t, id)
      PROVE  UNCHANGED <<summary, deposits>> /\ deletion \subseteq deletion'
  BY <1>3 DEF announce_deposit, delete_announce, Begin
<1>4. ASSUME NEW t \in Threads, Handle(t)
      PROVE  UNCHANGED <<summary, deposits>> /\ deletion \subseteq deletion'
  BY <1>4 DEF Handle, Send, Receive, AnswerDeposit, AnswerDelete
<1>5. QED BY <1>1, <1>2, <1>3, <1>4 DEF Next

(* What a call has done stays done. *)
LEMMA EffectKept ==
  ASSUME TypeInv, DeletionInv, PutInv, [Next]_vars,
         NEW handler \in Handlers, NEW k, NEW id, Effect(handler, k, id),
         handler = "delete_announce" => id \in deletion
  PROVE  Effect(handler, k, id)'
<1>1. CASE UNCHANGED <<summary, deposits>>
  BY <1>1, TablesKept DEF Effect, DepositedBy, DeletedBy
<1>2. CASE Serve
  <2>1. TablesStep(requests[1]) /\ 1 \in 1..Len(requests)
    BY <1>2, ServeStep, ServeRequests
  <2>2. requests[1].call.fun \in {"remove", "update"} => requests[1].id \in deletion
    BY <2>1 DEF DeletionInv
  <2>3. deletion \subseteq deletion'
    BY TablesKept
  <2>4. DepositedBy(k, id) => DepositedBy(k, id)'
    <3>1. id \notin deletion' /\ id \in DOMAIN summary => id \in DOMAIN summary'
      BY <2>1, <2>2, <2>3, DifferentCalls DEF TablesStep
    <3>2. id \notin deletion' /\ id \in DOMAIN deposits =>
            id \in DOMAIN deposits' /\ deposits'[id] = deposits[id]
      BY <2>1, <2>2, <2>3, DifferentCalls DEF TablesStep
    <3>3. QED BY <2>3, <3>1, <3>2 DEF DepositedBy
  <2>5. id \in deletion /\ DeletedBy(k, id) => DeletedBy(k, id)'
    <3>1. id \in deletion => id \in DOMAIN deposits /\ ~PutAt(1, id)
      BY <2>1 DEF PutInv
    <3>2. id \in deletion /\ id \notin DOMAIN summary => id \notin DOMAIN summary'
      BY <2>1, <3>1, DifferentCalls DEF TablesStep, PutAt
    <3>3. id \in deletion /\ deposits[id] = Status("OFF") => deposits'[id] = Status("OFF")
      BY <2>1, <3>1 DEF TablesStep
    <3>4. QED BY <3>2, <3>3 DEF DeletedBy
  <2>6. QED BY <2>4, <2>5 DEF Effect, Handlers
<1>3. QED BY <1>1, <1>2, TablesKept

(* A request that succeeds has the effect its thread will know of. *)
LEMMA ServedEffect ==
  ASSUME TypeInv, DeletionInv, PutInv, MessageInv, Serve,
         Execute(requests[1].call, requests[1].id),
         NEW t \in Threads, waiting[t], LastRequest(t, 1)
  PROVE  Effect(op[t], step[t] + 1, adId[t])'
<1>1. 1 \in 1..Len(requests) /\ requests[1] \in Request
  BY ServeRequests
<1>2. TablesDone(requests[1]) /\ TablesStep(requests[1])
  BY <1>1, ExecuteStep DEF TypeInv
<1>3. requests[1].call = Steps(op[t])[step[t] + 1] /\ requests[1].id = adId[t]
  BY <1>1 DEF MessageInv, RequestOf
<1>4. UNCHANGED <<op, adId, step, deletion>>
  BY DEF Serve, threads, told
<1>5. step[t] \in 0..3 /\ step[t] < Len(Steps(op[t])) /\ op[t] \in Handlers
  BY NextCall DEF TypeInv, ThreadsOK
<1>6. CASE op[t] = "announce_deposit"
  <2>1. step[t] < 2
    BY <1>5, <1>6, StepsOf
  <2>2. step[t] = 0 \/ step[t] = 1
    BY <1>5, <2>1
  <2>3. CASE step[t] = 0
    BY <1>2, <1>3, <1>4, <1>6, <2>3, StepsOf DEF TablesDone, Effect, DepositedBy
  <2>4. CASE step[t] = 1
    <3>1. requests[1].call = Call("put", "deposits")
      BY <1>3, <1>6, <2>4, StepsOf
    <3>2. adId[t] \in DOMAIN deposits'
      BY <1>2, <1>3, <3>1 DEF TablesDone
    <3>3. adId[t] \notin deletion => deposits'[adId[t]] = Status("ON")
      <4>1. adId[t] \in DOMAIN deposits => deposits[adId[t]] = Status("ON") \/ adId[t] \in deletion
        BY DEF DeletionInv, TypeInv, TablesOK
      <4>2. QED BY <1>2, <3>1, <3>2, <4>1, DifferentCalls DEF TablesStep
    <3>4. QED BY <1>4, <1>6, <2>4, <3>2, <3>3 DEF Effect, DepositedBy
  <2>5. QED BY <2>2, <2>3, <2>4
<1>7. CASE op[t] = "delete_announce"
  <2>1. step[t] < 3
    BY <1>5, <1>7, StepsOf
  <2>2. step[t] = 0 \/ step[t] = 1 \/ step[t] = 2
    BY <1>5, <2>1
  <2>3. CASE step[t] = 0
    BY <1>4, <1>7, <2>3 DEF Effect, DeletedBy
  <2>4. CASE step[t] = 1
    BY <1>2, <1>3, <1>4, <1>7, <2>4, StepsOf DEF TablesDone, Effect, DeletedBy
  <2>5. CASE step[t] = 2
    BY <1>2, <1>3, <1>4, <1>7, <2>5, StepsOf DEF TablesDone, Effect, DeletedBy
  <2>6. QED BY <2>2, <2>3, <2>4, <2>5
<1>8. QED BY <1>5, <1>6, <1>7 DEF Handlers

LEMMA ThreadEffectKept ==
  ASSUME TypeInv, DeletionInv, PutInv, [Next]_vars,
         NEW t \in Threads, op[t] \in Handlers, NEW k, Effect(op[t], k, adId[t]),
         op'[t] = op[t], adId'[t] = adId[t]
  PROVE  Effect(op[t], k, adId[t])'
<1>1. ASSUME NEW handler, handler = op[t], NEW id, id = adId[t] PROVE Effect(handler, k, id)'
  <2>1. handler = "delete_announce" => id \in deletion
    BY <1>1 DEF DeletionInv
  <2>2. QED BY <1>1, <2>1, EffectKept
<1>2. QED BY <1>1 DEF Effect, DepositedBy, DeletedBy

(* A thread that waits is in a call. *)
LEMMA WaitingIn == ASSUME TypeInv, NEW t \in Threads, waiting[t] PROVE op[t] \in Handlers
  BY NextCall DEF TypeInv, ThreadsOK


-----------------------------------------------------------------------------
(* A thread that goes on waiting is where it was, and a reply to it says what it said. *)
LEMMA StillReply ==
  ASSUME TypeInv, DeletionInv, PutInv, [Next]_vars,
         NEW t \in Threads, waiting[t], op'[t] = op[t], adId'[t] = adId[t], step'[t] = step[t],
         NEW i, NEW j, replies'[i] = replies[j], ReplyTo(t, j)
  PROVE  ReplyTo(t, i)'
<1>1. ASSUME NEW k \in 1..3, k = step'[t] + 1, replies'[i].success
      PROVE  Effect(op[t], k, adId[t])'
  <2>1. Effect(op[t], k, adId[t])
    BY <1>1 DEF ReplyTo
  <2>2. QED BY <2>1, WaitingIn, ThreadEffectKept
<1>2. replies'[i].values \in {0, adId'[t]}
  BY DEF ReplyTo
<1>3. QED BY <1>1, <1>2 DEF ReplyTo

LEMMA QuietMessage ==
  ASSUME TypeInv, DeletionInv, PutInv, MessageInv, [Next]_vars, UNCHANGED <<requests, replies>>,
         \A t \in Threads : waiting'[t] =>
           waiting[t] /\ op'[t] = op[t] /\ adId'[t] = adId[t] /\ step'[t] = step[t]
  PROVE  MessageInv'
<1>1. ASSUME NEW t \in Threads, waiting'[t], NEW i \in 1..Len(requests), LastRequest(t, i)'
      PROVE  RequestOf(t, i)'
  BY <1>1 DEF MessageInv, LastRequest, RequestOf
<1>2. ASSUME NEW t \in Threads, waiting'[t], NEW i \in 1..Len(replies), LastReply(t, i)'
      PROVE  ReplyTo(t, i)'
  <2>1. LastReply(t, i)
    BY <1>2 DEF LastReply
  <2>2. ReplyTo(t, i)
    BY <1>2, <2>1 DEF MessageInv
  <2>3. QED BY <1>2, <2>2, StillReply
<1>3. QED BY <1>1, <1>2 DEF MessageInv

(* The request that a thread sends is its last message. *)
LEMMA SendMessage ==
  ASSUME TypeInv, DeletionInv, PutInv, MessageInv, [Next]_vars, NEW t \in Threads, Send(t)
  PROVE  MessageInv'
<1> DEFINE n == Len(requests) + 1
<1>1. /\ Len(requests) \in Nat /\ Len(requests') = n
      /\ \A i \in 1..n : i \in 1..Len(requests) \/ i = n
      /\ \A i \in 1..Len(requests) : requests'[i] = requests[i]
      /\ requests'[n].call = Steps(op[t])[step[t] + 1]
      /\ requests'[n].id = adId[t] /\ requests'[n].thread = t
  BY Sending
<1>2. UNCHANGED <<replies, op, adId, step>>
  BY DEF Send
<1>3. \A u \in Threads \ {t} : waiting'[u] = waiting[u]
  BY DEF Send, TypeInv, ThreadsOK
<1>4. ASSUME NEW u \in Threads, waiting'[u], NEW i \in 1..n, LastRequest(u, i)'
      PROVE  RequestOf(u, i)'
  <2>1. CASE u = t
    <3>1. i = n
      BY <1>1, <1>4, <2>1 DEF LastRequest
    <3>2. QED BY <1>1, <1>2, <2>1, <3>1 DEF RequestOf
  <2>2. CASE u # t
    <3>1. i \in 1..Len(requests) /\ requests'[i] = requests[i]
      BY <1>1, <1>4, <2>2 DEF LastRequest
    <3>2. \A j \in (i + 1)..Len(requests) :
            j \in (i + 1)..n /\ requests'[j] = requests[j]
      BY <1>1, <3>1
    <3>3. LastRequest(u, i)
      BY <1>1, <1>4, <3>1, <3>2 DEF LastRequest
    <3>4. RequestOf(u, i)
      BY <1>3, <1>4, <2>2, <3>1, <3>3 DEF MessageInv
    <3>5. QED BY <1>2, <3>1, <3>4 DEF RequestOf
  <2>3. QED BY <2>1, <2>2
<1>5. ASSUME NEW u \in Threads, waiting'[u], NEW i \in 1..Len(replies), LastReply(u, i)'
      PROVE  ReplyTo(u, i)'
  <2>1. u # t
    BY <1>1, <1>5 DEF LastReply
  <2>2. \A j \in 1..Len(requests) : j \in 1..n /\ requests'[j] = requests[j]
    BY <1>1
  <2>3. LastReply(u, i)
    BY <1>1, <1>2, <1>5, <2>2 DEF LastReply
  <2>4. waiting[u] /\ ReplyTo(u, i)
    BY <1>3, <1>5, <2>1, <2>3 DEF MessageInv
  <2>5. QED BY <1>2, <2>4, StillReply
<1>6. QED BY <1>1, <1>2, <1>4, <1>5 DEF MessageInv

(* The first request becomes the last reply. *)
LEMMA ServeMessage ==
  ASSUME TypeInv, DeletionInv, PutInv, MessageInv, [Next]_vars, Serve
  PROVE  MessageInv'
<1> DEFINE m == Len(replies) + 1
<1>1. UNCHANGED <<op, adId, step, waiting>>
  BY DEF Serve, threads
<1>2. /\ Len(requests') = Len(requests) - 1 /\ Len(requests) \in Nat
      /\ \A i \in 1..Len(requests') : requests'[i] = requests[i + 1] /\ i + 1 \in 1..Len(requests)
      /\ Head(requests) = requests[1] /\ 1 \in 1..Len(requests)
  BY ServeRequests
<1>3. PICK r \in Reply :
        /\ replies' = Append(replies, r)
        /\ r.thread = requests[1].thread
        /\ Execute(requests[1].call, requests[1].id) \/ ~r.success
        /\ r.values \in {0, requests[1].id}
  BY <1>2, Serving
<1>4. /\ Len(replies) \in Nat /\ Len(replies') = m /\ replies'[m] = r
      /\ \A i \in 1..Len(replies) : replies'[i] = replies[i]
      /\ \A i \in 1..m : i \in 1..Len(replies) \/ i = m
  <2>1. replies \in Seq(Reply)
    BY DEF TypeInv, ConnectionOK
  <2>2. /\ Len(replies') = m /\ replies'[m] = r
        /\ \A i \in 1..Len(replies) : replies'[i] = replies[i]
    BY <1>3, <2>1, AppendProperties
  <2>3. Len(replies) \in Nat
    BY <2>1, LenProperties
  <2>4. \A i \in 1..m : i \in 1..Len(replies) \/ i = m
    BY <2>3
  <2>5. QED BY <2>2, <2>3, <2>4
<1>5. ASSUME NEW t \in Threads, waiting'[t], NEW i \in 1..Len(requests'), LastRequest(t, i)'
      PROVE  RequestOf(t, i)'
  <2>1. \A j \in ((i + 1) + 1)..Len(requests) :
          j - 1 \in (i + 1)..Len(requests') /\ j - 1 \in 1..Len(requests') /\ j = (j - 1) + 1
    BY <1>2
  <2>2. \A j \in ((i + 1) + 1)..Len(requests) : requests[j] = requests'[j - 1]
    BY <1>2, <2>1
  <2>3. LastRequest(t, i + 1)
    BY <1>2, <1>5, <2>1, <2>2 DEF LastRequest
  <2>4. RequestOf(t, i + 1)
    BY <1>1, <1>2, <1>5, <2>3 DEF MessageInv
  <2>5. QED BY <1>1, <1>2, <2>4 DEF RequestOf
<1>6. ASSUME NEW t \in Threads, waiting'[t], NEW i \in 1..m, LastReply(t, i)'
      PROVE  ReplyTo(t, i)'
  <2>1. \A j \in (1 + 1)..Len(requests) :
          j - 1 \in 1..Len(requests') /\ j = (j - 1) + 1
    BY <1>2
  <2>2. \A j \in (1 + 1)..Len(requests) : requests[j] = requests'[j - 1]
    BY <1>2, <2>1
  <2>3. \A j \in (1 + 1)..Len(requests) : requests[j].thread # t
    BY <1>6, <2>1, <2>2 DEF LastReply
  <2>4. CASE i = m
    <3>1. LastRequest(t, 1)
      BY <1>3, <1>4, <1>6, <2>3, <2>4 DEF LastRequest, LastReply
    <3>2. requests[1].id = adId[t]
      BY <1>1, <1>2, <1>6, <3>1 DEF MessageInv, RequestOf
    <3>3. ASSUME NEW k \in 1..3, k = step'[t] + 1, r.success
          PROVE  Effect(op[t], k, adId[t])'
      <4>1. Effect(op[t], step[t] + 1, adId[t])'
        BY <1>1, <1>3, <1>6, <3>1, <3>3, ServedEffect
      <4>2. QED BY <1>1, <3>3, <4>1 DEF Effect, DepositedBy, DeletedBy
    <3>4. QED BY <1>1, <1>3, <1>4, <2>4, <3>2, <3>3 DEF ReplyTo
  <2>5. CASE i \in 1..Len(replies)
    <3>1. m \in (i + 1)..Len(replies')
      BY <1>4, <2>5
    <3>2. requests[1].thread # t
      BY <1>3, <1>4, <1>6, <3>1 DEF LastReply
    <3>3. \A j \in 1..Len(requests) : j = 1 \/ j \in (1 + 1)..Len(requests)
      BY <1>2
    <3>4. \A j \in (i + 1)..Len(replies) : j \in (i + 1)..m /\ replies'[j] = replies[j]
      BY <1>4, <2>5
    <3>5. LastReply(t, i)
      BY <1>4, <1>6, <2>3, <2>5, <3>2, <3>3, <3>4 DEF LastReply
    <3>6. waiting[t] /\ ReplyTo(t, i)
      BY <1>1, <1>6, <2>5, <3>5 DEF MessageInv
    <3>7. QED BY <1>1, <1>4, <2>5, <3>6, StillReply
  <2>6. QED BY <1>4, <2>4, <2>5
<1>7. QED BY <1>4, <1>5, <1>6 DEF MessageInv

(* The first reply is taken by whoever takes it: the others wait for theirs. *)
LEMMA ReceiveMessage ==
  ASSUME TypeInv, DeletionInv, PutInv, MessageInv, [Next]_vars, NEW t \in Threads, Receive(t)
  PROVE  MessageInv'
<1>1. UNCHANGED requests /\ replies # <<>> /\ replies' = Tail(replies)
  BY DEF Receive
<1>2. /\ Len(replies') = Len(replies) - 1 /\ Len(replies) \in Nat
      /\ \A i \in 1..Len(replies') : replies'[i] = replies[i + 1] /\ i + 1 \in 1..Len(replies)
  <2>1. Len(replies) \in Nat
    BY LenProperties DEF TypeInv, ConnectionOK
  <2>2. QED BY <1>1, <2>1, FirstReply
<1>3. ASSUME NEW u \in Threads, waiting'[u]
      PROVE  waiting[u] /\ op'[u] = op[u] /\ adId'[u] = adId[u] /\ step'[u] = step[u]
  <2>1. u # t /\ waiting[u]
    BY <1>3, Receiving
  <2>2. CASE End(t)
    BY <2>1, <2>2 DEF End, TypeInv, ThreadsOK
  <2>3. CASE Goes(t)
    <3>1. UNCHANGED <<op, adId>> /\ step' = [step EXCEPT ![t] = @ + 1]
      BY <2>3, Zenon DEF Goes
    <3>2. QED BY <2>1, <3>1 DEF TypeInv, ThreadsOK
  <2>4. QED BY <2>2, <2>3, Receiving
<1>4. ASSUME NEW u \in Threads, waiting'[u], NEW i \in 1..Len(requests), LastRequest(u, i)'
      PROVE  RequestOf(u, i)'
  BY <1>1, <1>3, <1>4 DEF MessageInv, LastRequest, RequestOf
<1>5. ASSUME NEW u \in Threads, waiting'[u], NEW i \in 1..Len(replies'), LastReply(u, i)'
      PROVE  ReplyTo(u, i)'
  <2>1. \A j \in ((i + 1) + 1)..Len(replies) :
          j - 1 \in (i + 1)..Len(replies') /\ j - 1 \in 1..Len(replies') /\ j = (j - 1) + 1
    BY <1>2
  <2>2. \A j \in ((i + 1) + 1)..Len(replies) : replies[j] = replies'[j - 1]
    BY <1>2, <2>1
  <2>3. LastReply(u, i + 1)
    BY <1>1, <1>2, <1>5, <2>1, <2>2 DEF LastReply
  <2>4. ReplyTo(u, i + 1)
    BY <1>2, <1>3, <1>5, <2>3 DEF MessageInv
  <2>5. QED BY <1>2, <1>3, <1>5, <2>4, StillReply
<1>6. QED BY <1>1, <1>4, <1>5 DEF MessageInv

LEMMA NextMessage ==
  ASSUME TypeInv, DeletionInv, PutInv, MessageInv, [Next]_vars
  PROVE  MessageInv'
<1> USE DEF tables, channel, threads, told
<1>1. CASE UNCHANGED vars
  BY <1>1, QuietMessage DEF vars
<1>2. ASSUME NEW t \in Threads, NEW id \in IDs, announce_deposit(t, id) \/ delete_announce(t, id)
      PROVE  MessageInv'
  <2>1. UNCHANGED <<requests, replies, step, waiting>> /\ op[t] = "none"
    BY <1>2 DEF announce_deposit, delete_announce, Begin
  <2>2. ~waiting[t]
    BY <2>1, WaitingIn DEF Handlers
  <2>3. \A u \in Threads : u # t => op'[u] = op[u] /\ adId'[u] = adId[u]
    BY <1>2 DEF announce_deposit, delete_announce, Begin, TypeInv, ThreadsOK
  <2>4. QED BY <2>1, <2>2, <2>3, QuietMessage
<1>3. CASE Serve
  BY <1>3, ServeMessage
<1>4. ASSUME NEW t \in Threads, AnswerDeposit(t) \/ AnswerDelete(t) PROVE MessageInv'
  <2>1. UNCHANGED <<requests, replies, waiting>> /\ End(t) /\ ~waiting[t]
    BY <1>4 DEF AnswerDeposit, AnswerDelete, Served
  <2>2. \A u \in Threads : u # t => op'[u] = op[u] /\ adId'[u] = adId[u] /\ step'[u] = step[u]
    BY <2>1 DEF End, TypeInv, ThreadsOK
  <2>3. QED BY <2>1, <2>2, QuietMessage
<1>5. QED BY <1>1, <1>2, <1>3, <1>4, SendMessage, ReceiveMessage DEF Next, Handle

-----------------------------------------------------------------------------
(* The reply that a thread takes as its own is the last message it has to take. *)
LEMMA OwnReply ==
  ASSUME TypeInv, MessageInv, NEW t \in Threads, Receive(t), own'[t]
  PROVE  own[t] /\ ReplyTo(t, 1) /\ Head(replies) = replies[1]
<1>1. own[t] /\ Head(replies).thread = t /\ t \notin Askers(Tail(replies) \o requests)
  BY Receiving
<1>2. /\ Head(replies) = replies[1] /\ 1 \in 1..Len(replies)
      /\ Len(Tail(replies)) = Len(replies) - 1
      /\ \A i \in 1..Len(Tail(replies)) : Tail(replies)[i] = replies[i + 1]
      /\ Tail(replies) \in Seq(Reply)
  BY FirstReply DEF Receive
<1>3. Tail(replies) \in Seq(Reply \cup Request) /\ requests \in Seq(Reply \cup Request)
  BY <1>2, SeqMonotonic DEF TypeInv, ConnectionOK
<1> DEFINE all == Tail(replies) \o requests
<1>4. /\ Len(all) = Len(Tail(replies)) + Len(requests)
      /\ \A i \in 1..Len(Tail(replies)) : all[i] = Tail(replies)[i]
      /\ \A j \in 1..Len(requests) : all[Len(Tail(replies)) + j] = requests[j]
  <2>1. /\ Len(all) = Len(Tail(replies)) + Len(requests)
        /\ \A i \in 1..(Len(Tail(replies)) + Len(requests)) :
             all[i] = IF i <= Len(Tail(replies)) THEN Tail(replies)[i]
                      ELSE requests[i - Len(Tail(replies))]
    BY <1>3, ConcatProperties
  <2>2. Len(Tail(replies)) \in Nat /\ Len(requests) \in Nat
    BY <1>3, LenProperties
  <2>3. QED BY <2>1, <2>2
<1>5. Len(Tail(replies)) \in Nat /\ Len(requests) \in Nat /\ Len(replies) \in Nat
  BY <1>3, LenProperties DEF TypeInv, ConnectionOK
<1>6. \A i \in 1..Len(all) : all[i].thread # t
  BY <1>1 DEF Askers
<1> HIDE DEF all
<1>7. \A j \in (1 + 1)..Len(replies) : replies[j].thread # t
  <2>1. \A j \in (1 + 1)..Len(replies) :
          j - 1 \in 1..Len(Tail(replies)) /\ j - 1 \in 1..Len(all) /\ j = (j - 1) + 1
    BY <1>2, <1>4, <1>5
  <2>2. \A j \in (1 + 1)..Len(replies) : replies[j] = all[j - 1]
    BY <1>2, <1>4, <2>1
  <2>3. QED BY <1>6, <2>1, <2>2
<1>8. \A j \in 1..Len(requests) : requests[j].thread # t
  <2>1. \A j \in 1..Len(requests) : Len(Tail(replies)) + j \in 1..Len(all)
    BY <1>4, <1>5
  <2>2. QED BY <1>4, <1>6, <2>1
<1>9. LastReply(t, 1)
  BY <1>1, <1>2, <1>7, <1>8 DEF LastReply
<1>10. ReplyTo(t, 1)
  BY <1>2, <1>9 DEF MessageInv, Receive
<1>11. QED BY <1>1, <1>2, <1>10

-----------------------------------------------------------------------------
(* A thread that is where it was knows what it knew, and one that begins or ends a call nothing. *)
LEMMA KnowsKept ==
  ASSUME TypeInv, DeletionInv, PutInv, [Next]_vars, NEW t \in Threads, Knows(t),
         op'[t] = op[t], adId'[t] = adId[t], step'[t] = step[t], results'[t] = results[t],
         announce'[t] = announce[t]
  PROVE  Knows(t)'
<1>1. ASSUME NEW k \in 1..step[t], results[t][k] PROVE Effect(op[t], k, adId[t])'
  <2>1. Effect(op[t], k, adId[t])
    BY <1>1 DEF Knows
  <2>2. op[t] \in Handlers
    <3>1. step[t] \in 0..3 /\ op[t] \in Handlers \cup {"none"} /\ step[t] <= Len(Steps(op[t]))
      BY DEF TypeInv, ThreadsOK
    <3>2. op[t] # "none"
      <4>1. step[t] \in 0..3 /\ ~(step[t] <= 0)
        BY <3>1
      <4>2. QED BY <3>1, <4>1, StepsOf
    <3>3. QED BY <3>1, <3>2
  <2>3. QED BY <2>1, <2>2, ThreadEffectKept
<1>2. announce'[t] \in {0, adId'[t]}
  BY DEF Knows
<1>3. QED BY <1>1, <1>2 DEF Knows

LEMMA KnowsNothing ==
  ASSUME NEW t, step'[t] = 0, announce'[t] = 0
  PROVE  Knows(t)'
<1>1. 1..step'[t] = {}
  OBVIOUS
<1>2. QED BY <1>1 DEF Knows

(* A thread that takes its own reply knows what the reply says. *)
LEMMA ReceiveKnows ==
  ASSUME TypeInv, DeletionInv, PutInv, MessageInv, KnowsInv, [Next]_vars,
         NEW t \in Threads, Receive(t), own'[t]
  PROVE  Knows(t)'
<1>1. own[t] /\ Knows(t) /\ ReplyTo(t, 1) /\ Head(replies) = replies[1]
  BY OwnReply DEF KnowsInv
<1>2. CASE End(t)
  <2>1. step'[t] = 0 /\ announce'[t] = 0
    BY <1>2 DEF End, TypeInv, ThreadsOK
  <2>2. QED BY <2>1, KnowsNothing
<1>3. CASE Goes(t)
  <2>1. UNCHANGED <<op, adId>> /\ step' = [step EXCEPT ![t] = @ + 1]
    BY <1>3, Zenon DEF Goes
  <2>2. PICK success \in BOOLEAN :
          /\ results' = [results EXCEPT ![t] = Append(@, success)]
          /\ success => Head(replies).success
    BY <1>3, Zenon DEF Goes
  <2>3. PICK ad \in IDs \cup {0} :
          announce' = [announce EXCEPT ![t] = ad] /\ ad \in {announce[t], Head(replies).values}
    BY <1>3, Zenon DEF Goes
  <2>4. announce'[t] \in {0, adId'[t]}
    BY <1>1, <2>1, <2>3 DEF Knows, ReplyTo, TypeInv, ThreadsOK
  <2>5. /\ step'[t] = step[t] + 1 /\ results'[t] = Append(results[t], success)
        /\ results[t] \in Seq(BOOLEAN) /\ Len(results[t]) = step[t] /\ step[t] \in 0..3
    BY <2>1, <2>2 DEF TypeInv, ThreadsOK
  <2>6. /\ \A k \in 1..step[t] : results'[t][k] = results[t][k]
        /\ results'[t][step[t] + 1] = success
    BY <2>5, AppendProperties
  <2>7. op[t] \in Handlers /\ step[t] + 1 \in 1..3
    <3>1. waiting[t]
      BY DEF Receive
    <3>2. op[t] \in Handlers
      BY <3>1, WaitingIn
    <3>3. PICK n \in {2, 3} : Len(Steps(op[t])) = n /\ step[t] < n
      BY <3>1, <3>2, StepsOf DEF Handlers, TypeInv, ThreadsOK
    <3>4. step[t] + 1 \in 1..3
      BY <2>5, <3>3
    <3>5. QED BY <3>2, <3>4
  <2>8. ASSUME NEW k \in 1..(step[t] + 1), results'[t][k]
        PROVE  Effect(op[t], k, adId[t])'
    <3>1. Effect(op[t], k, adId[t])
      <4>1. CASE k \in 1..step[t]
        BY <1>1, <2>6, <2>8, <4>1 DEF Knows
      <4>2. CASE k = step[t] + 1
        BY <1>1, <2>2, <2>6, <2>7, <2>8, <4>2 DEF ReplyTo
      <4>3. k \in 1..step[t] \/ k = step[t] + 1
        BY <2>5
      <4>4. QED BY <4>1, <4>2, <4>3
    <3>2. QED BY <2>1, <2>7, <3>1, ThreadEffectKept
  <2>9. QED BY <2>1, <2>4, <2>5, <2>8 DEF Knows
<1>4. QED BY <1>2, <1>3, Receiving

LEMMA NextKnows ==
  ASSUME TypeInv, DeletionInv, PutInv, MessageInv, KnowsInv, [Next]_vars
  PROVE  KnowsInv'
<1> USE DEF tables, channel, threads, told
<1>1. ASSUME UNCHANGED <<op, adId, step, results, announce, own>> PROVE KnowsInv'
  BY <1>1, KnowsKept DEF KnowsInv
<1>2. ASSUME NEW t \in Threads, NEW id \in IDs, announce_deposit(t, id) \/ delete_announce(t, id)
      PROVE  KnowsInv'
  <2>1. UNCHANGED <<step, results, announce>> /\ op[t] = "none"
    BY <1>2 DEF announce_deposit, delete_announce, Begin
  <2>2. step[t] = 0 /\ announce[t] = 0
    <3>1. step[t] \in 0..3 /\ step[t] <= 0 /\ announce[t] = 0
      BY <2>1, StepsOf DEF TypeInv, ThreadsOK
    <3>2. QED BY <3>1
  <2>3. Knows(t)'
    BY <2>1, <2>2, KnowsNothing
  <2>4. \A u \in Threads : u # t => op'[u] = op[u] /\ adId'[u] = adId[u] /\ own'[u] = own[u]
    BY <1>2 DEF announce_deposit, delete_announce, Begin, TypeInv, ThreadsOK
  <2>5. QED BY <2>1, <2>3, <2>4, KnowsKept DEF KnowsInv
<1>3. ASSUME NEW t \in Threads, Receive(t) PROVE KnowsInv'
  <2>1. \A u \in Threads : u # t => own'[u] = own[u]
    BY <1>3, Receiving
  <2>2. ASSUME NEW u \in Threads, u # t
        PROVE  /\ op'[u] = op[u] /\ adId'[u] = adId[u] /\ step'[u] = step[u]
               /\ results'[u] = results[u] /\ announce'[u] = announce[u]
    <3>1. CASE End(t)
      BY <2>2, <3>1 DEF End, TypeInv, ThreadsOK
    <3>2. CASE Goes(t)
      <4>1. UNCHANGED <<op, adId>> /\ step' = [step EXCEPT ![t] = @ + 1]
        BY <3>2, Zenon DEF Goes
      <4>2. \E success : results' = [results EXCEPT ![t] = Append(@, success)]
        BY <3>2, Zenon DEF Goes
      <4>3. \E ad : announce' = [announce EXCEPT ![t] = ad]
        BY <3>2, Zenon DEF Goes
      <4>4. QED BY <2>2, <4>1, <4>2, <4>3 DEF TypeInv, ThreadsOK
    <3>3. QED BY <1>3, <3>1, <3>2, Receiving
  <2>3. QED BY <1>3, <2>1, <2>2, KnowsKept, ReceiveKnows DEF KnowsInv
<1>4. ASSUME NEW t \in Threads, AnswerDeposit(t) \/ AnswerDelete(t) PROVE KnowsInv'
  <2>1. End(t) /\ UNCHANGED own
    BY <1>4 DEF AnswerDeposit, AnswerDelete
  <2>2. step'[t] = 0 /\ announce'[t] = 0
    BY <2>1 DEF End, TypeInv, ThreadsOK
  <2>3. Knows(t)'
    BY <2>2, KnowsNothing
  <2>4. \A u \in Threads : u # t =>
          /\ op'[u] = op[u] /\ adId'[u] = adId[u] /\ step'[u] = step[u]
          /\ results'[u] = results[u] /\ announce'[u] = announce[u]
    BY <2>1 DEF End, TypeInv, ThreadsOK
  <2>5. QED BY <2>1, <2>3, <2>4, KnowsKept DEF KnowsInv
<1>5. ASSUME NEW t \in Threads, Send(t) PROVE KnowsInv'
  BY <1>1, <1>5 DEF Send
<1>6. CASE Serve
  BY <1>1, <1>6 DEF Serve
<1>7. CASE UNCHANGED vars
  BY <1>1, <1>7 DEF vars
<1>8. QED BY <1>2, <1>3, <1>4, <1>5, <1>6, <1>7 DEF Next, Handle

-----------------------------------------------------------------------------
(* What the users were told stays true. *)
LEMMA OnlineKept ==
  ASSUME TypeInv, DeletionInv, PutInv, [Next]_vars, NEW id, id \notin deletion', Online(id)
  PROVE  Online(id)'
<1>1. Effect("announce_deposit", 1, id) /\ Effect("announce_deposit", 2, id)
  BY DEF Effect, DepositedBy, Online
<1>2. Effect("announce_deposit", 1, id)' /\ Effect("announce_deposit", 2, id)'
  BY <1>1, EffectKept DEF Handlers
<1>3. QED BY <1>2 DEF Effect, DepositedBy, Online

LEMMA DeletedKept ==
  ASSUME TypeInv, DeletionInv, PutInv, [Next]_vars, NEW id \in deletion,
         id \notin DOMAIN summary, deposits[id] = Status("OFF")
  PROVE  id \notin DOMAIN summary' /\ deposits'[id] = Status("OFF")
<1>1. Effect("delete_announce", 2, id) /\ Effect("delete_announce", 3, id)
  BY DEF Effect, DeletedBy
<1>2. Effect("delete_announce", 2, id)' /\ Effect("delete_announce", 3, id)'
  BY <1>1, EffectKept DEF Handlers
<1>3. QED BY <1>2 DEF Effect, DeletedBy

(* What a call that took its own replies knows when it answers. *)
LEMMA AnswerKnows ==
  ASSUME TypeInv, KnowsInv, NEW t \in Threads, own[t]
  PROVE  /\ Served(t, "announce_deposit") /\ results[t][1] /\ results[t][2] /\ adId[t] \notin deletion =>
              Online(adId[t])
         /\ Served(t, "delete_announce") /\ results[t][2] => adId[t] \notin DOMAIN summary
         /\ Served(t, "delete_announce") /\ results[t][3] => deposits[adId[t]] = Status("OFF")
         /\ announce[t] \in {0, adId[t]}
<1>1. Knows(t)
  BY DEF KnowsInv
<1>2. ASSUME Served(t, "announce_deposit") PROVE op[t] = "announce_deposit" /\ step[t] = 2
  BY <1>2, StepsOf DEF Served
<1>3. ASSUME Served(t, "delete_announce") PROVE op[t] = "delete_announce" /\ step[t] = 3
  BY <1>3, StepsOf DEF Served
<1>4. 1 \in 1..2 /\ 2 \in 1..2 /\ 2 \in 1..3 /\ 3 \in 1..3
  OBVIOUS
<1>5. ASSUME Served(t, "announce_deposit"), results[t][1], results[t][2], adId[t] \notin deletion
      PROVE  Online(adId[t])
  BY <1>1, <1>2, <1>4, <1>5 DEF Knows, Effect, DepositedBy, Online
<1>6. ASSUME Served(t, "delete_announce"), results[t][2] PROVE adId[t] \notin DOMAIN summary
  BY <1>1, <1>3, <1>4, <1>6 DEF Knows, Effect, DeletedBy
<1>7. ASSUME Served(t, "delete_announce"), results[t][3] PROVE deposits[adId[t]] = Status("OFF")
  BY <1>1, <1>3, <1>4, <1>7 DEF Knows, Effect, DeletedBy
<1>8. QED BY <1>1, <1>5, <1>6, <1>7 DEF Knows

(* Steps that tell the users nothing, and delete no media. *)
LEMMA QuietPromised ==
  ASSUME TypeInv, DeletionInv, PutInv, Promised, [Next]_vars, UNCHANGED <<toldOnline, toldDeleted>>,
         \A id \in bucket' \ bucket : id \notin used
  PROVE  Promised'
<1>1. deletion \subseteq deletion'
  BY TablesKept
<1>2. OwnDepositOnline'
  BY <1>1, OnlineKept DEF Promised, OwnDepositOnline
<1>3. \A id \in deletion : id \in used
  BY DEF PutInv, PutsSent
<1>4. OwnDeletionDone'
  BY <1>3, DeletedKept DEF Promised, OwnDeletionDone
<1>5. QED BY <1>1, <1>2, <1>4 DEF Promised

LEMMA AnswerDepositPromised ==
  ASSUME TypeInv, DeletionInv, PutInv, KnowsInv, Promised, [Next]_vars,
         NEW t \in Threads, AnswerDeposit(t)
  PROVE  Promised'
<1>1. UNCHANGED <<summary, deposits, bucket, toldDeleted, deletion>>
  BY DEF AnswerDeposit, tables
<1>2. \A a \in toldOnline' :
        \/ a \in toldOnline
        \/ a = [id |-> adId[t], own |-> own[t]] /\ results[t][1] /\ results[t][2]
  BY Zenon DEF AnswerDeposit
<1>3. Served(t, "announce_deposit")
  BY DEF AnswerDeposit
<1>4. ASSUME NEW a \in toldOnline', a.own, a.id \notin deletion PROVE Online(a.id)
  <2>1. CASE a \in toldOnline
    BY <1>4, <2>1 DEF Promised, OwnDepositOnline
  <2>2. CASE a = [id |-> adId[t], own |-> own[t]] /\ results[t][1] /\ results[t][2]
    BY <1>3, <1>4, <2>2, AnswerKnows
  <2>3. QED BY <1>2, <2>1, <2>2
<1>5. OwnDepositOnline'
  BY <1>1, <1>4 DEF OwnDepositOnline, Online
<1>6. QED BY <1>1, <1>5 DEF Promised, OwnDeletionDone

LEMMA AnswerDeletePromised ==
  ASSUME TypeInv, DeletionInv, PutInv, KnowsInv, Promised, [Next]_vars,
         NEW t \in Threads, AnswerDelete(t)
  PROVE  Promised'
<1>1. UNCHANGED <<summary, deposits, toldOnline, deletion>>
  BY DEF AnswerDelete
<1>2. \/ UNCHANGED toldDeleted
      \/ /\ toldDeleted' = toldDeleted \cup {[id |-> adId[t], own |-> own[t]]}
         /\ results[t][2] /\ results[t][3] /\ announce[t] # 0 /\ bucket' = bucket \ {announce[t]}
  BY Zenon DEF AnswerDelete
<1>3. bucket' \subseteq bucket
  <2>1. UNCHANGED bucket \/ bucket' = bucket \ {announce[t]}
    BY Zenon DEF AnswerDelete
  <2>2. QED BY <2>1
<1>4. Served(t, "delete_announce") /\ adId[t] \in deletion
  BY DEF AnswerDelete, Served, DeletionInv
<1>5. OwnDepositOnline'
  BY <1>1 DEF Promised, OwnDepositOnline, Online
<1>6. ASSUME NEW a \in toldDeleted' \ toldDeleted
      PROVE  /\ a.id \in deletion
             /\ a.own => /\ a.id \notin DOMAIN summary /\ deposits[a.id] = Status("OFF")
                         /\ a.id \notin bucket'
  <2>1. /\ a.id = adId[t] /\ a.own = own[t]
        /\ results[t][2] /\ results[t][3] /\ announce[t] # 0 /\ bucket' = bucket \ {announce[t]}
    BY <1>2, <1>6
  <2>2. a.own => announce[t] = adId[t]
    BY <2>1, AnswerKnows
  <2>3. QED BY <1>4, <2>1, <2>2, AnswerKnows
<1>7. \A a \in toldDeleted' : a.id \in deletion
  BY <1>6 DEF Promised
<1>8. OwnDeletionDone'
  BY <1>1, <1>3, <1>6 DEF Promised, OwnDeletionDone
<1>9. QED BY <1>1, <1>5, <1>7, <1>8 DEF Promised

LEMMA NextPromised ==
  ASSUME TypeInv, DeletionInv, PutInv, KnowsInv, Promised, [Next]_vars
  PROVE  Promised'
<1> USE DEF tables, channel, threads, told
<1>1. CASE UNCHANGED vars
  BY <1>1, QuietPromised DEF vars
<1>2. ASSUME NEW t \in Threads, NEW id \in IDs, announce_deposit(t, id) \/ delete_announce(t, id)
      PROVE  Promised'
  <2>1. UNCHANGED <<toldOnline, toldDeleted>> /\ \A x \in bucket' \ bucket : x \notin used
    BY <1>2 DEF announce_deposit, delete_announce, Begin
  <2>2. QED BY <2>1, QuietPromised
<1>3. CASE Serve
  BY <1>3, QuietPromised DEF Serve
<1>4. ASSUME NEW t \in Threads, Send(t) \/ Receive(t) PROVE Promised'
  <2>1. UNCHANGED <<toldOnline, toldDeleted, bucket>>
    BY <1>4 DEF Send, Receive
  <2>2. QED BY <2>1, QuietPromised
<1>5. QED BY <1>1, <1>2, <1>3, <1>4, AnswerDepositPromised, AnswerDeletePromised DEF Next, Handle

-----------------------------------------------------------------------------
LEMMA InitDeposit == ASSUME DepositAssumption, Init PROVE DepositInv
<1>1. TypeInv
  BY InitType
<1>2. Len(requests) = 0 /\ 1..0 = {}
  BY EmptySeq DEF Init
<1>3. DeletionInv /\ PutInv
  BY <1>2 DEF Init, DeletionInv, PutInv, EmptyTable
<1>4. MessageInv
  BY DEF Init, MessageInv
<1>5. KnowsInv
  BY DEF Init, KnowsInv, Knows
<1>6. Promised
  BY DEF Init, Promised, OwnDepositOnline, OwnDeletionDone
<1>7. QED BY <1>1, <1>3, <1>4, <1>5, <1>6 DEF DepositInv

LEMMA NextDeposit == ASSUME DepositAssumption, DepositInv, [Next]_vars PROVE DepositInv'
  BY NextType, NextDeletion, NextPut, NextMessage, NextKnows, NextPromised DEF DepositInv

(* Whoever takes whose reply, a user whose call took its own and who is told that his ad is on
   line has an ad that the site shows and that he can delete, until he asks for that: in every
   reachable state, for any threads, ads and deletions. *)
THEOREM OwnDepositOnlineHolds == ASSUME DepositAssumption PROVE Spec => []OwnDepositOnline
<1>1. Init => DepositInv
  BY InitDeposit
<1>2. DepositInv /\ [Next]_vars => DepositInv'
  BY NextDeposit
<1>3. DepositInv => OwnDepositOnline
  BY DEF DepositInv, Promised
<1>4. QED BY <1>1, <1>2, <1>3, PTL DEF Spec

(* An owner who is told so, by a call that took its own replies, has his ad off the site and off
   his list, and its media out of the bucket: no put under way brings it back. *)
THEOREM OwnDeletionDoneHolds == ASSUME DepositAssumption PROVE Spec => []OwnDeletionDone
<1>1. Init => DepositInv
  BY InitDeposit
<1>2. DepositInv /\ [Next]_vars => DepositInv'
  BY NextDeposit
<1>3. DepositInv => OwnDeletionDone
  BY DEF DepositInv, Promised
<1>4. QED BY <1>1, <1>2, <1>3, PTL DEF Spec

MediaKept ==
  \A t \in Threads : op[t] = "delete_announce" /\ own[t] /\ bucket' # bucket /\ step'[t] # step[t]
    => (bucket \ bucket') \cap DOMAIN summary = {}

LEMMA NextMediaKept == ASSUME DepositInv, Next PROVE MediaKept
<1> USE DEF tables, channel, threads, told
<1>1. ASSUME NEW t \in Threads, NEW id \in IDs, announce_deposit(t, id) \/ delete_announce(t, id)
      PROVE  UNCHANGED step
  BY <1>1 DEF announce_deposit, delete_announce, Begin
<1>2. ASSUME NEW t \in Threads, AnswerDelete(t), own[t], bucket' # bucket
      PROVE  (bucket \ bucket') \cap DOMAIN summary = {}
  <2>1. Served(t, "delete_announce") /\ results[t][2] /\ announce[t] # 0 /\ bucket' = bucket \ {announce[t]}
    BY <1>2, Zenon DEF AnswerDelete
  <2>2. announce[t] = adId[t] /\ adId[t] \notin DOMAIN summary
    BY <1>2, <2>1, AnswerKnows DEF DepositInv
  <2>3. QED BY <2>1, <2>2
<1>3. ASSUME NEW t \in Threads, AnswerDelete(t)
      PROVE  \A u \in Threads : u # t => step'[u] = step[u]
  BY <1>3 DEF AnswerDelete, End, DepositInv, TypeInv, ThreadsOK
<1>4. CASE Serve \/ \E t \in Threads : Send(t) \/ Receive(t) \/ AnswerDeposit(t)
  <2>1. UNCHANGED bucket
    BY <1>4 DEF Serve, Send, Receive, AnswerDeposit
  <2>2. QED BY <2>1 DEF MediaKept
<1>5. QED BY <1>1, <1>2, <1>3, <1>4 DEF Next, Handle, MediaKept

(* No deletion that took its own replies removes the media of an ad that the site still shows. *)
THEOREM OwnMediaKeptHolds == ASSUME DepositAssumption PROVE Spec => OwnMediaKept
<1>1. Init => DepositInv
  BY InitDeposit
<1>2. DepositInv /\ [Next]_vars => DepositInv'
  BY NextDeposit
<1>3. DepositInv /\ [Next]_vars => [MediaKept]_vars
  BY NextMediaKept
<1>4. Spec => [][MediaKept]_vars
  BY <1>1, <1>2, <1>3, PTL DEF Spec
<1>5. QED BY <1>4 DEF OwnMediaKept, MediaKept
=============================================================================
