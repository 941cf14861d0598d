--------------------------- MODULE DepositService ---------------------------
(***************************************************************************)
(* The deposit service: users deposit ads of their own, and delete them.   *)
(* An ad is an item of FR_SUMMARY, where the site shows it, an item of the *)
(* table of deposits, where its owner finds it, and photos or a video in a *)
(* bucket.  The service is a TThreadedServer whose threads all call        *)
(* dynamodb_access through one Thrift client, with one connection and no   *)
(* lock.  dynamodb_access serves a connection's requests in their order,   *)
(* and a thread that waits for a reply takes the first there is: generated *)
(* clients read neither the name nor the number of a reply.  Requests and  *)
(* replies are written and read whole here.                                *)
(***************************************************************************)
EXTENDS DynamoTable, Sequences, FiniteSets

CONSTANTS
  Threads,
  IDs,           \* the IDs of deposits: hashes of the user and the time, never used twice
  VideoIDs,      \* those with a video; the others have photos
  MaxDeletes     \* bound: the delete_announce calls

ASSUME DepositAssumption ==
  /\ IsFiniteSet(Threads)
  /\ VideoIDs \subseteq IDs /\ IDs \subseteq Nat \ {0} /\ MaxDeletes \in Nat

VARIABLES
  summary, deposits,     \* summary_tablename and deposit_tablename, in DynamoDB
  bucket,                \* the ads whose media are in the bucket
  requests, replies,     \* what is under way on the connection of self.client
  op, adId,              \* the call each thread serves, and the ad it is about
  step,                  \* the replies it has taken
  waiting,               \* whether it waits for one
  results,               \* whether each reply said success
  announce,              \* the ad its get returned, 0 if none
  deletes,
  \* History: the IDs hashed; whether all the replies of the call were its own; what the users
  \* were told, and which ads they asked to delete.
  used, own, toldOnline, toldDeleted, deletion

tables  == <<summary, deposits, bucket>>
channel == <<requests, replies>>
threads == <<op, adId, step, waiting, results, announce, own>>
told    == <<used, toldOnline, toldDeleted, deletion>>
vars    == <<tables, channel, threads, deletes, told>>

(* The remote calls of each handler, in their order *)
Steps(handler) ==
  CASE handler = "announce_deposit" -> <<[fun |-> "put", tablename |-> "summary"],
                                         [fun |-> "put", tablename |-> "deposits"]>>
    [] handler = "delete_announce"  -> <<[fun |-> "get", tablename |-> "deposits"],
                                         [fun |-> "remove", tablename |-> "summary"],
                                         [fun |-> "update", tablename |-> "deposits"]>>
    [] OTHER -> <<>>

Handlers == {"announce_deposit", "delete_announce"}
Status(s) == [AD_STATUS |-> s]

Init ==
  /\ summary = EmptyTable /\ deposits = EmptyTable /\ bucket = {}
  /\ requests = <<>> /\ replies = <<>>
  /\ op = [t \in Threads |-> "none"] /\ adId = [t \in Threads |-> 0]
  /\ step = [t \in Threads |-> 0] /\ waiting = [t \in Threads |-> FALSE]
  /\ results = [t \in Threads |-> <<>>] /\ announce = [t \in Threads |-> 0]
  /\ deletes = 0
  /\ used = {} /\ own = [t \in Threads |-> TRUE]
  /\ toldOnline = {} /\ toldDeleted = {} /\ deletion = {}

-----------------------------------------------------------------------------
Begin(t, handler, id) ==
  /\ op[t] = "none"
  /\ op' = [op EXCEPT ![t] = handler] /\ adId' = [adId EXCEPT ![t] = id]
  /\ own' = [own EXCEPT ![t] = TRUE]
  /\ UNCHANGED <<summary, deposits, channel, step, waiting, results, announce, toldOnline, toldDeleted>>

(* The page of the site uploads the media first, under names never used twice. *)
announce_deposit(t, id) ==
  /\ id \notin used /\ used' = used \cup {id}
  /\ Begin(t, "announce_deposit", id)
  /\ bucket' = bucket \cup {id}
  /\ UNCHANGED <<deletes, deletion>>

(* The owner has found the ad in the table of deposits, in which items stay. *)
delete_announce(t, id) ==
  /\ deletes < MaxDeletes /\ deletes' = deletes + 1
  /\ id \in DOMAIN deposits
  /\ Begin(t, "delete_announce", id)
  /\ deletion' = deletion \cup {id}
  /\ UNCHANGED <<bucket, used>>

(* The thread writes its next request, whatever the replies before it said. *)
Send(t) ==
  /\ ~waiting[t] /\ step[t] < Len(Steps(op[t]))
  /\ requests' = Append(requests, [call |-> Steps(op[t])[step[t] + 1], id |-> adId[t], thread |-> t])
  /\ waiting' = [waiting EXCEPT ![t] = TRUE]
  /\ UNCHANGED <<tables, replies, op, adId, step, results, announce, own, deletes, told>>

-----------------------------------------------------------------------------
(* dynamodb_access executes the first request, or fails to.  It also answers a failure when
   DynamoDB has executed it and the response was lost: a put tried again is refused. *)
Execute(call, id) ==
  CASE call.fun = "put" /\ call.tablename = "summary" ->
         summary' = PutItem(summary, id, Status("ON")) /\ UNCHANGED deposits
    [] call.fun = "put" /\ call.tablename = "deposits" ->
         deposits' = PutItem(deposits, id, Status("ON")) /\ UNCHANGED summary
    [] call.fun = "remove" -> summary' = DeleteItem(summary, id) /\ UNCHANGED deposits
    [] call.fun = "update" -> deposits' = UpdateItem(deposits, id, Status("OFF")) /\ UNCHANGED summary
    [] OTHER -> UNCHANGED <<summary, deposits>>

Serve ==
  /\ requests # <<>>
  /\ LET r == Head(requests)
         reply(success) ==
           [fun |-> r.call.fun, success |-> success, thread |-> r.thread,
            values |-> IF success /\ r.call.fun = "get" /\ r.id \in DOMAIN deposits THEN r.id ELSE 0]
     IN  \/ Execute(r.call, r.id) /\ \E success \in BOOLEAN : replies' = Append(replies, reply(success))
         \/ UNCHANGED <<summary, deposits>> /\ replies' = Append(replies, reply(FALSE))
  /\ requests' = Tail(requests)
  /\ UNCHANGED <<bucket, threads, deletes, told>>

-----------------------------------------------------------------------------
(* Seeded fault: the results are kept, as a member of the handler would be. *)
EndKeepingResults(t) ==
  /\ op' = [op EXCEPT ![t] = "none"] /\ adId' = [adId EXCEPT ![t] = 0]
  /\ step' = [step EXCEPT ![t] = 0]
  /\ results' = results /\ announce' = [announce EXCEPT ![t] = 0]

(* The thread that serves the call forgets it. *)
End(t) ==
  /\ op' = [op EXCEPT ![t] = "none"] /\ adId' = [adId EXCEPT ![t] = 0]
  /\ step' = [step EXCEPT ![t] = 0]
  /\ results' = [results EXCEPT ![t] = <<>>] /\ announce' = [announce EXCEPT ![t] = 0]

(* Seeded fault: the client drops a reply to another function, and goes on waiting. *)
ReceiveOwn(t) ==
  /\ waiting[t] /\ replies # <<>>
  /\ LET r == Head(replies)
     IN  IF r.fun = Steps(op[t])[step[t] + 1].fun
         THEN /\ waiting' = [waiting EXCEPT ![t] = FALSE]
              /\ step' = [step EXCEPT ![t] = @ + 1]
              /\ results' = [results EXCEPT ![t] = Append(@, r.success)]
         ELSE UNCHANGED <<waiting, step, results>>
  /\ replies' = Tail(replies)
  /\ UNCHANGED <<tables, requests, op, adId, announce, own, deletes, told>>

(* Those who have sent the requests that are under way: the last one of a thread is the one
   whose reply it waits for. *)
Askers(messages) == {messages[i].thread : i \in 1..Len(messages)}

(* The thread takes the first reply.  One to a get has no result where the other functions look
   for it, and reads as a failure; one to another function has none for a get, and raises. *)
Receive(t) ==
  /\ waiting[t] /\ replies # <<>>
  /\ LET r   == Head(replies)
         fun == Steps(op[t])[step[t] + 1].fun
     IN  /\ own' = [own EXCEPT ![t] = @ /\ r.thread = t /\ t \notin Askers(Tail(replies) \o requests)]
         /\ IF fun = "get" /\ r.fun # "get"
            THEN End(t)
            ELSE /\ step' = [step EXCEPT ![t] = @ + 1]
                 /\ results' = [results EXCEPT ![t] = Append(@, r.success /\ (r.fun = "get" <=> fun = "get"))]
                 /\ announce' = [announce EXCEPT ![t] = IF fun = "get" THEN r.values ELSE @]
                 /\ UNCHANGED <<op, adId>>
  /\ replies' = Tail(replies)
  /\ waiting' = [waiting EXCEPT ![t] = FALSE]
  /\ UNCHANGED <<tables, requests, deletes, told>>

Served(t, handler) == op[t] = handler /\ step[t] = Len(Steps(handler)) /\ ~waiting[t]

(* Seeded faults: a success is told when one of the two calls has succeeded. *)
TellAnyDeposit(t) ==
  /\ Served(t, "announce_deposit")
  /\ IF results[t][1] \/ results[t][2]
     THEN toldOnline' = toldOnline \cup {[id |-> adId[t], own |-> own[t]]}
     ELSE UNCHANGED toldOnline
  /\ End(t)
  /\ UNCHANGED <<tables, channel, waiting, own, deletes, used, toldDeleted, deletion>>

(* When both puts have succeeded the user is mailed "Votre annonce est en ligne", and told so;
   the mail server may raise, and an ad with a video always does: it has no images. *)
AnswerDeposit(t) ==
  /\ Served(t, "announce_deposit")
  /\ \/ /\ results[t][1] /\ results[t][2] /\ adId[t] \notin VideoIDs
        /\ toldOnline' = toldOnline \cup {[id |-> adId[t], own |-> own[t]]}
     \/ UNCHANGED toldOnline
  /\ End(t)
  /\ UNCHANGED <<tables, channel, waiting, own, deletes, used, toldDeleted, deletion>>

(* Seeded faults: a success is told when one of the calls has succeeded; the media are deleted
   whether or not the ad is. *)
TellAnyDeletion(t) ==
  /\ Served(t, "delete_announce")
  /\ IF results[t][2] \/ results[t][3]
     THEN toldDeleted' = toldDeleted \cup {[id |-> adId[t], own |-> own[t]]}
     ELSE UNCHANGED toldDeleted
  /\ End(t)
  /\ UNCHANGED <<tables, channel, waiting, own, deletes, used, toldOnline, deletion>>

DeleteMediaFirst(t) ==
  /\ Served(t, "delete_announce")
  /\ bucket' = bucket \ {announce[t]}
  /\ End(t)
  /\ UNCHANGED <<summary, deposits, channel, waiting, own, deletes, told>>

(* When both have succeeded the media of the ad the get returned are deleted, and the user is
   mailed and told.  It raises without such an ad, for a video deleted before, and when the
   bucket or the mail server does. *)
AnswerDelete(t) ==
  /\ Served(t, "delete_announce")
  /\ \/ /\ results[t][2] /\ results[t][3] /\ announce[t] # 0
        /\ announce[t] \in VideoIDs => announce[t] \in bucket
        /\ bucket' = bucket \ {announce[t]}
        /\ \/ toldDeleted' = toldDeleted \cup {[id |-> adId[t], own |-> own[t]]}
           \/ UNCHANGED toldDeleted
     \/ UNCHANGED <<bucket, toldDeleted>>
  /\ End(t)
  /\ UNCHANGED <<summary, deposits, channel, waiting, own, deletes, used, toldOnline, deletion>>

Handle(t) == Send(t) \/ Receive(t) \/ AnswerDeposit(t) \/ AnswerDelete(t)

Next ==
  \/ \E t \in Threads, id \in IDs : announce_deposit(t, id) \/ delete_announce(t, id)
  \/ Serve
  \/ \E t \in Threads : Handle(t)

Spec == Init /\ [][Next]_vars

(* The threads of both services run, and the remote calls return. *)
FairSpec == Spec /\ WF_vars(Serve) /\ \A t \in Threads : WF_vars(Handle(t))

-----------------------------------------------------------------------------
Ads == [id : IDs, own : BOOLEAN]

(* Values have the types the code gives them. *)
TypeOK ==
  /\ used \subseteq IDs
  /\ DOMAIN summary \subseteq IDs /\ DOMAIN deposits \subseteq IDs /\ bucket \subseteq IDs
  /\ \A id \in DOMAIN summary : summary[id] = Status("ON")
  /\ \A id \in DOMAIN deposits : deposits[id] \in {Status("ON"), Status("OFF")}
  /\ op \in [Threads -> Handlers \cup {"none"}] /\ adId \in [Threads -> IDs \cup {0}]
  /\ step \in [Threads -> 0..3] /\ waiting \in [Threads -> BOOLEAN]
  /\ \A t \in Threads : results[t] \in Seq(BOOLEAN) /\ Len(results[t]) = step[t]
  /\ announce \in [Threads -> IDs \cup {0}] /\ own \in [Threads -> BOOLEAN]
  /\ deletes \in 0..MaxDeletes
  /\ toldOnline \subseteq Ads /\ toldDeleted \subseteq Ads /\ deletion \subseteq IDs

(* Whoever takes whose reply, the connection has exactly one request or reply for each thread
   that waits: none is left over to mislead the calls that come later. *)
OneReplyEach ==
  Len(requests) + Len(replies) = Cardinality({t \in Threads : waiting[t]})

Online(id) == id \in DOMAIN summary /\ id \in DOMAIN deposits /\ deposits[id] = Status("ON")

(* A user who is told "Votre annonce est en ligne", by a call that took its own replies, has an
   ad that the site shows and that he can find and delete, until he asks for that. *)
OwnDepositOnline == \A a \in toldOnline : a.own /\ a.id \notin deletion => Online(a.id)

(* The same of every user who is told so. *)
DepositOnline == \A a \in toldOnline : a.id \notin deletion => Online(a.id)

(* An ad whose owner is told that it is deleted, by a call that took its own replies, is off the
   site and off his list for good, and has no media left. *)
OwnDeletionDone ==
  \A a \in toldDeleted : a.own => a.id \notin DOMAIN summary /\ deposits[a.id] = Status("OFF")
                                 /\ a.id \notin bucket

(* A call that took its own replies never deletes the media of an ad the site shows. *)
OwnMediaKept ==
  [][\A t \in Threads : op[t] = "delete_announce" /\ own[t] /\ bucket' # bucket /\ step'[t] # step[t]
        => (bucket \ bucket') \cap DOMAIN summary = {}]_vars

(* Every call comes to an end, even when its replies are taken by others. *)
CallsEnd == \A t \in Threads : []<>(op[t] = "none")

=============================================================================
