----------------------------- MODULE Rpc_proofs -----------------------------
(* What comes back from a call through the stubs, for any threads, scripts of calls and structs. *)
EXTENDS Rpc, FiniteSetTheorems, SequenceTheorems, TLAPS

(* The invariant.  A call that is under way is in one place: it is a request, or being served, or
   answered, or lost with its connection. *)
MethodOf(c) == scenario.calls[c]
Structs(c) == ClientStubs[MethodOf(c)]
Request(c) == Message(MethodOf(c), "call", Write(Structs(c).args, Names(Structs(c).args), c))

(* m answers c: it says what the only execution of c did. *)
Answered(c, m) ==
  \/ /\ m.type = "exception"
     /\ MethodOf(c) \notin DOMAIN ServerStubs \/ Failed(c)
  \/ /\ m.type = "reply" /\ m.name = MethodOf(c)
     /\ \E i \in DOMAIN executed :
          /\ ExecutionsOf(c) = {i}
          /\ executed[i].name = MethodOf(c) /\ executed[i].answer \subseteq Names(Structs(c).result)
          /\ m.body = Write(Structs(c).result, executed[i].answer, i)

SentInv(c) ==
  LET k == c[1]
  IN  /\ conns[k].used
      /\ \/ /\ conns[k].state = "open" /\ conns[k].requests = <<Request(c)>> /\ conns[k].replies = <<>>
            /\ serving[k] \in {None, Reading} /\ ExecutionsOf(c) = {}
         \/ /\ conns[k].state = "open" /\ conns[k].requests = <<>> /\ conns[k].replies = <<>>
            /\ serving[k] \notin {None, Reading}
            /\ serving[k] = Replying(serving[k][2]) /\ Answered(c, serving[k][2])
         \/ /\ conns[k].requests = <<>>
            /\ conns[k].replies # <<>> /\ conns[k].replies = <<conns[k].replies[1]>>
            /\ Answered(c, conns[k].replies[1])
            /\ \/ conns[k].state = "open" /\ serving[k] = Reading
               \/ conns[k].state = "broken" /\ serving[k] = None
         \/ /\ conns[k].state = "broken" /\ conns[k].requests = <<>> /\ conns[k].replies = <<>>
            /\ serving[k] = None

CallInv(c) ==
  /\ calls[c].state \in {"new", "sent", "returned", "raised"}
  /\ calls[c].state = "new" => ExecutionsOf(c) = {}
  /\ calls[c].state = "sent" => SentInv(c)
  /\ calls[c].state = "returned" => \E i \in DOMAIN executed :
       /\ ExecutionsOf(c) = {i} /\ executed[i].name = MethodOf(c)
       /\ calls[c].value = [n \in Names(Structs(c).result) |->
                              IF n \in executed[i].answer THEN <<i, n>> ELSE Unset]
  /\ calls[c].state = "raised" /\ restarts = 0 =>
       \/ MethodOf(c) \notin DOMAIN ServerStubs
       \/ Failed(c)
       \/ /\ scenario.python /\ c[1] \in scenario.keeps
          /\ \E b \in Calls : b[1] = c[1] /\ b[2] < c[2] /\ Failed(b)

(* Between its calls a thread leaves nothing on its connection, and a connection that is cut while
   the server stays up was cut by a handler that failed. *)
ThreadInv(t) ==
  /\ conns[t] = [state |-> conns[t].state, used |-> conns[t].used,
                 requests |-> conns[t].requests, replies |-> conns[t].replies]
  /\ (\A c \in Calls : c[1] = t => calls[c].state # "sent") =>
       /\ conns[t].requests = <<>> /\ conns[t].replies = <<>>
       /\ \/ conns[t].state = "open" /\ serving[t] \in {None, Reading}
          \/ conns[t].state \in {"closed", "broken"} /\ serving[t] = None
          \/ conns[t].state = "hung up" /\ serving[t] = Reading
  /\ conns[t].state = "broken" /\ restarts = 0 =>
       /\ scenario.python /\ conns[t].used
       /\ \E b \in Calls :
            /\ b[1] = t /\ Failed(b) /\ calls[b].state # "new"
            /\ \A c \in Calls : c[1] = t /\ calls[c].state = "sent" =>
                                 b = c \/ (t \in scenario.keeps /\ b[2] < c[2])

(* A thread makes its calls in their order, one at a time. *)
OrderInv ==
  \A c, d \in Calls : c[1] = d[1] /\ Pending(d) =>
    /\ calls[c].state = "sent" => c[2] <= d[2]
    /\ calls[c].state \in {"returned", "raised"} => c[2] < d[2]

StateInv ==
  /\ scenario \in Scenarios /\ restarts \in Nat
  /\ DOMAIN calls = Calls /\ DOMAIN conns = Threads /\ DOMAIN serving = Threads

RpcInv ==
  /\ StateInv /\ OrderInv
  /\ \A c \in Calls : CallInv(c)
  /\ \A t \in Threads : ThreadInv(t)

IsSequence == \E S : executed \in Seq(S)

-----------------------------------------------------------------------------
(* The calls of a thread that are not over have a first one. *)
LEMMA LeastIsFound ==
  ASSUME NEW N \in Nat, NEW S \in SUBSET (1..N), S # {}
  PROVE  Min(S) \in S /\ \A i \in S : Min(S) <= i
<1> DEFINE upTo == {1..i : i \in S}
<1>1. IsFiniteSet(1..N)
  BY FS_Interval
<1>2. IsWellFoundedOn(StrictSubsetOrdering(1..N), FiniteSubsetsOf(1..N))
  BY <1>1, FS_StrictSubsetOrderingWellFounded
<1>3. upTo \subseteq FiniteSubsetsOf(1..N) /\ upTo # {}
  <2>1. \A i \in S : 1..i \subseteq 1..N /\ IsFiniteSet(1..i)
    BY FS_Interval
  <2> HIDE DEF upTo
  <2>2. \A T \in upTo : T \subseteq 1..N /\ IsFiniteSet(T)
    BY <2>1 DEF upTo
  <2>3. upTo # {}
    BY DEF upTo
  <2>4. QED BY <2>2, <2>3 DEF FiniteSubsetsOf
<1>4. PICK first \in upTo : \A other \in upTo : ~ (<<other, first>> \in StrictSubsetOrdering(1..N))
  BY <1>2, <1>3, WFMin
<1>5. PICK i \in S : first = 1..i
  BY <1>4
<1>6. ASSUME NEW j \in S, j < i  PROVE FALSE
  <2>1. 1..j \in upTo /\ 1..j \subseteq 1..i /\ i \notin 1..j /\ i \in 1..i
    BY <1>6
  <2>2. <<1..j, 1..i>> \in StrictSubsetOrdering(1..N)
    BY <2>1, <1>5 DEF StrictSubsetOrdering
  <2>3. QED BY <1>4, <1>5, <2>1, <2>2
<1>7. \A j \in S : i <= j
  BY <1>6
<1>8. QED BY <1>7 DEF Min

(* What is written is read, field by field. *)
LEMMA ReadsWhatIsWritten ==
  ASSUME NEW struct, Distinct(struct), NEW names, NEW of
  PROVE  Read(struct, Write(struct, names, of)) =
           [n \in Names(struct) |-> IF n \in names THEN <<of, n>> ELSE Unset]
<1> SUFFICES ASSUME NEW n \in Names(struct)
             PROVE  Read(struct, Write(struct, names, of))[n] = IF n \in names THEN <<of, n>> ELSE Unset
  BY DEF Read
<1> DEFINE field == CHOOSE f \in struct : f.name = n
           wire  == Write(struct, names, of)
           found == {w \in wire : w.path = field.path /\ w.type = field.type}
<1>1. field \in struct /\ field.name = n
  BY DEF Names
<1>2. Read(struct, wire)[n] = IF found = {} THEN Unset ELSE (CHOOSE w \in found : TRUE).value
  BY DEF Read
<1>3. \A w : w \in wire <=> \E g \in struct : /\ g.name \in names
                                               /\ w = [path |-> g.path, type |-> g.type, value |-> <<of, g.name>>]
  BY DEF Write
<1> HIDE DEF field, wire
<1>4. \A w \in found : w.value = <<of, n>>
  BY <1>1, <1>3 DEF Distinct
<1>5. found # {} <=> n \in names
  <2>1. ASSUME NEW w \in found  PROVE n \in names
    BY <1>1, <1>3, <2>1 DEF Distinct
  <2>2. ASSUME n \in names  PROVE found # {}
    <3> DEFINE written == [path |-> field.path, type |-> field.type, value |-> <<of, field.name>>]
    <3>1. written \in wire
      BY <1>1, <1>3, <2>2
    <3>2. written.path = field.path /\ written.type = field.type
      OBVIOUS
    <3>3. QED BY <3>1, <3>2
  <2>3. QED BY <2>1, <2>2
<1>6. found # {} => (CHOOSE w \in found : TRUE) \in found
  OBVIOUS
<1> HIDE DEF found
<1>7. Read(struct, wire)[n] = IF n \in names THEN <<of, n>> ELSE Unset
  BY <1>2, <1>4, <1>5, <1>6
<1>8. QED BY <1>7 DEF wire

-----------------------------------------------------------------------------
LEMMA OneMessage ==
  \A m : /\ Append(<<>>, m) = <<m>> /\ Head(<<m>>) = m /\ Tail(<<m>>) = <<>>
         /\ <<m>> # <<>> /\ <<m>>[1] = m
  OBVIOUS

LEMMA ServerStates ==
  /\ None # Reading
  /\ \A m : Replying(m) \notin {None, Reading} /\ Replying(m)[2] = m
  BY DEF None, Reading, Replying

LEMMA Messages ==
  \A name, type, body : LET m == Message(name, type, body)
                        IN  m.name = name /\ m.type = type /\ m.body = body
  BY DEF Message

(* A call has a thread and a number. *)
LEMMA CallsArePairs ==
  ASSUME StubsAssumption, StateInv
  PROVE  \A c \in Calls : /\ c[1] \in Threads /\ c[2] \in 1..MaxCalls /\ c = <<c[1], c[2]>>
                          /\ MethodOf(c) \in DOMAIN ClientStubs
  BY DEF StubsAssumption, StateInv, Calls, AllCalls, MethodOf, ClientStubs

(* What the assumption says of the structs of a call. *)
LEMMA StructsOfCalls ==
  ASSUME StubsAssumption, StateInv, NEW c \in Calls
  PROVE  /\ Structs(c).args # {} /\ Distinct(Structs(c).args) /\ Distinct(Structs(c).result)
         /\ MethodOf(c) \in DOMAIN ServerStubs => ServerStubs[MethodOf(c)] = Structs(c)
  BY CallsArePairs DEF StubsAssumption, StateInv, Structs, ClientStubs, ServerStubs

(* The arguments tell which call they are of. *)
LEMMA ArgumentsTell ==
  ASSUME StubsAssumption, StateInv, NEW c \in Calls, NEW d \in Calls, Sent(c) = Sent(d)
  PROVE  c = d
<1>1. PICK f \in Structs(c).args : TRUE
  BY StructsOfCalls
<1>2. f.name \in DOMAIN Sent(c)
  BY <1>1 DEF Sent, Names, Structs, MethodOf
<1>3. Sent(c)[f.name] = <<c, f.name>> /\ Sent(d)[f.name] = <<d, f.name>>
  BY <1>2 DEF Sent
<1>4. QED BY <1>3

(* The call a thread is at is its first that is not over. *)
LEMMA CurrentIsFirst ==
  ASSUME StubsAssumption, StateInv, NEW t \in Threads, HasCall(t)
  PROVE  /\ Current(t) \in Calls /\ Current(t)[1] = t /\ Pending(Current(t))
         /\ \A d \in Calls : d[1] = t /\ Pending(d) => Current(t)[2] <= d[2]
<1> DEFINE rest == {i \in 1..MaxCalls : Pending(<<t, i>>)}
<1>1. rest # {} /\ rest \in SUBSET (1..MaxCalls) /\ MaxCalls \in Nat
  BY DEF HasCall, StubsAssumption
<1>2. Min(rest) \in rest /\ \A i \in rest : Min(rest) <= i
  <2> HIDE DEF rest
  <2>1. QED BY <1>1, LeastIsFound
<1>3. Current(t) = <<t, Min(rest)>>
  BY DEF Current
<1>4. Pending(Current(t)) /\ Current(t)[1] = t /\ Current(t)[2] = Min(rest)
  BY <1>2, <1>3
<1>5. Current(t) \in Calls
  BY <1>4 DEF Pending
<1>6. ASSUME NEW d \in Calls, d[1] = t, Pending(d)  PROVE Min(rest) <= d[2]
  <2>1. d[2] \in rest
    BY <1>6, CallsArePairs
  <2>2. QED BY <1>2, <2>1
<1>7. QED BY <1>4, <1>5, <1>6

(* A thread waits for at most one call, its current one. *)
LEMMA OneIsSent ==
  ASSUME StubsAssumption, RpcInv, NEW t \in Threads, HasCall(t),
         NEW c \in Calls, c[1] = t, calls[c].state = "sent"
  PROVE  c = Current(t)
<1>1. /\ Current(t) \in Calls /\ Current(t)[1] = t /\ Pending(Current(t))
      /\ \A d \in Calls : d[1] = t /\ Pending(d) => Current(t)[2] <= d[2]
  BY CurrentIsFirst DEF RpcInv
<1>2. Pending(c)
  BY DEF Pending
<1>3. c[2] <= Current(t)[2] /\ Current(t)[2] <= c[2]
  BY <1>1, <1>2 DEF RpcInv, OrderInv
<1>4. c[2] \in Int /\ Current(t)[2] \in Int
  BY <1>1, CallsArePairs DEF RpcInv, StubsAssumption
<1>5. c[2] = Current(t)[2]
  BY <1>3, <1>4
<1>6. QED BY <1>1, <1>5, CallsArePairs DEF RpcInv

-----------------------------------------------------------------------------
(* What a step leaves alone. *)
LEMMA SameScenario ==
  ASSUME scenario' = scenario
  PROVE  /\ Calls' = Calls /\ ClientStubs' = ClientStubs /\ ServerStubs' = ServerStubs
         /\ \A c : /\ MethodOf(c)' = MethodOf(c) /\ Structs(c)' = Structs(c)
                   /\ Request(c)' = Request(c) /\ Sent(c)' = Sent(c)
<1>1. Calls' = Calls /\ ClientStubs' = ClientStubs /\ ServerStubs' = ServerStubs
  BY DEF Calls, ClientStubs, ServerStubs
<1> SUFFICES ASSUME NEW c
             PROVE  /\ MethodOf(c)' = MethodOf(c) /\ Structs(c)' = Structs(c)
                    /\ Request(c)' = Request(c) /\ Sent(c)' = Sent(c)
  BY <1>1
<1>2. MethodOf(c)' = MethodOf(c) /\ Structs(c)' = Structs(c)
  BY <1>1 DEF MethodOf, Structs
<1>3. Request(c)' = Request(c)
  BY <1>2 DEF Request
<1>4. Sent(c)' = Sent(c)
  BY <1>1 DEF Sent
<1>5. QED BY <1>2, <1>3, <1>4

Grown == /\ DOMAIN executed \subseteq DOMAIN executed'
         /\ \A i \in DOMAIN executed : executed'[i] = executed[i]
Kept(c) == ExecutionsOf(c)' = ExecutionsOf(c)

LEMMA WhatIsDoneStays ==
  ASSUME scenario' = scenario, Grown, NEW c
  PROVE  /\ Failed(c) => Failed(c)'
         /\ Kept(c) => \A m : Answered(c, m) => Answered(c, m)'
<1>1. ExecutionsOf(c) \subseteq ExecutionsOf(c)' /\ ExecutionsOf(c) \subseteq DOMAIN executed
  BY SameScenario DEF ExecutionsOf, Grown
<1>2. Failed(c) => Failed(c)'
  BY <1>1 DEF Failed, Grown
<1>3. ASSUME Kept(c), NEW m, Answered(c, m)  PROVE Answered(c, m)'
  BY <1>1, <1>2, <1>3, SameScenario DEF Answered, Grown, Kept
<1>4. QED BY <1>2, <1>3

(* Steps that leave a call, or a thread that makes none of the calls they touch, as they were. *)
Leaves(c) ==
  /\ calls'[c] = calls[c] /\ Kept(c)
  /\ calls[c].state = "sent" => /\ conns'[c[1]] = conns[c[1]] /\ serving'[c[1]] = serving[c[1]]

LEMMA CallStays ==
  ASSUME scenario' = scenario, restarts' = restarts, Grown, NEW c \in Calls, CallInv(c), Leaves(c)
  PROVE  CallInv(c)'
<1>1. ExecutionsOf(c)' = ExecutionsOf(c) /\ calls'[c] = calls[c]
  BY DEF Leaves, Kept
<1>2. ASSUME calls[c].state = "sent"  PROVE SentInv(c)'
  <2>1. SentInv(c) /\ conns'[c[1]] = conns[c[1]] /\ serving'[c[1]] = serving[c[1]]
    BY <1>2 DEF CallInv, Leaves
  <2>2. \A m : Answered(c, m) => Answered(c, m)'
    BY WhatIsDoneStays DEF Leaves
  <2>3. QED BY <1>1, <2>1, <2>2, SameScenario DEF SentInv
<1>3. ASSUME calls[c].state = "returned"
      PROVE  \E i \in DOMAIN executed' :
               /\ ExecutionsOf(c)' = {i} /\ executed'[i].name = MethodOf(c)'
               /\ calls'[c].value = [n \in Names(Structs(c)'.result) |->
                                       IF n \in executed'[i].answer THEN <<i, n>> ELSE Unset]
  <2>1. PICK i \in DOMAIN executed :
           /\ ExecutionsOf(c) = {i} /\ executed[i].name = MethodOf(c)
           /\ calls[c].value = [n \in Names(Structs(c).result) |->
                                  IF n \in executed[i].answer THEN <<i, n>> ELSE Unset]
    BY <1>3 DEF CallInv
  <2>2. i \in DOMAIN executed' /\ executed'[i] = executed[i]
    BY DEF Grown
  <2>3. MethodOf(c)' = MethodOf(c) /\ Structs(c)' = Structs(c)
    BY SameScenario
  <2>4. QED BY <1>1, <2>1, <2>2, <2>3
<1>4. ASSUME calls[c].state = "raised", restarts = 0
      PROVE  \/ MethodOf(c)' \notin DOMAIN ServerStubs'
             \/ Failed(c)'
             \/ /\ scenario.python /\ c[1] \in scenario.keeps
                /\ \E b \in Calls : b[1] = c[1] /\ b[2] < c[2] /\ Failed(b)'
  BY <1>4, WhatIsDoneStays, SameScenario DEF CallInv
<1>5. QED BY <1>1, <1>2, <1>3, <1>4, SameScenario DEF CallInv

LEMMA ThreadStays ==
  ASSUME scenario' = scenario, restarts' = restarts, Grown, NEW t \in Threads, ThreadInv(t),
         conns'[t] = conns[t], serving'[t] = serving[t],
         \A c \in Calls : c[1] = t => calls'[c] = calls[c]
  PROVE  ThreadInv(t)'
<1>1. conns[t].state = "broken" /\ restarts = 0 =>
        /\ scenario.python /\ conns[t].used
        /\ \E b \in Calls :
             /\ b[1] = t /\ Failed(b)' /\ calls[b].state # "new"
             /\ \A c \in Calls : c[1] = t /\ calls[c].state = "sent" =>
                                  b = c \/ (t \in scenario.keeps /\ b[2] < c[2])
  BY WhatIsDoneStays DEF ThreadInv
<1>2. QED BY <1>1, SameScenario DEF ThreadInv

(* The steps of thread t and of its connection. *)
StepOf(t) ==
  /\ scenario' = scenario /\ restarts' = restarts /\ Grown
  /\ DOMAIN calls' = DOMAIN calls /\ DOMAIN conns' = DOMAIN conns /\ DOMAIN serving' = DOMAIN serving
  /\ \A c \in Calls : c[1] # t => calls'[c] = calls[c] /\ Kept(c)
  /\ \A u \in Threads : u # t => conns'[u] = conns[u] /\ serving'[u] = serving[u]

(* What such a step has still to be shown: that it leaves its own thread in order. *)
LEMMA OwnThread ==
  ASSUME StubsAssumption, RpcInv, NEW t \in Threads, StepOf(t),
         \A c \in Calls : c[1] = t => CallInv(c)',
         ThreadInv(t)', OrderInv'
  PROVE  RpcInv'
<1>1. StateInv'
  BY SameScenario DEF RpcInv, StateInv, StepOf
<1>2. ASSUME NEW c \in Calls, c[1] # t  PROVE CallInv(c)'
  <2>1. CallInv(c) /\ c[1] \in Threads
    BY CallsArePairs DEF RpcInv
  <2>2. Leaves(c)
    BY <1>2, <2>1 DEF Leaves, StepOf
  <2>3. QED BY <2>1, <2>2, CallStays DEF StepOf
<1>3. ASSUME NEW u \in Threads, u # t  PROVE ThreadInv(u)'
  <2>1. \A c \in Calls : c[1] = u => calls'[c] = calls[c]
    BY <1>3 DEF StepOf
  <2>2. conns'[u] = conns[u] /\ serving'[u] = serving[u]
    BY <1>3 DEF StepOf
  <2>3. ThreadInv(u)
    BY DEF RpcInv
  <2>4. QED BY <2>1, <2>2, <2>3, ThreadStays DEF StepOf
<1>4. Calls' = Calls
  BY SameScenario DEF StepOf
<1>5. QED BY <1>1, <1>2, <1>3, <1>4 DEF RpcInv

(* A step of a thread that finds none of its calls under way, and changes none. *)
LEMMA IdleThread ==
  ASSUME StubsAssumption, RpcInv, NEW t \in Threads, StepOf(t),
         calls' = calls, executed' = executed, ThreadInv(t)',
         \A c \in Calls : c[1] = t => calls[c].state # "sent"
  PROVE  RpcInv'
<1>1. \A c \in Calls : Kept(c)
  BY SameScenario DEF Kept, ExecutionsOf, StepOf
<1>2. ASSUME NEW c \in Calls, c[1] = t  PROVE CallInv(c)'
  <2>1. Leaves(c) /\ CallInv(c)
    BY <1>1, <1>2 DEF Leaves, RpcInv
  <2>2. QED BY <2>1, CallStays DEF StepOf
<1>3. OrderInv'
  BY SameScenario DEF RpcInv, OrderInv, Pending, StepOf
<1>4. QED BY <1>2, <1>3, OwnThread

-----------------------------------------------------------------------------
(* The steps. *)
LEMMA NotWaiting ==
  ASSUME StubsAssumption, RpcInv, NEW t \in Threads, ~Waiting(t), NEW c \in Calls, c[1] = t
  PROVE  calls[c].state # "sent"
<1> SUFFICES ASSUME calls[c].state = "sent"  PROVE FALSE
  OBVIOUS
<1>1. Pending(<<t, c[2]>>) /\ c[2] \in 1..MaxCalls
  BY CallsArePairs DEF RpcInv, Pending
<1>2. HasCall(t)
  BY <1>1 DEF HasCall
<1>3. c = Current(t)
  BY <1>2, OneIsSent
<1>4. QED BY <1>2, <1>3 DEF Waiting

LEMMA NothingDone ==
  ASSUME scenario' = scenario, executed' = executed
  PROVE  Grown /\ \A c : Kept(c)
  BY SameScenario DEF Grown, Kept, ExecutionsOf

LEMMA ConnectionSteps ==
  ASSUME StubsAssumption, RpcInv, NEW t \in Threads, Open(t) \/ Close(t) \/ HangUp(t)
  PROVE  RpcInv'
<1>1. StepOf(t) /\ calls' = calls /\ executed' = executed /\ t \in DOMAIN conns /\ t \in DOMAIN serving
  <2>1. t \in DOMAIN conns /\ t \in DOMAIN serving
    BY DEF RpcInv, StateInv
  <2>2. UNCHANGED <<scenario, calls, executed, restarts>>
    BY DEF Open, Close, HangUp
  <2>3. /\ DOMAIN conns' = DOMAIN conns /\ DOMAIN serving' = DOMAIN serving
        /\ \A u \in Threads : u # t => conns'[u] = conns[u] /\ serving'[u] = serving[u]
    BY <2>1 DEF Open, Close, HangUp, Connection, RpcInv, StateInv
  <2>4. QED BY <2>1, <2>2, <2>3, NothingDone DEF StepOf
<1>2. \A c \in Calls : c[1] = t => calls[c].state # "sent"
  <2>1. CASE Close(t)
    BY <2>1, NotWaiting DEF Close
  <2>2. CASE Open(t) \/ HangUp(t)
    <3>1. conns[t].state \in {"closed", "hung up"}
      BY <2>2 DEF Open, HangUp, Connection
    <3>2. QED BY <3>1 DEF RpcInv, CallInv, SentInv
  <2>3. QED BY <2>1, <2>2
<1>3. /\ conns[t] = [state |-> conns[t].state, used |-> conns[t].used,
                     requests |-> conns[t].requests, replies |-> conns[t].replies]
      /\ conns[t].requests = <<>> /\ conns[t].replies = <<>>
      /\ \/ conns[t].state = "open" /\ serving[t] \in {None, Reading}
         \/ conns[t].state \in {"closed", "broken"} /\ serving[t] = None
         \/ conns[t].state = "hung up" /\ serving[t] = Reading
  BY <1>2 DEF RpcInv, ThreadInv
<1>4. ThreadInv(t)'
  <2>1. CASE Open(t)
    BY <1>1, <1>3, <2>1, ServerStates DEF Open, Connection, Closed, ThreadInv
  <2>2. CASE Close(t)
    <3>1. \/ conns'[t] = Closed /\ serving'[t] = None
          \/ /\ conns'[t] = [conns[t] EXCEPT !.state = "hung up"]
             /\ conns[t].state = "open" /\ serving'[t] = Reading
      BY <1>1, <1>3, <2>2 DEF Close, Connection
    <3>2. /\ conns'[t] = [state |-> conns'[t].state, used |-> conns'[t].used,
                          requests |-> conns'[t].requests, replies |-> conns'[t].replies]
          /\ conns'[t].requests = <<>> /\ conns'[t].replies = <<>>
          /\ \/ conns'[t].state = "closed" /\ serving'[t] = None
             \/ conns'[t].state = "hung up" /\ serving'[t] = Reading
      <4>1. CASE conns'[t] = Closed /\ serving'[t] = None
        BY <4>1 DEF Closed
      <4>2. CASE conns'[t] = [conns[t] EXCEPT !.state = "hung up"] /\ serving'[t] = Reading
        BY <1>3, <4>2
      <4>3. QED BY <3>1, <4>1, <4>2
    <3>3. QED BY <3>2 DEF ThreadInv
  <2>3. CASE HangUp(t)
    BY <1>1, <1>3, <2>3 DEF HangUp, Closed, ThreadInv
  <2>4. QED BY <2>1, <2>2, <2>3
<1>5. QED BY <1>1, <1>2, <1>4, IdleThread

(* A connection is taken up by the server before its first request, or after. *)
LEMMA AcceptStep ==
  ASSUME StubsAssumption, RpcInv, NEW t \in Threads, Accept(t)
  PROVE  RpcInv'
<1>1. /\ StepOf(t) /\ calls' = calls /\ executed' = executed /\ conns' = conns
      /\ conns[t].state = "open" /\ serving[t] = None /\ serving'[t] = Reading
  BY SameScenario DEF Accept, StepOf, Grown, Kept, ExecutionsOf, RpcInv, StateInv
<1>2. ThreadInv(t)'
  BY <1>1, SameScenario DEF RpcInv, ThreadInv, StepOf
<1>3. ASSUME NEW c \in Calls, c[1] = t  PROVE CallInv(c)'
  <2>1. CallInv(c) /\ Kept(c)
    BY <1>1, SameScenario DEF RpcInv, Kept, ExecutionsOf, StepOf
  <2>2. CASE calls[c].state = "sent"
    <3>1. /\ conns[t].used /\ conns[t].requests = <<Request(c)>> /\ conns[t].replies = <<>>
          /\ ExecutionsOf(c) = {}
      BY <1>1, <1>3, <2>1, <2>2, ServerStates DEF CallInv, SentInv
    <3>2. SentInv(c)'
      BY <1>1, <1>3, <2>1, <3>1, SameScenario DEF SentInv, StepOf, Kept
    <3>3. QED BY <1>1, <2>2, <3>2 DEF CallInv
  <2>3. CASE calls[c].state # "sent"
    BY <1>1, <2>1, <2>3, CallStays DEF Leaves, StepOf
  <2>4. QED BY <2>2, <2>3
<1>4. OrderInv'
  BY <1>1, SameScenario DEF RpcInv, OrderInv, Pending, StepOf
<1>5. QED BY <1>1, <1>2, <1>3, <1>4, OwnThread

(* What becomes of the current call leaves the order of the calls. *)
LEMMA Finishing ==
  ASSUME StubsAssumption, RpcInv, NEW t \in Threads, HasCall(t), NEW c \in Calls, c = Current(t),
         scenario' = scenario, NEW state \in {"sent", "returned", "raised"}, NEW value,
         Finish(t, state, value)
  PROVE  /\ OrderInv' /\ DOMAIN calls' = DOMAIN calls
         /\ calls'[c].state = state /\ calls'[c].value = value
         /\ \A d \in Calls : d # c => calls'[d] = calls[d]
         /\ \A d \in Calls : d # c /\ d[1] = t => calls[d].state # "sent"
<1>1. /\ c[1] = t /\ Pending(c)
      /\ \A d \in Calls : d[1] = t /\ Pending(d) => c[2] <= d[2]
  BY CurrentIsFirst DEF RpcInv
<1>2. c \in DOMAIN calls
  BY DEF RpcInv, StateInv
<1>3. /\ DOMAIN calls' = DOMAIN calls /\ calls'[c] = [state |-> state, value |-> value]
      /\ \A d \in Calls : d # c => calls'[d] = calls[d]
  BY <1>2 DEF Finish, RpcInv, StateInv
<1>4. \A d \in Calls : d # c /\ d[1] = t => calls[d].state # "sent"
  BY OneIsSent
<1>5. ASSUME NEW d \in Calls, NEW e \in Calls, d[1] = e[1], Pending(e)'
      PROVE  /\ calls'[d].state = "sent" => d[2] <= e[2]
             /\ calls'[d].state \in {"returned", "raised"} => d[2] < e[2]
  <2>1. Pending(e)
    BY <1>1, <1>3, <1>5, SameScenario DEF Pending
  <2>2. CASE d # c
    BY <1>3, <1>5, <2>1, <2>2 DEF RpcInv, OrderInv
  <2>3. CASE d = c
    <3>1. c[2] <= e[2] /\ c[2] \in Int /\ e[2] \in Int
      BY <1>1, <1>5, <2>1, <2>3, CallsArePairs DEF RpcInv, StubsAssumption
    <3>2. ASSUME state \in {"returned", "raised"}  PROVE c[2] # e[2]
      <4>1. e # c
        BY <1>3, <1>5, <3>2 DEF Pending
      <4>2. QED BY <1>1, <1>5, <2>3, <4>1, CallsArePairs DEF RpcInv
    <3>3. QED BY <1>3, <2>3, <3>1, <3>2
  <2>4. QED BY <2>2, <2>3
<1>6. OrderInv'
  BY <1>5, SameScenario DEF OrderInv
<1>7. QED BY <1>3, <1>4, <1>6

(* A step of a client at its current call c, which is over or sent then. *)
LEMMA ClientStep ==
  ASSUME StubsAssumption, RpcInv, NEW t \in Threads, HasCall(t), NEW c \in Calls, c = Current(t),
         UNCHANGED <<scenario, serving, executed, restarts>>,
         DOMAIN conns' = DOMAIN conns, \A u \in Threads : u # t => conns'[u] = conns[u],
         NEW state \in {"sent", "returned", "raised"}, NEW value, Finish(t, state, value),
         CallInv(c)', ThreadInv(t)'
  PROVE  RpcInv'
<1>1. /\ OrderInv' /\ DOMAIN calls' = DOMAIN calls
      /\ \A d \in Calls : d # c => calls'[d] = calls[d]
      /\ \A d \in Calls : d # c /\ d[1] = t => calls[d].state # "sent"
  BY Finishing
<1>2. Grown /\ \A d : Kept(d)
  BY NothingDone
<1>3. c[1] = t
  BY CurrentIsFirst DEF RpcInv
<1>4. StepOf(t)
  BY <1>1, <1>2, <1>3 DEF StepOf
<1>5. ASSUME NEW d \in Calls, d[1] = t, d # c  PROVE CallInv(d)'
  <2>1. Leaves(d) /\ CallInv(d)
    BY <1>1, <1>2, <1>5 DEF Leaves, RpcInv
  <2>2. QED BY <1>2, <2>1, CallStays
<1>6. QED BY <1>1, <1>4, <1>5, OwnThread

LEMMA SendStep ==
  ASSUME StubsAssumption, RpcInv, NEW t \in Threads, Send(t)
  PROVE  RpcInv'
<1>1. /\ HasCall(t) /\ ~Waiting(t) /\ UNCHANGED <<scenario, serving, executed, restarts>>
      /\ conns[t].used => t \in scenario.keeps
  BY DEF Send, Connection
<1>a. PICK c \in Calls : c = Current(t)
  BY <1>1, CurrentIsFirst DEF RpcInv
<1>2. c[1] = t /\ Pending(c) /\ c \in DOMAIN calls /\ t \in DOMAIN conns
  BY <1>1, <1>a, CurrentIsFirst DEF RpcInv, StateInv
<1>3. \A d \in Calls : d[1] = t => calls[d].state # "sent"
  BY <1>1, NotWaiting
<1>4. calls[c].state = "new" /\ CallInv(c) /\ ExecutionsOf(c) = {}
  BY <1>2, <1>3 DEF Pending, RpcInv, CallInv
<1>5. /\ conns[t] = [state |-> conns[t].state, used |-> conns[t].used,
                     requests |-> conns[t].requests, replies |-> conns[t].replies]
      /\ conns[t].requests = <<>> /\ conns[t].replies = <<>>
      /\ \/ conns[t].state = "open" /\ serving[t] \in {None, Reading}
         \/ conns[t].state \in {"closed", "broken"} /\ serving[t] = None
         \/ conns[t].state = "hung up" /\ serving[t] = Reading
  BY <1>3 DEF RpcInv, ThreadInv
<1>6. Grown /\ \A d : Kept(d)
  BY <1>1, NothingDone
<1>7. ExecutionsOf(c)' = {} /\ Calls' = Calls
  BY <1>1, <1>4, <1>6, SameScenario DEF Kept
<1>8. CASE conns[t].state = "open"
  <2>1. /\ Finish(t, "sent", Unset)
        /\ conns' = [conns EXCEPT ![t].used = TRUE, ![t].requests = Append(@, Request(c))]
    BY <1>8, <1>a DEF Send, Connection, Request, Structs, MethodOf
  <2>2. /\ DOMAIN conns' = DOMAIN conns /\ \A u \in Threads : u # t => conns'[u] = conns[u]
        /\ conns'[t] = [state |-> "open", used |-> TRUE, requests |-> <<Request(c)>>, replies |-> <<>>]
    BY <1>2, <1>5, <1>8, <2>1, OneMessage DEF RpcInv, StateInv
  <2>3. calls'[c].state = "sent"
    BY <1>1, <1>a, <2>1, Finishing
  <2>4. Request(c)' = Request(c) /\ Calls' = Calls
    BY <1>1, SameScenario DEF Request, Structs, MethodOf, ClientStubs
  <2>5. ThreadInv(t)'
    BY <1>2, <2>2, <2>3, <2>4 DEF ThreadInv
  <2>6. SentInv(c)'
    <3>1. conns'[c[1]] = [state |-> "open", used |-> TRUE, requests |-> <<Request(c)>>, replies |-> <<>>]
      BY <1>2, <2>2
    <3>2. serving'[c[1]] \in {None, Reading}
      BY <1>1, <1>2, <1>5, <1>8
    <3>3. QED BY <1>7, <2>4, <3>1, <3>2 DEF SentInv
  <2>7. CallInv(c)'
    BY <2>3, <2>6 DEF CallInv
  <2>8. QED BY <1>1, <1>a, <2>1, <2>2, <2>5, <2>7, ClientStep
<1>9. CASE conns[t].state = "broken"
  <2>1. /\ conns' = [conns EXCEPT ![t].used = TRUE]
        /\ Finish(t, "sent", Unset) \/ Finish(t, "raised", Unset)
    BY <1>9 DEF Send, Connection
  <2>2. /\ DOMAIN conns' = DOMAIN conns /\ \A u \in Threads : u # t => conns'[u] = conns[u]
        /\ conns'[t] = [state |-> "broken", used |-> TRUE, requests |-> <<>>, replies |-> <<>>]
    BY <1>2, <1>5, <1>9, <2>1 DEF RpcInv, StateInv
  <2>3. \A d \in Calls : d # c => calls'[d] = calls[d]
    <3>1. CASE Finish(t, "sent", Unset)
      BY <1>1, <1>a, <3>1, Finishing
    <3>2. CASE Finish(t, "raised", Unset)
      BY <1>1, <1>a, <3>2, Finishing
    <3>3. QED BY <2>1, <3>1, <3>2
  (* Who cut the connection, if the server did not stop. *)
  <2>4. ASSUME restarts = 0
        PROVE  /\ scenario.python /\ t \in scenario.keeps
               /\ \E b \in Calls : b[1] = t /\ Failed(b)' /\ b[2] < c[2] /\ calls'[b].state # "new"
    <3>1. PICK b \in Calls : b[1] = t /\ Failed(b) /\ calls[b].state # "new"
      BY <1>9, <2>4 DEF RpcInv, ThreadInv
    <3>2. calls[b].state \in {"returned", "raised"}
      BY <1>3, <3>1 DEF RpcInv, CallInv
    <3>3. b[2] < c[2] /\ b # c
      BY <1>2, <1>4, <3>1, <3>2 DEF RpcInv, OrderInv
    <3>4. Failed(b)' /\ calls'[b].state # "new"
      BY <1>1, <1>6, <2>3, <3>1, <3>3, WhatIsDoneStays
    <3>5. scenario.python /\ t \in scenario.keeps
      BY <1>1, <1>9, <2>4 DEF RpcInv, ThreadInv
    <3>6. QED BY <3>1, <3>3, <3>4, <3>5
  <2>5. ASSUME NEW state \in {"sent", "raised"}, Finish(t, state, Unset)
        PROVE  RpcInv'
    <3>1. calls'[c].state = state
      BY <1>1, <1>a, <2>5, Finishing
    <3>2. serving'[t] = None
      BY <1>1, <1>5, <1>9
    <3>3. \A d \in Calls : d[1] = t /\ calls'[d].state = "sent" => d = c
      BY <1>3, <2>3
    <3>4. ThreadInv(t)'
      <4>1. restarts = 0 => /\ scenario.python
                            /\ \E b \in Calls :
                                 /\ b[1] = t /\ Failed(b)' /\ calls'[b].state # "new"
                                 /\ \A d \in Calls : d[1] = t /\ calls'[d].state = "sent" =>
                                                     b = d \/ (t \in scenario.keeps /\ b[2] < d[2])
        BY <2>4, <3>3
      <4>2. QED BY <1>1, <1>7, <2>2, <3>2, <4>1 DEF ThreadInv
    <3>5. CallInv(c)'
      <4>1. CASE state = "sent"
        <5>1. conns'[c[1]] = [state |-> "broken", used |-> TRUE, requests |-> <<>>, replies |-> <<>>]
          BY <1>2, <2>2
        <5>2. serving'[c[1]] = None
          BY <1>2, <3>2
        <5>3. SentInv(c)'
          BY <5>1, <5>2 DEF SentInv
        <5>4. QED BY <3>1, <4>1, <5>3 DEF CallInv
      <4>2. CASE state = "raised"
        BY <1>1, <1>2, <1>7, <2>4, <3>1, <4>2 DEF CallInv
      <4>3. QED BY <4>1, <4>2
    <3>6. QED BY <1>1, <1>a, <2>2, <2>5, <3>4, <3>5, ClientStep
  <2>6. QED BY <2>1, <2>5
<1>10. QED BY <1>8, <1>9 DEF Send, Connection

(* A call comes to its end, and leaves nothing on the connection. *)
LEMMA CallEnds ==
  ASSUME StubsAssumption, RpcInv, NEW t \in Threads, HasCall(t), NEW c \in Calls, c = Current(t),
         UNCHANGED <<scenario, serving, executed, restarts>>,
         DOMAIN conns' = DOMAIN conns, \A u \in Threads : u # t => conns'[u] = conns[u],
         conns'[t] = [state |-> conns[t].state, used |-> conns[t].used, requests |-> <<>>, replies |-> <<>>],
         \/ conns[t].state = "open" /\ serving[t] = Reading
         \/ conns[t].state = "broken" /\ serving[t] = None,
         NEW state \in {"returned", "raised"}, NEW value, Finish(t, state, value), CallInv(c)'
  PROVE  RpcInv'
<1>1. /\ calls'[c].state = state
      /\ \A d \in Calls : d # c => calls'[d] = calls[d]
      /\ \A d \in Calls : d # c /\ d[1] = t => calls[d].state # "sent"
  BY Finishing
<1>2. Grown /\ Calls' = Calls
  BY NothingDone, SameScenario
<1>3. \A d \in Calls : d[1] = t => calls'[d].state # "sent"
  BY <1>1
<1>4. ASSUME conns[t].state = "broken", restarts = 0
      PROVE  /\ scenario.python /\ conns[t].used
             /\ \E b \in Calls : b[1] = t /\ Failed(b)' /\ calls'[b].state # "new"
  <2>1. ThreadInv(t)
    BY DEF RpcInv
  <2>2. /\ scenario.python /\ conns[t].used
        /\ \E b \in Calls : b[1] = t /\ Failed(b) /\ calls[b].state # "new"
    BY <1>4, <2>1 DEF ThreadInv
  <2>3. PICK b \in Calls : b[1] = t /\ Failed(b) /\ calls[b].state # "new"
    BY <2>2
  <2>4. Failed(b)' /\ calls'[b].state # "new"
    BY <1>1, <1>2, <2>3, WhatIsDoneStays
  <2>5. QED BY <2>2, <2>3, <2>4
<1>5. ThreadInv(t)'
  <2>1. /\ conns'[t] = [state |-> conns'[t].state, used |-> conns'[t].used,
                        requests |-> conns'[t].requests, replies |-> conns'[t].replies]
        /\ conns'[t].requests = <<>> /\ conns'[t].replies = <<>>
        /\ conns'[t].state = conns[t].state /\ conns'[t].used = conns[t].used
        /\ serving'[t] = serving[t]
    OBVIOUS
  <2>2. \/ conns'[t].state = "open" /\ serving'[t] \in {None, Reading}
        \/ conns'[t].state \in {"closed", "broken"} /\ serving'[t] = None
    BY <2>1
  <2>3. conns'[t].state = "broken" /\ restarts' = 0 =>
          /\ scenario.python' /\ conns'[t].used
          /\ \E b \in Calls :
               /\ b[1] = t /\ Failed(b)' /\ calls'[b].state # "new"
               /\ \A d \in Calls : d[1] = t /\ calls'[d].state = "sent" =>
                                    b = d \/ (t \in scenario.keeps /\ b[2] < d[2])
    BY <1>3, <1>4, <2>1
  <2>4. QED BY <1>2, <2>1, <2>2, <2>3 DEF ThreadInv
<1>6. QED BY <1>5, ClientStep

LEMMA ReceiveEndStep ==
  ASSUME StubsAssumption, RpcInv, NEW t \in Threads, ReceiveEnd(t)
  PROVE  RpcInv'
<1>1. /\ HasCall(t) /\ UNCHANGED <<scenario, conns, serving, executed, restarts>>
      /\ conns[t].state = "broken" /\ conns[t].replies = <<>> /\ Finish(t, "raised", Unset)
  BY DEF ReceiveEnd, Connection, Waiting
<1>a. PICK c \in Calls : c = Current(t)
  BY <1>1, CurrentIsFirst DEF RpcInv
<1>2. c[1] = t /\ calls[c].state = "sent"
  BY <1>1, <1>a, CurrentIsFirst DEF RpcInv, ReceiveEnd, Waiting
<1>3. conns[t].requests = <<>> /\ serving[t] = None
  BY <1>1, <1>2 DEF RpcInv, CallInv, SentInv
<1>4. conns'[t] = [state |-> conns[t].state, used |-> conns[t].used, requests |-> <<>>, replies |-> <<>>]
  <2>1. ThreadInv(t)
    BY DEF RpcInv
  <2>2. QED BY <1>1, <1>3, <2>1 DEF ThreadInv
<1>5. calls'[c].state = "raised"
  BY <1>1, <1>a, Finishing
<1>6. ASSUME restarts = 0
      PROVE  \/ Failed(c)
             \/ /\ scenario.python /\ t \in scenario.keeps
                /\ \E b \in Calls : b[1] = t /\ b[2] < c[2] /\ Failed(b)
  <2>1. ThreadInv(t)
    BY DEF RpcInv
  <2>2. QED BY <1>1, <1>2, <1>6, <2>1 DEF ThreadInv
<1>7. CallInv(c)'
  <2>1. \A d : Failed(d) => Failed(d)'
    BY <1>1, NothingDone, WhatIsDoneStays
  <2>2. Calls' = Calls
    BY <1>1, SameScenario
  <2>3. QED BY <1>1, <1>2, <1>5, <1>6, <2>1, <2>2 DEF CallInv
<1>8. QED BY <1>1, <1>a, <1>3, <1>4, <1>7, CallEnds

(* The only message on the connection answers the call that the client waits for. *)
LEMMA ReceiveStep ==
  ASSUME StubsAssumption, RpcInv, NEW t \in Threads, Receive(t)
  PROVE  RpcInv'
<1>1. /\ HasCall(t) /\ UNCHANGED <<scenario, serving, executed, restarts>>
      /\ conns[t].replies # <<>> /\ conns' = [conns EXCEPT ![t].replies = Tail(@)]
  BY DEF Receive, Connection, Waiting, AfterReading
<1>a. PICK c \in Calls : c = Current(t)
  BY <1>1, CurrentIsFirst DEF RpcInv
<1>2. c[1] = t /\ calls[c].state = "sent" /\ t \in DOMAIN conns
  BY <1>1, <1>a, CurrentIsFirst DEF RpcInv, StateInv, Receive, Waiting
<1>b. PICK reply : reply = conns[t].replies[1]
  OBVIOUS
<1>3. /\ conns[t].requests = <<>> /\ conns[t].replies = <<reply>> /\ Answered(c, reply)
      /\ \/ conns[t].state = "open" /\ serving[t] = Reading
         \/ conns[t].state = "broken" /\ serving[t] = None
  BY <1>1, <1>2, <1>b DEF RpcInv, CallInv, SentInv
<1>4. Head(conns[t].replies) = reply /\ Tail(conns[t].replies) = <<>>
  BY <1>3, OneMessage
<1>5. /\ DOMAIN conns' = DOMAIN conns /\ \A u \in Threads : u # t => conns'[u] = conns[u]
      /\ conns'[t] = [state |-> conns[t].state, used |-> conns[t].used, requests |-> <<>>, replies |-> <<>>]
  <2>1. ThreadInv(t) /\ DOMAIN conns = Threads
    BY DEF RpcInv, StateInv
  <2>2. conns[t] = [state |-> conns[t].state, used |-> conns[t].used,
                    requests |-> conns[t].requests, replies |-> conns[t].replies]
    BY <2>1 DEF ThreadInv
  <2>3. QED BY <1>1, <1>2, <1>3, <1>4, <2>1, <2>2
<1>6. Grown /\ (\A d : Kept(d)) /\ Calls' = Calls
  BY <1>1, NothingDone, SameScenario
<1>c. PICK value : value = Read(Structs(c).result, reply.body)
  OBVIOUS
<1>7. (CASE reply.type = "exception" -> Finish(t, "raised", Unset)
         [] scenario.cpp /\ reply.type # "exception" /\ reply.name # MethodOf(c) -> UNCHANGED calls
         [] OTHER -> IF \A n \in DOMAIN value : value[n] = Unset
                     THEN Finish(t, "raised", Unset)
                     ELSE Finish(t, "returned", value))
  BY <1>4, <1>a, <1>c DEF Receive, Connection, Structs, MethodOf
<1>8. ASSUME MethodOf(c) \notin DOMAIN ServerStubs \/ Failed(c), Finish(t, "raised", Unset)
      PROVE  RpcInv'
  <2>1. calls'[c].state = "raised"
    BY <1>1, <1>8, <1>a, Finishing
  <2>2. MethodOf(c)' \notin DOMAIN ServerStubs' \/ Failed(c)'
    BY <1>1, <1>6, <1>8, SameScenario, WhatIsDoneStays
  <2>3. CallInv(c)'
    BY <2>1, <2>2 DEF CallInv
  <2>4. QED BY <1>1, <1>8, <1>a, <1>3, <1>5, <2>3, CallEnds
<1>9. CASE reply.type = "exception"
  <2>1. MethodOf(c) \notin DOMAIN ServerStubs \/ Failed(c)
    BY <1>3, <1>9 DEF Answered
  <2>2. Finish(t, "raised", Unset)
    BY <1>7, <1>9
  <2>3. QED BY <1>8, <2>1, <2>2
<1>10. CASE reply.type = "reply"
  <2>1. reply.name = MethodOf(c)
    BY <1>3, <1>10 DEF Answered
  <2>2. PICK i \in DOMAIN executed :
          /\ ExecutionsOf(c) = {i} /\ executed[i].name = MethodOf(c)
          /\ executed[i].answer \subseteq Names(Structs(c).result)
          /\ reply.body = Write(Structs(c).result, executed[i].answer, i)
    BY <1>3, <1>10 DEF Answered
  <2>3. value = [n \in Names(Structs(c).result) |-> IF n \in executed[i].answer THEN <<i, n>> ELSE Unset]
    BY <1>c, <2>2, ReadsWhatIsWritten, StructsOfCalls DEF RpcInv
  <2>4. IF \A n \in DOMAIN value : value[n] = Unset
        THEN Finish(t, "raised", Unset)
        ELSE Finish(t, "returned", value)
    BY <1>7, <1>10, <2>1
  <2>5. CASE \A n \in DOMAIN value : value[n] = Unset
    <3>1. ASSUME NEW n \in executed[i].answer  PROVE FALSE
      <4>1. n \in DOMAIN value /\ value[n] = <<i, n>>
        BY <2>2, <2>3
      <4>2. QED BY <2>5, <4>1 DEF Unset
    <3>2. executed[i].answer = NoAnswer
      BY <3>1 DEF NoAnswer
    <3>3. Failed(c)
      BY <2>2, <3>2 DEF Failed
    <3>4. QED BY <1>8, <2>4, <2>5, <3>3
  <2>6. CASE ~ \A n \in DOMAIN value : value[n] = Unset
    <3>1. Finish(t, "returned", value)
      BY <2>4, <2>6
    <3>2. calls'[c].state = "returned" /\ calls'[c].value = value
      BY <1>1, <1>a, <3>1, Finishing
    <3>3. /\ i \in DOMAIN executed' /\ ExecutionsOf(c)' = {i} /\ executed' = executed
          /\ MethodOf(c)' = MethodOf(c) /\ Structs(c)' = Structs(c)
      BY <1>1, <1>6, <2>2, SameScenario DEF Kept
    <3>4. CallInv(c)'
      BY <2>2, <2>3, <3>2, <3>3 DEF CallInv
    <3>5. QED BY <1>1, <1>a, <1>3, <1>5, <3>1, <3>4, CallEnds
  <2>7. QED BY <2>5, <2>6
<1>11. QED BY <1>3, <1>9, <1>10 DEF Answered

(* A step of the server at the call c that the connection is for. *)
LEMMA SentAlone ==
  ASSUME StubsAssumption, RpcInv, NEW c \in Calls, NEW d \in Calls, c[1] = d[1],
         calls[c].state = "sent", calls[d].state = "sent"
  PROVE  c = d
<1>1. c[2] <= d[2] /\ d[2] <= c[2]
  BY DEF RpcInv, OrderInv, Pending
<1>2. c[2] \in Int /\ d[2] \in Int
  BY CallsArePairs DEF RpcInv, StubsAssumption
<1>3. c[2] = d[2]
  BY <1>1, <1>2
<1>4. QED BY <1>3, CallsArePairs DEF RpcInv

LEMMA ServerStep ==
  ASSUME StubsAssumption, RpcInv, NEW t \in Threads, StepOf(t), calls' = calls,
         NEW c \in Calls, c[1] = t, calls[c].state = "sent", \A d \in Calls : d # c => Kept(d),
         SentInv(c)', ThreadInv(t)'
  PROVE  RpcInv'
<1>1. ASSUME NEW d \in Calls, d[1] = t, d # c  PROVE CallInv(d)'
  <2>1. calls[d].state # "sent"
    BY <1>1, SentAlone
  <2>2. Leaves(d) /\ CallInv(d)
    BY <1>1, <2>1 DEF Leaves, RpcInv
  <2>3. QED BY <2>2, CallStays DEF StepOf
<1>2. CallInv(c)'
  BY DEF CallInv
<1>3. OrderInv'
  BY SameScenario DEF RpcInv, OrderInv, Pending, StepOf
<1>4. QED BY <1>1, <1>2, <1>3, OwnThread

LEMMA ReplyStep ==
  ASSUME StubsAssumption, RpcInv, NEW t \in Threads, Reply(t)
  PROVE  RpcInv'
<1>1. /\ UNCHANGED <<scenario, calls, executed, restarts>> /\ serving[t] \notin {None, Reading}
      /\ serving' = [serving EXCEPT ![t] = Reading]
      /\ conns' = [conns EXCEPT ![t].replies = Append(@, serving[t][2])]
      /\ DOMAIN conns = Threads /\ DOMAIN serving = Threads
  BY DEF Reply, RpcInv, StateInv
<1>2. ThreadInv(t)
  BY DEF RpcInv
<1>3. PICK c \in Calls : c[1] = t /\ calls[c].state = "sent"
  BY <1>1, <1>2 DEF ThreadInv, None, Reading
<1>a. PICK m : m = serving[t][2]
  OBVIOUS
<1>4. /\ conns[t].used /\ conns[t].state = "open" /\ conns[t].requests = <<>> /\ conns[t].replies = <<>>
      /\ Answered(c, m)
  BY <1>1, <1>3, <1>a DEF RpcInv, CallInv, SentInv
<1>5. conns[t] = [state |-> conns[t].state, used |-> conns[t].used,
                  requests |-> conns[t].requests, replies |-> conns[t].replies]
  BY <1>2 DEF ThreadInv
<1>6. /\ serving'[t] = Reading
      /\ conns'[t] = [state |-> "open", used |-> conns[t].used, requests |-> <<>>, replies |-> <<m>>]
  BY <1>1, <1>4, <1>5, <1>a, OneMessage
<1>7. Grown /\ (\A d : Kept(d)) /\ Calls' = Calls
  BY <1>1, NothingDone, SameScenario
<1>8. StepOf(t)
  BY <1>1, <1>7 DEF StepOf
<1>9. Answered(c, m)'
  BY <1>1, <1>4, <1>7, WhatIsDoneStays
<1>10. SentInv(c)'
  <2>1. /\ conns'[c[1]].used /\ conns'[c[1]].state = "open" /\ conns'[c[1]].requests = <<>>
        /\ conns'[c[1]].replies # <<>> /\ conns'[c[1]].replies = <<m>> /\ conns'[c[1]].replies[1] = m
        /\ serving'[c[1]] = Reading
    BY <1>3, <1>4, <1>6
  <2>2. QED BY <1>9, <2>1 DEF SentInv
<1>11. ThreadInv(t)'
  <2>1. /\ conns'[t] = [state |-> conns'[t].state, used |-> conns'[t].used,
                        requests |-> conns'[t].requests, replies |-> conns'[t].replies]
        /\ conns'[t].state = "open"
    BY <1>6
  <2>2. ~ \A d \in Calls' : d[1] = t => calls'[d].state # "sent"
    BY <1>1, <1>3, <1>7
  <2>3. QED BY <2>1, <2>2 DEF ThreadInv
<1>12. QED BY <1>1, <1>3, <1>7, <1>8, <1>10, <1>11, ServerStep

(* The handler is called: the execution is of c alone. *)
LEMMA Executing ==
  ASSUME StubsAssumption, StateInv, IsSequence, scenario' = scenario,
         NEW c \in Calls, ExecutionsOf(c) = {}, NEW e, e.args = Sent(c), executed' = Append(executed, e)
  PROVE  /\ Grown /\ IsSequence'
         /\ Len(executed) + 1 \in DOMAIN executed' /\ executed'[Len(executed) + 1] = e
         /\ ExecutionsOf(c)' = {Len(executed) + 1}
         /\ \A d \in Calls : d # c => Kept(d)
<1>1. PICK S : executed \in Seq(S)
  BY DEF IsSequence
<1>2. executed \in Seq(S \cup {e})
  BY <1>1
<1>3. /\ executed' \in Seq(S \cup {e}) /\ Len(executed') = Len(executed) + 1
      /\ \A i \in 1..Len(executed) : executed'[i] = executed[i]
      /\ executed'[Len(executed) + 1] = e
  BY <1>2, AppendProperties
<1>4. Len(executed) \in Nat /\ DOMAIN executed = 1..Len(executed) /\ DOMAIN executed' = 1..(Len(executed) + 1)
  BY <1>1, <1>3
<1>a. PICK n : n = Len(executed) + 1
  OBVIOUS
<1>5. /\ DOMAIN executed \subseteq DOMAIN executed' /\ n \in DOMAIN executed' /\ n \notin DOMAIN executed
      /\ \A i \in DOMAIN executed' : i \in DOMAIN executed \/ i = n
      /\ executed'[n] = e /\ \A i \in DOMAIN executed : executed'[i] = executed[i]
  BY <1>3, <1>4, <1>a
<1>6. \A d : \A i : i \in ExecutionsOf(d)' <=>
                       i \in ExecutionsOf(d) \/ (i = n /\ Sent(c) = Sent(d))
  BY <1>5, SameScenario DEF ExecutionsOf
<1>7. \A d \in Calls : d # c => \A i : i \in ExecutionsOf(d)' <=> i \in ExecutionsOf(d)
  BY <1>6, ArgumentsTell
<1>8. \A d \in Calls : d # c => Kept(d)
  BY <1>7 DEF Kept
<1>9. ExecutionsOf(c)' = {n}
  BY <1>6
<1>10. IsSequence'
  BY <1>3 DEF IsSequence
<1>11. QED BY <1>5, <1>8, <1>9, <1>10, <1>a DEF Grown

(* The server has taken the request of c, and is about to reply to it or has cut the connection. *)
LEMMA Taken ==
  ASSUME StubsAssumption, RpcInv, NEW t \in Threads, StepOf(t), calls' = calls,
         NEW c \in Calls, c[1] = t, calls[c].state = "sent", \A d \in Calls : d # c => Kept(d),
         NEW state, conns[t].used,
         conns'[t] = [state |-> state, used |-> conns[t].used, requests |-> <<>>, replies |-> <<>>],
         \/ state = "open" /\ \E m : serving'[t] = Replying(m) /\ Answered(c, m)'
         \/ state = "broken" /\ serving'[t] = None /\ Failed(c)' /\ scenario.python
  PROVE  RpcInv'
<1>1. SentInv(c)'
  <2>1. CASE state = "open"
    <3>1. PICK m : serving'[t] = Replying(m) /\ Answered(c, m)'
      BY <2>1
    <3>2. /\ serving'[c[1]] \notin {None, Reading} /\ serving'[c[1]][2] = m
          /\ serving'[c[1]] = Replying(m)
      BY <3>1, ServerStates
    <3>3. /\ conns'[c[1]].used /\ conns'[c[1]].state = "open"
          /\ conns'[c[1]].requests = <<>> /\ conns'[c[1]].replies = <<>>
      BY <2>1
    <3>4. QED BY <3>1, <3>2, <3>3 DEF SentInv
  <2>2. CASE state = "broken"
    <3>1. /\ conns'[c[1]].used /\ conns'[c[1]].state = "broken"
          /\ conns'[c[1]].requests = <<>> /\ conns'[c[1]].replies = <<>> /\ serving'[c[1]] = None
      BY <2>2
    <3>2. QED BY <3>1 DEF SentInv
  <2>3. QED BY <2>1, <2>2
<1>2. ThreadInv(t)'
  <2>1. /\ conns'[t] = [state |-> conns'[t].state, used |-> conns'[t].used,
                        requests |-> conns'[t].requests, replies |-> conns'[t].replies]
        /\ conns'[t].state = state /\ conns'[t].used
    OBVIOUS
  <2>2. Calls' = Calls /\ scenario' = scenario
    BY SameScenario DEF StepOf
  <2>3. ~ \A d \in Calls' : d[1] = t => calls'[d].state # "sent"
    BY <2>2
  <2>4. \A d \in Calls' : d[1] = t /\ calls'[d].state = "sent" => c = d
    BY <2>2, SentAlone
  <2>5. conns'[t].state = "broken" /\ restarts' = 0 =>
          /\ scenario'.python /\ conns'[t].used
          /\ \E b \in Calls' :
               /\ b[1] = t /\ Failed(b)' /\ calls'[b].state # "new"
               /\ \A d \in Calls' : d[1] = t /\ calls'[d].state = "sent" =>
                                     b = d \/ (t \in scenario'.keeps /\ b[2] < d[2])
    BY <2>1, <2>2, <2>4
  <2>6. QED BY <2>1, <2>3, <2>5 DEF ThreadInv
<1>3. QED BY <1>1, <1>2, ServerStep

LEMMA DispatchStep ==
  ASSUME StubsAssumption, RpcInv, IsSequence, NEW t \in Threads, dispatchCall(t)
  PROVE  RpcInv' /\ IsSequence'
<1>1. /\ UNCHANGED <<scenario, calls, restarts>> /\ serving[t] = Reading /\ conns[t].requests # <<>>
      /\ DOMAIN conns = Threads /\ DOMAIN serving = Threads
  BY DEF dispatchCall, RpcInv, StateInv
<1>2. ThreadInv(t)
  BY DEF RpcInv
<1>3. PICK c \in Calls : c[1] = t /\ calls[c].state = "sent"
  BY <1>1, <1>2 DEF ThreadInv
<1>4. /\ conns[t].used /\ conns[t].state = "open" /\ conns[t].requests = <<Request(c)>>
      /\ conns[t].replies = <<>> /\ ExecutionsOf(c) = {}
  BY <1>1, <1>3, ServerStates DEF RpcInv, CallInv, SentInv
<1>a. PICK request : request = Request(c)
  OBVIOUS
<1>5. /\ Head(conns[t].requests) = request /\ Tail(conns[t].requests) = <<>>
  BY <1>4, <1>a, OneMessage
<1>6. request.name = MethodOf(c) /\ request.body = Write(Structs(c).args, Names(Structs(c).args), c)
  BY <1>a, Messages DEF Request
<1>7. conns[t] = [state |-> "open", used |-> conns[t].used, requests |-> <<request>>, replies |-> <<>>]
  BY <1>2, <1>4, <1>a DEF ThreadInv
<1>8. ASSUME NEW next, serving' = [serving EXCEPT ![t] = next],
             conns' = [conns EXCEPT ![t].requests = Tail(@)]
      PROVE  /\ DOMAIN conns' = DOMAIN conns /\ DOMAIN serving' = DOMAIN serving
             /\ \A u \in Threads : u # t => conns'[u] = conns[u] /\ serving'[u] = serving[u]
             /\ serving'[t] = next
             /\ conns'[t] = [state |-> "open", used |-> conns[t].used, requests |-> <<>>, replies |-> <<>>]
  BY <1>1, <1>5, <1>7, <1>8
(* A method that the server does not know. *)
<1>9. CASE MethodOf(c) \notin DOMAIN ServerStubs
  <2>1. /\ serving' = [serving EXCEPT ![t] = Replying(Exception(MethodOf(c)))]
        /\ conns' = [conns EXCEPT ![t].requests = Tail(@)] /\ executed' = executed
    BY <1>5, <1>6, <1>9 DEF dispatchCall
  <2>2. Grown /\ (\A d : Kept(d))
    BY <1>1, <2>1, NothingDone
  <2>3. StepOf(t)
    BY <1>1, <1>8, <2>1, <2>2 DEF StepOf
  <2>4. PICK m : m = Exception(MethodOf(c))
    OBVIOUS
  <2>5. Answered(c, m)
    BY <1>9, <2>4, Messages DEF Answered, Exception
  <2>6. Answered(c, m)'
    BY <1>1, <2>2, <2>5, WhatIsDoneStays
  <2>7. /\ conns'[t] = [state |-> "open", used |-> conns[t].used, requests |-> <<>>, replies |-> <<>>]
        /\ serving'[t] = Replying(m)
    BY <1>8, <2>1, <2>4
  <2>8. RpcInv'
    BY <1>1, <1>3, <2>2, <2>3, <2>6, <2>7, <1>4, Taken
  <2>9. QED BY <2>1, <2>8 DEF IsSequence
(* One that it knows: the handler has the arguments of c. *)
<1>10. CASE MethodOf(c) \in DOMAIN ServerStubs
  <2>1. ServerStubs[MethodOf(c)] = Structs(c) /\ Distinct(Structs(c).args)
    BY <1>10, StructsOfCalls DEF RpcInv
  <2>2. process(t, request)
    BY <1>5, <1>6, <1>10 DEF dispatchCall
  <2>3. Read(Structs(c).args, request.body) = Sent(c)
    <3>1. Read(Structs(c).args, request.body) =
            [n \in Names(Structs(c).args) |-> IF n \in Names(Structs(c).args) THEN <<c, n>> ELSE Unset]
      BY <1>6, <2>1, ReadsWhatIsWritten
    <3>2. Sent(c) = [n \in Names(Structs(c).args) |-> <<c, n>>]
      BY DEF Sent, Structs, MethodOf
    <3>3. QED BY <3>1, <3>2
  <2>a. PICK n : n = Len(executed) + 1
    OBVIOUS
  <2>4. ASSUME NEW answer,
               executed' = Append(executed, [name |-> MethodOf(c), args |-> Sent(c), answer |-> answer])
        PROVE  /\ Grown /\ IsSequence' /\ ExecutionsOf(c)' = {n} /\ n \in DOMAIN executed'
               /\ executed'[n].name = MethodOf(c) /\ executed'[n].answer = answer
               /\ \A d \in Calls : d # c => Kept(d)
               /\ answer = NoAnswer => Failed(c)'
    <3>1. PICK e : e = [name |-> MethodOf(c), args |-> Sent(c), answer |-> answer]
      OBVIOUS
    <3>2. e.args = Sent(c) /\ e.name = MethodOf(c) /\ e.answer = answer
      BY <3>1
    <3>3. /\ Grown /\ IsSequence' /\ ExecutionsOf(c)' = {n} /\ n \in DOMAIN executed'
          /\ executed'[n] = e /\ \A d \in Calls : d # c => Kept(d)
      BY <1>1, <1>4, <2>4, <2>a, <3>1, <3>2, Executing DEF RpcInv
    <3>4. answer = NoAnswer => Failed(c)'
      BY <3>2, <3>3 DEF Failed
    <3>5. QED BY <3>2, <3>3, <3>4
  (* It answers, wholly or in part. *)
  <2>5. ASSUME NEW names \in Answers(Names(Structs(c).result)),
               executed' = Append(executed, [name |-> MethodOf(c), args |-> Sent(c), answer |-> names]),
               serving' = [serving EXCEPT ![t] =
                 Replying(Message(MethodOf(c), "reply", Write(Structs(c).result, names, n)))],
               conns' = [conns EXCEPT ![t].requests = Tail(@)]
        PROVE  RpcInv' /\ IsSequence'
    <3>1. /\ Grown /\ IsSequence' /\ ExecutionsOf(c)' = {n} /\ n \in DOMAIN executed'
          /\ executed'[n].name = MethodOf(c) /\ executed'[n].answer = names
          /\ \A d \in Calls : d # c => Kept(d)
      BY <2>4, <2>5
    <3>2. StepOf(t)
      BY <1>1, <1>3, <1>8, <2>5, <3>1 DEF StepOf
    <3>3. names \subseteq Names(Structs(c).result)
      BY DEF Answers
    <3>4. PICK m : m = Message(MethodOf(c), "reply", Write(Structs(c).result, names, n))
      OBVIOUS
    <3>5. /\ m.type = "reply" /\ m.name = MethodOf(c) /\ m.body = Write(Structs(c).result, names, n)
      BY <3>4, Messages
    <3>6. Answered(c, m)'
      BY <1>1, <3>1, <3>3, <3>5, SameScenario DEF Answered
    <3>7. /\ conns'[t] = [state |-> "open", used |-> conns[t].used, requests |-> <<>>, replies |-> <<>>]
          /\ serving'[t] = Replying(m)
      BY <1>8, <2>5, <3>4
    <3>8. RpcInv'
      BY <1>1, <1>3, <3>1, <3>2, <3>6, <3>7, <1>4, Taken
    <3>9. QED BY <3>1, <3>8
  (* It fails, and an exception is the reply. *)
  <2>6. ASSUME executed' = Append(executed, [name |-> MethodOf(c), args |-> Sent(c), answer |-> NoAnswer]),
               serving' = [serving EXCEPT ![t] = Replying(Exception(MethodOf(c)))],
               conns' = [conns EXCEPT ![t].requests = Tail(@)]
        PROVE  RpcInv' /\ IsSequence'
    <3>1. Grown /\ IsSequence' /\ Failed(c)' /\ \A d \in Calls : d # c => Kept(d)
      BY <2>4, <2>6
    <3>2. StepOf(t)
      BY <1>1, <1>3, <1>8, <2>6, <3>1 DEF StepOf
    <3>3. PICK m : m = Exception(MethodOf(c))
      OBVIOUS
    <3>4. m.type = "exception"
      BY <3>3, Messages DEF Exception
    <3>5. Answered(c, m)'
      BY <3>1, <3>4 DEF Answered
    <3>6. /\ conns'[t] = [state |-> "open", used |-> conns[t].used, requests |-> <<>>, replies |-> <<>>]
          /\ serving'[t] = Replying(m)
      BY <1>8, <2>6, <3>3
    <3>7. RpcInv'
      BY <1>1, <1>3, <3>1, <3>2, <3>5, <3>6, <1>4, Taken
    <3>8. QED BY <3>1, <3>7
  (* It meets a transport exception, and the connection is cut. *)
  <2>7. ASSUME executed' = Append(executed, [name |-> MethodOf(c), args |-> Sent(c), answer |-> NoAnswer]),
               serving' = [serving EXCEPT ![t] = None], scenario.python,
               conns' = [conns EXCEPT ![t].state = "broken", ![t].requests = <<>>]
        PROVE  RpcInv' /\ IsSequence'
    <3>1. Grown /\ IsSequence' /\ Failed(c)' /\ \A d \in Calls : d # c => Kept(d)
      BY <2>4, <2>7
    <3>2. /\ DOMAIN conns' = DOMAIN conns /\ DOMAIN serving' = DOMAIN serving
          /\ \A u \in Threads : u # t => conns'[u] = conns[u] /\ serving'[u] = serving[u]
          /\ serving'[t] = None
          /\ conns'[t] = [state |-> "broken", used |-> conns[t].used, requests |-> <<>>, replies |-> <<>>]
      BY <1>1, <1>7, <2>7
    <3>3. StepOf(t)
      BY <1>1, <1>3, <2>7, <3>1, <3>2 DEF StepOf
    <3>4. RpcInv'
      BY <1>1, <1>3, <2>7, <3>1, <3>2, <3>3, <1>4, Taken
    <3>5. QED BY <3>1, <3>4
  <2>8. \/ \E names \in Answers(Names(Structs(c).result)) :
             /\ executed' = Append(executed, [name |-> MethodOf(c), args |-> Sent(c), answer |-> names])
             /\ serving' = [serving EXCEPT ![t] =
                  Replying(Message(MethodOf(c), "reply", Write(Structs(c).result, names, n)))]
             /\ conns' = [conns EXCEPT ![t].requests = Tail(@)]
        \/ /\ executed' = Append(executed, [name |-> MethodOf(c), args |-> Sent(c), answer |-> NoAnswer])
           /\ serving' = [serving EXCEPT ![t] = Replying(Exception(MethodOf(c)))]
           /\ conns' = [conns EXCEPT ![t].requests = Tail(@)]
        \/ /\ executed' = Append(executed, [name |-> MethodOf(c), args |-> Sent(c), answer |-> NoAnswer])
           /\ serving' = [serving EXCEPT ![t] = None] /\ scenario.python
           /\ conns' = [conns EXCEPT ![t].state = "broken", ![t].requests = <<>>]
    BY <1>6, <2>1, <2>2, <2>3, <2>a DEF process
  <2>9. QED BY <2>5, <2>6, <2>7, <2>8
<1>11. QED BY <1>9, <1>10

(* The connections are cut; what was replied may still be read, or not. *)
LEMMA RestartStep ==
  ASSUME StubsAssumption, RpcInv, Restart
  PROVE  RpcInv'
<1>1. UNCHANGED <<scenario, calls, executed>> /\ restarts' \in Nat /\ restarts' # 0
  <2>1. UNCHANGED <<scenario, calls, executed>> /\ restarts' = restarts + 1
    BY DEF Restart
  <2>2. restarts \in Nat
    BY DEF RpcInv, StateInv
  <2>3. QED BY <2>1, <2>2
<1>2. PICK kept \in BOOLEAN :
        conns' = [k \in Threads |->
          CASE conns[k].state = "open" ->
                 [conns[k] EXCEPT !.state = "broken", !.requests = << >>,
                                  !.replies = IF kept THEN @ ELSE << >>]
            [] conns[k].state = "hung up" -> Closed
            [] OTHER -> conns[k]]
  BY DEF Restart
<1>3. Grown /\ (\A d : Kept(d)) /\ Calls' = Calls
  BY <1>1, NothingDone, SameScenario
<1>4. StateInv' /\ \A k \in Threads : serving'[k] = None
  BY <1>1, <1>2, <1>3 DEF Restart, RpcInv, StateInv
<1>5. OrderInv'
  BY <1>1, <1>3 DEF RpcInv, OrderInv, Pending
<1>6. ASSUME NEW t \in Threads
      PROVE  /\ conns[t].state = "open" =>
                  \E replies \in {conns[t].replies, <<>>} :
                     conns'[t] = [state |-> "broken", used |-> conns[t].used,
                                  requests |-> <<>>, replies |-> replies]
             /\ conns[t].state = "hung up" =>
                  conns'[t] = [state |-> "closed", used |-> FALSE, requests |-> <<>>, replies |-> <<>>]
             /\ conns[t].state \notin {"open", "hung up"} => conns'[t] = conns[t]
  <2>1. ThreadInv(t)
    BY DEF RpcInv
  <2>2. conns[t] = [state |-> conns[t].state, used |-> conns[t].used,
                    requests |-> conns[t].requests, replies |-> conns[t].replies]
    BY <2>1 DEF ThreadInv
  <2>3. ASSUME conns[t].state = "open"
        PROVE  conns'[t] = [state |-> "broken", used |-> conns[t].used, requests |-> <<>>,
                            replies |-> IF kept THEN conns[t].replies ELSE <<>>]
    BY <1>2, <2>2, <2>3
  <2>4. /\ conns[t].state = "hung up" => conns'[t] = Closed
        /\ conns[t].state \notin {"open", "hung up"} => conns'[t] = conns[t]
    BY <1>2
  <2>a. Closed = [state |-> "closed", used |-> FALSE, requests |-> <<>>, replies |-> <<>>]
    BY DEF Closed
  <2>5. QED BY <2>3, <2>4, <2>a
<1>7. ASSUME NEW t \in Threads  PROVE ThreadInv(t)'
  <2>1. ThreadInv(t)
    BY DEF RpcInv
  <2>2. conns[t] = [state |-> conns[t].state, used |-> conns[t].used,
                    requests |-> conns[t].requests, replies |-> conns[t].replies]
    BY <2>1 DEF ThreadInv
  <2>3. conns'[t] = [state |-> conns'[t].state, used |-> conns'[t].used,
                     requests |-> conns'[t].requests, replies |-> conns'[t].replies]
    <3>1. CASE conns[t].state = "open"
      <4>1. PICK replies : conns'[t] = [state |-> "broken", used |-> conns[t].used,
                                        requests |-> <<>>, replies |-> replies]
        BY <1>6, <3>1
      <4>2. QED BY <4>1
    <3>2. CASE conns[t].state = "hung up"
      <4>1. conns'[t] = [state |-> "closed", used |-> FALSE, requests |-> <<>>, replies |-> <<>>]
        BY <1>6, <3>2
      <4>2. QED BY <4>1
    <3>3. CASE conns[t].state \notin {"open", "hung up"}
      BY <1>6, <2>2, <3>3
    <3>4. QED BY <3>1, <3>2, <3>3
  <2>4. ASSUME \A c \in Calls : c[1] = t => calls[c].state # "sent"
        PROVE  /\ conns'[t].requests = <<>> /\ conns'[t].replies = <<>>
               /\ conns'[t].state \in {"closed", "broken"}
    <3>1. /\ conns[t].requests = <<>> /\ conns[t].replies = <<>>
          /\ conns[t].state \in {"open", "closed", "broken", "hung up"}
      BY <2>1, <2>4 DEF ThreadInv
    <3>2. CASE conns[t].state = "open"
      <4>1. conns'[t] = [state |-> "broken", used |-> conns[t].used, requests |-> <<>>, replies |-> <<>>]
        BY <1>6, <3>1, <3>2
      <4>2. QED BY <4>1
    <3>3. CASE conns[t].state = "hung up"
      <4>1. conns'[t] = [state |-> "closed", used |-> FALSE, requests |-> <<>>, replies |-> <<>>]
        BY <1>6, <3>3
      <4>2. QED BY <4>1
    <3>4. CASE conns[t].state \in {"closed", "broken"}
      BY <1>6, <3>1, <3>4
    <3>5. QED BY <3>1, <3>2, <3>3, <3>4
  <2>5. (\A c \in Calls' : c[1] = t => calls'[c].state # "sent") =>
          /\ conns'[t].requests = <<>> /\ conns'[t].replies = <<>>
          /\ conns'[t].state \in {"closed", "broken"} /\ serving'[t] = None
    BY <1>1, <1>3, <1>4, <2>4
  <2>6. QED BY <1>1, <2>3, <2>5 DEF ThreadInv
<1>8. ASSUME NEW c \in Calls, calls[c].state = "sent"  PROVE SentInv(c)'
  <2>1. SentInv(c) /\ c[1] \in Threads
    BY <1>8, CallsArePairs DEF RpcInv, CallInv
  <2>2. /\ conns[c[1]].used /\ conns[c[1]].state \in {"open", "broken"}
        /\ conns[c[1]].state = "broken" => conns[c[1]].requests = <<>>
        /\ \/ conns[c[1]].replies = <<>>
           \/ /\ conns[c[1]].replies # <<>> /\ conns[c[1]].replies = <<conns[c[1]].replies[1]>>
              /\ Answered(c, conns[c[1]].replies[1])
    BY <2>1 DEF SentInv
  <2>3. /\ conns'[c[1]].state = "broken" /\ conns'[c[1]].used = conns[c[1]].used
        /\ conns'[c[1]].requests = <<>>
        /\ conns'[c[1]].replies = <<>> \/ conns'[c[1]].replies = conns[c[1]].replies
    <3>1. CASE conns[c[1]].state = "open"
      <4>1. PICK replies \in {conns[c[1]].replies, <<>>} :
              conns'[c[1]] = [state |-> "broken", used |-> conns[c[1]].used,
                              requests |-> <<>>, replies |-> replies]
        BY <1>6, <2>1, <3>1
      <4>2. QED BY <4>1
    <3>2. CASE conns[c[1]].state = "broken"
      BY <1>6, <2>1, <2>2, <3>2
    <3>3. QED BY <2>2, <3>1, <3>2
  <2>4. serving'[c[1]] = None
    BY <1>4, <2>1
  <2>5. CASE conns'[c[1]].replies = <<>>
    BY <2>2, <2>3, <2>4, <2>5 DEF SentInv
  <2>6. CASE conns'[c[1]].replies # <<>>
    <3>1. /\ conns'[c[1]].replies = <<conns'[c[1]].replies[1]>>
          /\ Answered(c, conns'[c[1]].replies[1])
      BY <2>2, <2>3, <2>6
    <3>2. PICK m : m = conns'[c[1]].replies[1]
      OBVIOUS
    <3>3. Answered(c, m)'
      BY <1>1, <1>3, <3>1, <3>2, WhatIsDoneStays
    <3>4. QED BY <2>2, <2>3, <2>4, <2>6, <3>1, <3>2, <3>3 DEF SentInv
  <2>7. QED BY <2>5, <2>6
<1>9. ASSUME NEW c \in Calls  PROVE CallInv(c)'
  <2>1. CallInv(c) /\ ExecutionsOf(c)' = ExecutionsOf(c) /\ calls'[c] = calls[c]
    BY <1>1, <1>3 DEF RpcInv, Kept
  <2>2. MethodOf(c)' = MethodOf(c) /\ Structs(c)' = Structs(c) /\ executed' = executed
    BY <1>1, SameScenario
  <2>3. QED BY <1>1, <1>8, <2>1, <2>2 DEF CallInv
<1>10. QED BY <1>3, <1>4, <1>5, <1>7, <1>9 DEF RpcInv

-----------------------------------------------------------------------------
LEMMA RpcInit ==
  ASSUME StubsAssumption, Init
  PROVE  RpcInv /\ IsSequence
<1>1. /\ scenario \in Scenarios /\ restarts = 0 /\ executed = <<>>
      /\ DOMAIN calls = Calls /\ DOMAIN conns = Threads /\ DOMAIN serving = Threads
      /\ \A c \in Calls : calls[c].state = "new"
      /\ \A t \in Threads : conns[t] = Closed /\ serving[t] = None
  BY DEF Init
<1>2. StateInv /\ IsSequence
  <2>1. executed \in Seq({})
    BY <1>1
  <2>2. QED BY <1>1, <2>1 DEF StateInv, IsSequence
<1>3. OrderInv
  BY <1>1 DEF OrderInv
<1>4. \A c : ExecutionsOf(c) = {}
  BY <1>1 DEF ExecutionsOf
<1>5. \A c \in Calls : CallInv(c)
  BY <1>1, <1>4 DEF CallInv
<1>6. \A t \in Threads : ThreadInv(t)
  <2>1. \A t \in Threads :
          /\ conns[t] = [state |-> conns[t].state, used |-> conns[t].used,
                         requests |-> conns[t].requests, replies |-> conns[t].replies]
          /\ conns[t].state = "closed" /\ conns[t].requests = <<>> /\ conns[t].replies = <<>>
    BY <1>1 DEF Closed
  <2>2. QED BY <1>1, <2>1 DEF ThreadInv
<1>7. QED BY <1>2, <1>3, <1>5, <1>6 DEF RpcInv

LEMMA RpcStep ==
  ASSUME StubsAssumption, RpcInv, IsSequence, [Next]_vars
  PROVE  RpcInv' /\ IsSequence'
<1>1. CASE Restart
  BY <1>1, RestartStep DEF Restart, IsSequence
<1>2. ASSUME NEW t \in Threads, Client(t)  PROVE RpcInv' /\ IsSequence'
  <2>1. executed' = executed
    BY <1>2 DEF Client, Open, Send, Receive, ReceiveEnd, Close
  <2>2. RpcInv'
    BY <1>2, ConnectionSteps, SendStep, ReceiveStep, ReceiveEndStep DEF Client
  <2>3. QED BY <2>1, <2>2 DEF IsSequence
<1>3. ASSUME NEW t \in Threads, Server(t)  PROVE RpcInv' /\ IsSequence'
  <2>1. CASE dispatchCall(t)
    BY <2>1, DispatchStep
  <2>2. CASE Accept(t) \/ Reply(t) \/ HangUp(t)
    <3>1. executed' = executed
      BY <2>2 DEF Accept, Reply, HangUp
    <3>2. RpcInv'
      BY <2>2, AcceptStep, ReplyStep, ConnectionSteps
    <3>3. QED BY <3>1, <3>2 DEF IsSequence
  <2>3. QED BY <1>3, <2>1, <2>2 DEF Server
<1>4. CASE UNCHANGED vars
  <2>1. UNCHANGED <<scenario, calls, conns, serving, executed, restarts>>
    BY <1>4 DEF vars
  <2>2. Calls' = Calls /\ Grown /\ \A d : Kept(d)
    BY <2>1, SameScenario, NothingDone
  <2>3. StateInv' /\ OrderInv'
    BY <2>1, <2>2 DEF RpcInv, StateInv, OrderInv, Pending
  <2>4. \A c \in Calls : CallInv(c)'
    BY <2>1, <2>2, CallStays DEF RpcInv, Leaves
  <2>5. \A t \in Threads : ThreadInv(t)'
    BY <2>1, <2>2, ThreadStays DEF RpcInv
  <2>6. QED BY <2>1, <2>2, <2>3, <2>4, <2>5 DEF RpcInv, IsSequence
<1>5. QED BY <1>1, <1>2, <1>3, <1>4 DEF Next

LEMMA RpcInvHolds ==
  ASSUME StubsAssumption
  PROVE  Spec => []RpcInv
<1>1. Init => RpcInv /\ IsSequence
  BY RpcInit
<1>2. RpcInv /\ IsSequence /\ [Next]_vars => RpcInv' /\ IsSequence'
  BY RpcStep
<1>3. QED BY <1>1, <1>2, PTL DEF Spec

(* A call that returns was executed once, by its own method with its own arguments, and returns
   the answer that this execution gave: for any stubs whose structs agree, any calls of any number
   of threads, failing handlers, cut connections and restarts (send_, recv_ and process_). *)
THEOREM OwnAnswerHolds ==
  ASSUME StubsAssumption
  PROVE  Spec => []OwnAnswer
<1>1. ASSUME RpcInv  PROVE OwnAnswer
  <2> SUFFICES ASSUME NEW c \in Calls, calls[c].state = "returned"
               PROVE  /\ Cardinality(ExecutionsOf(c)) = 1
                      /\ \A i \in ExecutionsOf(c) :
                           /\ executed[i].name = scenario.calls[c]
                           /\ calls[c].value = [n \in Names(ClientStubs[scenario.calls[c]].result) |->
                                IF n \in executed[i].answer THEN <<i, n>> ELSE Unset]
    BY DEF OwnAnswer
  <2>1. PICK i \in DOMAIN executed :
          /\ ExecutionsOf(c) = {i} /\ executed[i].name = MethodOf(c)
          /\ calls[c].value = [n \in Names(Structs(c).result) |->
                                 IF n \in executed[i].answer THEN <<i, n>> ELSE Unset]
    BY <1>1 DEF RpcInv, CallInv
  <2>2. Cardinality(ExecutionsOf(c)) = 1
    BY <2>1, FS_Singleton
  <2>3. QED BY <2>1, <2>2 DEF Structs, MethodOf
<1>2. QED BY <1>1, RpcInvHolds, PTL

(* Unless the server was restarted, a call fails only for a method that the server does not know,
   for a failure of its own handler, or because an earlier call of its thread, whose handler met a
   transport exception, cut the connection that the thread keeps. *)
THEOREM FailuresContainedHolds ==
  ASSUME StubsAssumption
  PROVE  Spec => []FailuresContained
<1>1. ASSUME RpcInv  PROVE FailuresContained
  <2> SUFFICES ASSUME NEW c \in Calls, calls[c].state = "raised", restarts = 0
               PROVE  \/ scenario.calls[c] \notin DOMAIN ServerStubs
                      \/ Failed(c)
                      \/ /\ scenario.python /\ c[1] \in scenario.keeps
                         /\ \E i \in 1..(c[2] - 1) : Failed(<<c[1], i>>)
    BY DEF FailuresContained
  <2>1. \/ scenario.calls[c] \notin DOMAIN ServerStubs
        \/ Failed(c)
        \/ /\ scenario.python /\ c[1] \in scenario.keeps
           /\ \E b \in Calls : b[1] = c[1] /\ b[2] < c[2] /\ Failed(b)
    BY <1>1 DEF RpcInv, CallInv, MethodOf
  <2>2. ASSUME NEW b \in Calls, b[1] = c[1], b[2] < c[2], Failed(b)
        PROVE  b[2] \in 1..(c[2] - 1) /\ Failed(<<c[1], b[2]>>)
    <3>1. b = <<c[1], b[2]>>
      BY <1>1, <2>2, CallsArePairs DEF RpcInv
    <3>2. Failed(<<c[1], b[2]>>)
      BY <2>2, <3>1
    <3>3. b[2] \in 1..MaxCalls /\ c[2] \in 1..MaxCalls /\ MaxCalls \in Nat
      BY <1>1, CallsArePairs DEF RpcInv, StubsAssumption
    <3>4. QED BY <2>2, <3>2, <3>3
  <2>3. QED BY <2>1, <2>2
<1>2. QED BY <1>1, RpcInvHolds, PTL

=============================================================================
