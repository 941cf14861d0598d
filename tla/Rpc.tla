-------------------------------- MODULE Rpc --------------------------------
(***************************************************************************)
(* The calls of one program to another through the generated stubs: the    *)
(* arguments are written and read field by field, an answer or an          *)
(* exception comes back, and nothing but its place on the connection says  *)
(* which call it is for.  Connections are accepted by a server with a      *)
(* thread for each, or by one that serves them one at a time.  Handlers    *)
(* may fail, and the server may be restarted by the scripts.               *)
(***************************************************************************)
EXTENDS Integers, FiniteSets, Sequences, FiniteSetsExt, ThriftStructs

CONSTANTS
  Threads,       \* the threads that call
  MaxCalls,      \* calls of each, at most
  MaxRestarts,   \* restarts of the server
  Stubs,         \* names -> method -> the structs of its arguments and of its result
  Scenarios      \* records: the stubs of both sides, the languages, the calls, the connections

AllCalls == Threads \X (1..MaxCalls)

(* What the generated stubs are taken to be, and TLC finds them to be: the fields of a struct differ
   in their names, and in their identifiers or types; a method has arguments; and both sides have
   the same structs of the methods they both know. *)
Distinct(struct) ==
  \A f, g \in struct : f.name = g.name \/ (f.path = g.path /\ f.type = g.type) => f = g

ASSUME StubsAssumption ==
  /\ MaxCalls \in Nat /\ MaxRestarts \in Nat
  /\ \A s \in Scenarios :
       /\ DOMAIN s.calls \subseteq AllCalls
       /\ \A c \in DOMAIN s.calls : s.calls[c] \in DOMAIN Stubs[s.client]
       /\ \A m \in DOMAIN Stubs[s.client] :
            LET structs == Stubs[s.client][m]
            IN  /\ structs.args # {} /\ Distinct(structs.args) /\ Distinct(structs.result)
                /\ m \in DOMAIN Stubs[s.server] => Stubs[s.server][m] = structs

VARIABLES
  scenario,   \* client and server: names of stubs; cpp: the client's language; python: the
              \* server's; simple: one connection at a time; calls: call -> method;
              \* keeps: the threads that keep one connection for all their calls
  calls,      \* call -> its state, and what it returned
  conns,      \* connection -> its state, the requests and the replies under way
  serving,    \* connection -> what the server's thread is at
  executed,   \* history: what the handler was called with and answered
  restarts

vars == <<scenario, calls, conns, serving, executed, restarts>>

(* What a field holds that was not written, and the fields set by a handler that failed. *)
Unset    == << >>
NoAnswer == {}

-----------------------------------------------------------------------------
ClientStubs == Stubs[scenario.client]
ServerStubs == Stubs[scenario.server]

(* The structs on the wire: the named fields, whose values tell what they are of. *)
Names(struct) == {f.name : f \in struct}
Write(struct, names, of) ==
  {[path |-> f.path, type |-> f.type, value |-> <<of, f.name>>] :
     f \in {g \in struct : g.name \in names}}

(* A field that is not known, or that has another type, is skipped. *)
Read(struct, wire) ==
  [name \in Names(struct) |->
     LET field == CHOOSE f \in struct : f.name = name
         found == {w \in wire : w.path = field.path /\ w.type = field.type}
     IN  IF found = {} THEN Unset ELSE (CHOOSE w \in found : TRUE).value]

Message(name, type, body) == [name |-> name, type |-> type, body |-> body]

(* A thread of the server: none, reading the next request, or about to write a reply. *)
None    == << >>
Reading == << "reading" >>
Replying(message) == << "replying", message >>

-----------------------------------------------------------------------------
(* The client.  Each access object, and each program, has a connection of its own. *)
(* Seeded fault: the threads of a process use the connection of one of them. *)
OneConnection(t) == CHOOSE u \in Threads : TRUE
Connection(t) == t

Calls == DOMAIN scenario.calls
Pending(c) == c \in Calls /\ calls[c].state \in {"new", "sent"}
HasCall(t) == \E i \in 1..MaxCalls : Pending(<<t, i>>)
Current(t) == <<t, Min({i \in 1..MaxCalls : Pending(<<t, i>>)})>>
Waiting(t) == HasCall(t) /\ calls[Current(t)].state = "sent"
Finish(t, state, value) ==
  calls' = [calls EXCEPT ![Current(t)] = [state |-> state, value |-> value]]

Closed == [state |-> "closed", used |-> FALSE, requests |-> << >>, replies |-> << >>]

Open(t) ==
  LET k == Connection(t)
  IN  /\ HasCall(t)
      /\ conns[k].state = "closed"
      /\ conns' = [conns EXCEPT ![k] = [Closed EXCEPT !.state = "open"]]
      /\ UNCHANGED <<scenario, calls, serving, executed, restarts>>

Sent(c) == [name \in Names(ClientStubs[scenario.calls[c]].args) |-> <<c, name>>]

Send(t) ==
  LET k == Connection(t)
      c == Current(t)
      name == scenario.calls[c]
  IN  /\ HasCall(t) /\ ~Waiting(t)
      /\ conns[k].used => t \in scenario.keeps
      /\ \/ /\ conns[k].state = "open"
            /\ conns' = [conns EXCEPT ![k].used = TRUE,
                 ![k].requests = Append(@, Message(name, "call",
                               LET args == ClientStubs[name].args
                               IN  Write(args, Names(args), c)))]
            /\ Finish(t, "sent", Unset)
         \/ /\ conns[k].state = "broken"
            /\ conns' = [conns EXCEPT ![k].used = TRUE]
            /\ Finish(t, "sent", Unset) \/ Finish(t, "raised", Unset)
      /\ UNCHANGED <<scenario, serving, executed, restarts>>

(* Seeded fault: what is left of the connection still has an exception that was raised. *)
UnreadException(replies) ==
  IF Head(replies).type = "exception" THEN replies ELSE Tail(replies)
AfterReading(replies) == Tail(replies)

(* C++ looks at the name, and reads on when it is another; Python does not look. *)
Receive(t) ==
  LET k == Connection(t)
      name == scenario.calls[Current(t)]
      reply == Head(conns[k].replies)
      value == Read(ClientStubs[name].result, reply.body)
  IN  /\ Waiting(t)
      /\ conns[k].replies # << >>
      /\ conns' = [conns EXCEPT ![k].replies = AfterReading(@)]
      /\ CASE reply.type = "exception" -> Finish(t, "raised", Unset)
           [] scenario.cpp /\ reply.type # "exception" /\ reply.name # name -> UNCHANGED calls
           [] OTHER -> IF \A n \in DOMAIN value : value[n] = Unset
                       THEN Finish(t, "raised", Unset)
                       ELSE Finish(t, "returned", value)
      /\ UNCHANGED <<scenario, serving, executed, restarts>>

(* The end of the stream is a transport exception. *)
ReceiveEnd(t) ==
  /\ Waiting(t)
  /\ conns[Connection(t)].state = "broken"
  /\ conns[Connection(t)].replies = << >>
  /\ Finish(t, "raised", Unset)
  /\ UNCHANGED <<scenario, conns, serving, executed, restarts>>

(* With the object of the access, or at the end of the program. *)
Close(t) ==
  LET k == Connection(t)
  IN  /\ conns[k].state \in {"open", "broken"}
      /\ ~Waiting(t)
      /\ IF t \in scenario.keeps THEN ~HasCall(t) ELSE conns[k].used \/ ~HasCall(t)
      /\ conns' = [conns EXCEPT ![k] =
                     IF serving[k] = None THEN Closed ELSE [@ EXCEPT !.state = "hung up"]]
      /\ UNCHANGED <<scenario, calls, serving, executed, restarts>>

-----------------------------------------------------------------------------
(* The server. *)
Accept(k) ==
  /\ conns[k].state = "open"
  /\ serving[k] = None
  /\ scenario.simple => \A j \in Threads : serving[j] = None
  /\ serving' = [serving EXCEPT ![k] = Reading]
  /\ UNCHANGED <<scenario, calls, conns, executed, restarts>>

Exception(name) == Message(name, "exception", {})

(* A handler of Python may leave fields unset, or return nothing at all; one that meets a
   transport exception of its own calls ends the connection without a reply. *)
Answers(names) ==
  LET whole == {names}
      partly == {names \ {<<"success", "error">>}, {}}
  IN  IF scenario.python THEN whole \cup partly ELSE whole

process(k, request) ==
  LET structs == ServerStubs[request.name]
      args == Read(structs.args, request.body)
      Called(answer) == executed' = Append(executed,
                          [name |-> request.name, args |-> args, answer |-> answer])
  IN  \/ \E names \in Answers(Names(structs.result)) :
           /\ Called(names)
           /\ serving' = [serving EXCEPT ![k] = Replying(
                Message(request.name, "reply", Write(structs.result, names, Len(executed) + 1)))]
           /\ conns' = [conns EXCEPT ![k].requests = Tail(@)]
      \/ /\ Called(NoAnswer)
         /\ serving' = [serving EXCEPT ![k] = Replying(Exception(request.name))]
         /\ conns' = [conns EXCEPT ![k].requests = Tail(@)]
      \/ /\ scenario.python
         /\ Called(NoAnswer)
         /\ serving' = [serving EXCEPT ![k] = None]
         /\ conns' = [conns EXCEPT ![k].state = "broken", ![k].requests = << >>]

dispatchCall(k) ==
  LET request == Head(conns[k].requests)
  IN  /\ serving[k] = Reading
      /\ conns[k].requests # << >>
      /\ IF request.name \in DOMAIN ServerStubs THEN process(k, request)
         ELSE /\ serving' = [serving EXCEPT ![k] = Replying(Exception(request.name))]
              /\ conns' = [conns EXCEPT ![k].requests = Tail(@)]
              /\ UNCHANGED executed
      /\ UNCHANGED <<scenario, calls, restarts>>

Reply(k) ==
  /\ serving[k] \notin {None, Reading}
  /\ serving' = [serving EXCEPT ![k] = Reading]
  /\ conns' = [conns EXCEPT ![k].replies = Append(@, serving[k][2])]
  /\ UNCHANGED <<scenario, calls, executed, restarts>>

(* Seeded fault: the server does not see that a client has left. *)
StayedOn(k) == FALSE /\ UNCHANGED vars
HangUp(k) ==
  /\ serving[k] = Reading
  /\ conns[k].state = "hung up"
  /\ serving' = [serving EXCEPT ![k] = None]
  /\ conns' = [conns EXCEPT ![k] = Closed]
  /\ UNCHANGED <<scenario, calls, executed, restarts>>

(* Replies that were sent may still be read. *)
Restart ==
  /\ restarts < MaxRestarts
  /\ restarts' = restarts + 1
  /\ serving' = [k \in Threads |-> None]
  /\ \E kept \in BOOLEAN :
       conns' = [k \in Threads |->
         CASE conns[k].state = "open" ->
                [conns[k] EXCEPT !.state = "broken", !.requests = << >>,
                                 !.replies = IF kept THEN @ ELSE << >>]
           [] conns[k].state = "hung up" -> Closed
           [] OTHER -> conns[k]]
  /\ UNCHANGED <<scenario, calls, executed>>

-----------------------------------------------------------------------------
Init ==
  /\ scenario \in Scenarios
  /\ calls = [c \in Calls |-> [state |-> "new", value |-> Unset]]
  /\ conns = [k \in Threads |-> Closed]
  /\ serving = [k \in Threads |-> None]
  /\ executed = << >>
  /\ restarts = 0

Client(t) == Open(t) \/ Send(t) \/ Receive(t) \/ ReceiveEnd(t) \/ Close(t)
Server(k) == Accept(k) \/ dispatchCall(k) \/ Reply(k) \/ HangUp(k)

Next == Restart \/ \E t \in Threads : Client(t) \/ Server(t)
Spec == Init /\ [][Next]_vars

(* The threads run, and the handlers come to an end. *)
FairSpec == Spec /\ \A t \in Threads : WF_vars(Client(t)) /\ WF_vars(Server(t))

-----------------------------------------------------------------------------
ExecutionsOf(c) == {i \in DOMAIN executed : executed[i].args = Sent(c)}

(* A call that returns was executed once, by the method it names and with the arguments it
   was made with, and returns what the handler answered to it, field by field: no reply of
   another call is taken for its own, whatever failed on the connection before, and the
   stubs of the two sides agree (send_, recv_ and process_ of every method, in C++ and in
   Python, and the read and write of their structs). *)
OwnAnswer ==
  \A c \in Calls : calls[c].state = "returned" =>
    /\ Cardinality(ExecutionsOf(c)) = 1
    /\ \A i \in ExecutionsOf(c) :
         /\ executed[i].name = scenario.calls[c]
         /\ calls[c].value = [n \in Names(ClientStubs[scenario.calls[c]].result) |->
              IF n \in executed[i].answer THEN <<i, n>> ELSE Unset]

(* Unless the server was restarted, a call fails only if the server does not know its method,
   if its own handler failed, or if the handler of an earlier call cut the connection that
   the thread keeps: an exception leaves nothing behind for the calls after it. *)
Failed(c) == \E i \in ExecutionsOf(c) : executed[i].answer = NoAnswer
FailuresContained ==
  \A c \in Calls : calls[c].state = "raised" /\ restarts = 0 =>
    \/ scenario.calls[c] \notin DOMAIN ServerStubs
    \/ Failed(c)
    \/ /\ scenario.python /\ c[1] \in scenario.keeps
       /\ \E i \in 1..(c[2] - 1) : Failed(<<c[1], i>>)

(* Every call comes to an end, with an answer or an exception: through failing handlers,
   restarts, and a server that serves one connection at a time. *)
CallsReturn ==
  \A c \in AllCalls : <>(c \in Calls => calls[c].state \in {"returned", "raised"})
=============================================================================
