------------------------------- MODULE MC_Rpc -------------------------------
(* Small instances of Rpc: up to two calls by each of two threads, on every service of the repository
   with each pair of languages in use. *)
EXTENDS Rpc, TLC

MCThreads == 1..2

(* One server was built before deleteTable was added. *)
MCStubs ==
  [ dynamodb_access_cpp |-> dynamodb_access_cpp,
    dynamodb_access_py |-> dynamodb_access_py,
    dynamodb_access_older |-> [m \in DOMAIN dynamodb_access_cpp \ {"deleteTable"} |->
                                 dynamodb_access_cpp[m]],
    deposit_service_cpp |-> deposit_service_cpp,
    deposit_service_py |-> deposit_service_py,
    emailalertservice_cpp |-> emailalertservice_cpp,
    emailalertservice_py |-> emailalertservice_py,
    sendemailservice_cpp |-> sendemailservice_cpp,
    sendemailservice_py |-> sendemailservice_py ]

(* A thread calls each method and then another, or calls twice beside a thread that calls. *)
Scripts(methods) ==
  LET second == CHOOSE m \in methods : TRUE
  IN  {(<<1, 1>> :> first) @@ (<<1, 2>> :> second) : first \in methods} \cup
      {(<<1, 1>> :> second) @@ (<<1, 2>> :> second) @@ (<<2, 1>> :> second)}

Using(client, server, cpp, python, simple, keeping) ==
  { [client |-> client, server |-> server, cpp |-> cpp, python |-> python, simple |-> simple,
     calls |-> script, keeps |-> keeps] :
      script \in Scripts(DOMAIN MCStubs[client]), keeps \in keeping }

(* The requests of rest_server open a connection each; the other programs keep theirs. *)
MCScenarios ==
  Using("dynamodb_access_cpp", "dynamodb_access_cpp", TRUE, FALSE, FALSE, {{}, {1}}) \cup
  Using("dynamodb_access_py", "dynamodb_access_cpp", FALSE, FALSE, FALSE, {{1, 2}}) \cup
  Using("dynamodb_access_py", "dynamodb_access_older", FALSE, FALSE, FALSE, {{1, 2}}) \cup
  Using("deposit_service_cpp", "deposit_service_py", TRUE, TRUE, FALSE, {{}}) \cup
  Using("emailalertservice_cpp", "emailalertservice_py", TRUE, TRUE, FALSE, {{}}) \cup
  Using("emailalertservice_py", "emailalertservice_py", FALSE, TRUE, FALSE, {{1}}) \cup
  Using("sendemailservice_cpp", "sendemailservice_py", TRUE, TRUE, TRUE, {{}})
=============================================================================
