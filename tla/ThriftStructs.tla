--------------------------- MODULE ThriftStructs ---------------------------
(***************************************************************************)
(* The structs of the services' generated stubs, in C++ and in Python: the *)
(* field identifiers and types their read and write functions use.  A      *)
(* field of a struct within a struct has the path of identifiers that      *)
(* leads to it, and a map of structs is shown by one entry.                *)
(***************************************************************************)
EXTENDS Sequences

Field(id, type, name) == {[path |-> <<id>>, type |-> type, name |-> <<name>>]}
In(id, name, struct) ==
  {[path |-> <<id>> \o f.path, type |-> f.type, name |-> <<name>> \o f.name] : f \in struct}

(* A result has one field, the answer. *)
Answer(struct) == In(0, "success", struct)
Announces == Field(0, "LIST", "success")

-----------------------------------------------------------------------------
(* C++: the types, then the arguments and the result of each method. *)
OperationResult == Field(1, "BOOL", "success") \cup Field(2, "STRING", "error")
ValueType == Field(1, "STRING", "field") \cup Field(2, "I32", "fieldtype")
KeyValue == Field(1, "STRING", "key") \cup In(2, "value", ValueType)
GetResult == In(1, "result", OperationResult) \cup Field(2, "MAP", "values")
ScanReqResult ==
  In(1, "result", OperationResult) \cup
  Field(2, "LIST", "values") \cup
  Field(3, "BOOL", "scanend")
DepositResult == Field(1, "BOOL", "success") \cup Field(2, "STRING", "error")
EmailAlertResult == Field(1, "BOOL", "success") \cup Field(2, "STRING", "error")
SendEmailResult == Field(1, "BOOL", "success") \cup Field(2, "STRING", "error")

dynamodb_access_put_args == Field(1, "STRING", "tablename") \cup In(2, "values", ValueType)
dynamodb_access_put_result == Answer(OperationResult)
dynamodb_access_get_args ==
  Field(1, "STRING", "tablename") \cup
  In(2, "key", KeyValue) \cup
  In(3, "attributestoget", ValueType)
dynamodb_access_get_result == Answer(GetResult)
dynamodb_access_scan_args ==
  Field(1, "STRING", "tablename") \cup
  In(2, "attributestoget", ValueType) \cup
  Field(3, "STRING", "filterexpression") \cup
  In(4, "exprValues", ValueType)
dynamodb_access_scan_result == Answer(ScanReqResult)
dynamodb_access_remove_args == Field(1, "STRING", "tablename") \cup In(2, "key", KeyValue)
dynamodb_access_remove_result == Answer(OperationResult)
dynamodb_access_update_args ==
  Field(1, "STRING", "tablename") \cup
  In(2, "key", KeyValue) \cup
  In(3, "values", ValueType)
dynamodb_access_update_result == Answer(OperationResult)
dynamodb_access_createTable_args ==
  Field(1, "STRING", "tablename") \cup
  In(2, "key", KeyValue) \cup
  Field(3, "MAP", "properties")
dynamodb_access_createTable_result == Answer(OperationResult)
dynamodb_access_deleteTable_args == Field(1, "STRING", "tablename")
dynamodb_access_deleteTable_result == Answer(OperationResult)

deposit_service_announce_deposit_args ==
  Field(1, "STRING", "user_id") \cup
  Field(2, "STRING", "data")
deposit_service_announce_deposit_result == Answer(DepositResult)
deposit_service_delete_announce_args ==
  Field(1, "STRING", "user_id") \cup
  Field(2, "STRING", "announce_id")
deposit_service_delete_announce_result == Answer(DepositResult)
deposit_service_fetch_user_announces_args == Field(1, "STRING", "user_id")
deposit_service_fetch_user_announces_result == Announces

emailalertservice_registerEmailAlert_args ==
  Field(1, "STRING", "userid") \cup
  Field(2, "MAP", "parameters")
emailalertservice_registerEmailAlert_result == Answer(EmailAlertResult)
emailalertservice_notifyNewAnnounces_args == Field(1, "STRING", "city")
emailalertservice_notifyNewAnnounces_result == Answer(EmailAlertResult)
emailalertservice_my_realestate_search_args == Field(1, "STRING", "userid")
emailalertservice_my_realestate_search_result == Announces
emailalertservice_changeAlertStatus_args ==
  Field(1, "STRING", "alert_id") \cup
  Field(2, "STRING", "alert_status")
emailalertservice_changeAlertStatus_result == Answer(EmailAlertResult)

sendemailservice_sendemailtosurfyn_args ==
  Field(1, "STRING", "sender_email") \cup
  Field(2, "STRING", "subject") \cup
  Field(3, "STRING", "msg")
sendemailservice_sendemailtosurfyn_result == Answer(SendEmailResult)
sendemailservice_sendaccountcreationemail_args ==
  Field(1, "STRING", "display_name") \cup
  Field(2, "STRING", "new_account_email")
sendemailservice_sendaccountcreationemail_result == Answer(SendEmailResult)

-----------------------------------------------------------------------------
(* Python: the same of the stubs of the spiders and of the services in Python. *)
py_OperationResult == Field(1, "BOOL", "success") \cup Field(2, "STRING", "error")
py_ValueType == Field(1, "STRING", "field") \cup Field(2, "I32", "fieldtype")
py_KeyValue == Field(1, "STRING", "key") \cup In(2, "value", py_ValueType)
py_GetResult == In(1, "result", py_OperationResult) \cup Field(2, "MAP", "values")
py_ScanReqResult ==
  In(1, "result", py_OperationResult) \cup
  Field(2, "LIST", "values") \cup
  Field(3, "BOOL", "scanend")
py_DepositResult == Field(1, "BOOL", "success") \cup Field(2, "STRING", "error")
py_EmailAlertResult == Field(1, "BOOL", "success") \cup Field(2, "STRING", "error")
py_SendEmailResult == Field(1, "BOOL", "success") \cup Field(2, "STRING", "error")

put_args == Field(1, "STRING", "tablename") \cup In(2, "values", py_ValueType)
put_result == Answer(py_OperationResult)
get_args ==
  Field(1, "STRING", "tablename") \cup
  In(2, "key", py_KeyValue) \cup
  In(3, "attributestoget", py_ValueType)
get_result == Answer(py_GetResult)
scan_args ==
  Field(1, "STRING", "tablename") \cup
  In(2, "attributestoget", py_ValueType) \cup
  Field(3, "STRING", "filterexpression") \cup
  In(4, "exprValues", py_ValueType)
scan_result == Answer(py_ScanReqResult)
remove_args == Field(1, "STRING", "tablename") \cup In(2, "key", py_KeyValue)
remove_result == Answer(py_OperationResult)
update_args ==
  Field(1, "STRING", "tablename") \cup
  In(2, "key", py_KeyValue) \cup
  In(3, "values", py_ValueType)
update_result == Answer(py_OperationResult)
createTable_args ==
  Field(1, "STRING", "tablename") \cup
  In(2, "key", py_KeyValue) \cup
  Field(3, "MAP", "properties")
createTable_result == Answer(py_OperationResult)
deleteTable_args == Field(1, "STRING", "tablename")
deleteTable_result == Answer(py_OperationResult)

announce_deposit_args == Field(1, "STRING", "user_id") \cup Field(2, "STRING", "data")
announce_deposit_result == Answer(py_DepositResult)
delete_announce_args == Field(1, "STRING", "user_id") \cup Field(2, "STRING", "announce_id")
delete_announce_result == Answer(py_DepositResult)
fetch_user_announces_args == Field(1, "STRING", "user_id")
fetch_user_announces_result == Announces

registerEmailAlert_args == Field(1, "STRING", "userid") \cup Field(2, "MAP", "parameters")
registerEmailAlert_result == Answer(py_EmailAlertResult)
notifyNewAnnounces_args == Field(1, "STRING", "city")
notifyNewAnnounces_result == Answer(py_EmailAlertResult)
my_realestate_search_args == Field(1, "STRING", "userid")
my_realestate_search_result == Announces
changeAlertStatus_args ==
  Field(1, "STRING", "alert_id") \cup
  Field(2, "STRING", "alert_status")
changeAlertStatus_result == Answer(py_EmailAlertResult)

sendemailtosurfyn_args ==
  Field(1, "STRING", "sender_email") \cup
  Field(2, "STRING", "subject") \cup
  Field(3, "STRING", "msg")
sendemailtosurfyn_result == Answer(py_SendEmailResult)
sendaccountcreationemail_args ==
  Field(1, "STRING", "display_name") \cup
  Field(2, "STRING", "new_account_email")
sendaccountcreationemail_result == Answer(py_SendEmailResult)

-----------------------------------------------------------------------------
(* The methods of a service: what the stubs of each language take for arguments and result. *)
Method(args, result) == [args |-> args, result |-> result]
dynamodb_access_cpp ==
  [ put |-> Method(dynamodb_access_put_args, dynamodb_access_put_result),
    get |-> Method(dynamodb_access_get_args, dynamodb_access_get_result),
    scan |-> Method(dynamodb_access_scan_args, dynamodb_access_scan_result),
    remove |-> Method(dynamodb_access_remove_args, dynamodb_access_remove_result),
    update |-> Method(dynamodb_access_update_args, dynamodb_access_update_result),
    createTable |-> Method(dynamodb_access_createTable_args, dynamodb_access_createTable_result),
    deleteTable |-> Method(dynamodb_access_deleteTable_args, dynamodb_access_deleteTable_result) ]
deposit_service_cpp ==
  [ announce_deposit |-> Method(deposit_service_announce_deposit_args, deposit_service_announce_deposit_result),
    delete_announce |-> Method(deposit_service_delete_announce_args, deposit_service_delete_announce_result),
    fetch_user_announces |-> Method(deposit_service_fetch_user_announces_args, deposit_service_fetch_user_announces_result) ]
emailalertservice_cpp ==
  [ registerEmailAlert |-> Method(emailalertservice_registerEmailAlert_args, emailalertservice_registerEmailAlert_result),
    notifyNewAnnounces |-> Method(emailalertservice_notifyNewAnnounces_args, emailalertservice_notifyNewAnnounces_result),
    my_realestate_search |-> Method(emailalertservice_my_realestate_search_args, emailalertservice_my_realestate_search_result),
    changeAlertStatus |-> Method(emailalertservice_changeAlertStatus_args, emailalertservice_changeAlertStatus_result) ]
sendemailservice_cpp ==
  [ sendemailtosurfyn |-> Method(sendemailservice_sendemailtosurfyn_args, sendemailservice_sendemailtosurfyn_result),
    sendaccountcreationemail |-> Method(sendemailservice_sendaccountcreationemail_args, sendemailservice_sendaccountcreationemail_result) ]
dynamodb_access_py ==
  [ put |-> Method(put_args, put_result),
    get |-> Method(get_args, get_result),
    scan |-> Method(scan_args, scan_result),
    remove |-> Method(remove_args, remove_result),
    update |-> Method(update_args, update_result),
    createTable |-> Method(createTable_args, createTable_result),
    deleteTable |-> Method(deleteTable_args, deleteTable_result) ]
deposit_service_py ==
  [ announce_deposit |-> Method(announce_deposit_args, announce_deposit_result),
    delete_announce |-> Method(delete_announce_args, delete_announce_result),
    fetch_user_announces |-> Method(fetch_user_announces_args, fetch_user_announces_result) ]
emailalertservice_py ==
  [ registerEmailAlert |-> Method(registerEmailAlert_args, registerEmailAlert_result),
    notifyNewAnnounces |-> Method(notifyNewAnnounces_args, notifyNewAnnounces_result),
    my_realestate_search |-> Method(my_realestate_search_args, my_realestate_search_result),
    changeAlertStatus |-> Method(changeAlertStatus_args, changeAlertStatus_result) ]
sendemailservice_py ==
  [ sendemailtosurfyn |-> Method(sendemailtosurfyn_args, sendemailtosurfyn_result),
    sendaccountcreationemail |-> Method(sendaccountcreationemail_args, sendaccountcreationemail_result) ]
=============================================================================
