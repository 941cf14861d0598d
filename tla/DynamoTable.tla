---------------------------- MODULE DynamoTable ----------------------------
(***************************************************************************)
(* One DynamoDB table as the handlers of dynamodb_access use it.  A table  *)
(* is a function from the IDs of its items to items, an item a function    *)
(* from the names of the attributes it has to their values: DynamoDB has   *)
(* no schema beyond the key, so two items need not have the same           *)
(* attributes.  IDs are positive integers, in the order in which a scan    *)
(* visits the items.                                                       *)
(***************************************************************************)
EXTENDS Integers

NoKey == 0    \* an empty LastEvaluatedKey

EmptyTable == [id \in {} |-> [a \in {} |-> 0]]

(* old with the attributes of new set on it *)
Merge(old, new) ==
  [a \in DOMAIN old \cup DOMAIN new |-> IF a \in DOMAIN new THEN new[a] ELSE old[a]]

Store(tbl, id, item) ==
  [i \in DOMAIN tbl \cup {id} |-> IF i = id THEN item ELSE tbl[i]]

(* Seeded fault: PutItem without its condition. *)
UnconditionalPut(tbl, id, item) == Store(tbl, id, item)

(* PutItem under the condition attribute_not_exists(ID) *)
PutItem(tbl, id, item) == IF id \in DOMAIN tbl THEN tbl ELSE Store(tbl, id, item)

(* UpdateItem creates the item when there is none *)
UpdateItem(tbl, id, values) ==
  Store(tbl, id, IF id \in DOMAIN tbl THEN Merge(tbl[id], values) ELSE values)

(* DeleteItem of an absent item is a success that changes nothing *)
DeleteItem(tbl, id) == [i \in DOMAIN tbl \ {id} |-> tbl[i]]

(* A filter expression "A = :a and B = :b" as a function from attributes to values *)
Matches(item, filter) ==
  \A a \in DOMAIN filter : a \in DOMAIN item /\ item[a] = filter[a]

Matching(tbl, filter) == {id \in DOMAIN tbl : Matches(tbl[id], filter)}

(* The IDs of the items a Scan returns that starts after startKey and stops at upto *)
ItemsBetween(tbl, filter, startKey, upto) ==
  {id \in Matching(tbl, filter) : startKey < id /\ id <= upto}

=============================================================================
