--------------------------- MODULE MC_RestServer ---------------------------
(* Small instances of RestServer: two threads for three requests, and scans of two pages. *)
EXTENDS RestServer, TLC

CONSTANTS r1, r2, r3

MCRequests == {r1, r2, r3}

Asked(services, complete, types) == [service : services, complete : complete, searchType : types]
Search(type) == Asked({"/search/all"}, {TRUE}, {type})
Deposit      == Asked({"/announcedeposit"}, {TRUE}, {"For sale"})
Lone         == Asked({"/search/ad"}, {TRUE}, Types)
                \cup Asked((Getters \cup Posters) \ {"/search/all"}, {TRUE, FALSE}, {"For sale"})
                \cup Asked({"unknown", "/search/all"}, {FALSE}, {"For sale"})

(* A search, and another one or a deposit, beside any request. *)
MCContents == (r1 :> Search("For sale")) @@ (r2 :> Search("For rent") \cup Deposit) @@ (r3 :> Lone)

=============================================================================
