------------------------- MODULE MC_DepositService -------------------------
(* Small instances of DepositService: two threads, an ad with photos and one with a video. *)
EXTENDS DepositService

CONSTANTS t1, t2

MCThreads == {t1, t2}
MCIDs     == {1, 2}
MCVideos  == {2}

=============================================================================
