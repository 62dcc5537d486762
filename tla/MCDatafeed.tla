----------------------------- MODULE MCDatafeed -----------------------------
(***************************************************************************)
(* Windows to fetch: two chunks, two from inside a bucket, an empty one.   *)
(***************************************************************************)
EXTENDS Datafeed

FetchWindows == {<<0, 4>>, <<1, 4>>, <<1, 1>>}

FeedSpec == FeedInit /\ [][FeedNext]_feedVars

=============================================================================
