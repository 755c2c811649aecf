--------------------------- MODULE MC_MeetingPage ---------------------------
(* The requests of the pages.                                              *)
EXTENDS MeetingPage

PageRequests == User \X {"page", "poll"}
=============================================================================
