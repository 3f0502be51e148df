---------------------------- MODULE MCDailyFileSink ---------------------------
(* Instance of DailyFileSink for TLC.                                        *)
EXTENDS DailyFileSink

\* daylight-saving time ends in the middle of the fourth day
SummerEnds == 0..10
==============================================================================
