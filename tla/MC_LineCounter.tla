---------------------------- MODULE MC_LineCounter ----------------------------
(* LINE_COUNTER_META['C'] of statistics.py with bounded lines for TLC.      *)
EXTENDS LineCounter

MCChars == {"/", "*", "c", " ", "q"}
MCLineComment == <<"/", "/">>
MCBlockOpen == <<"/", "*">>
MCBlockClose == <<"*", "/">>
=============================================================================
