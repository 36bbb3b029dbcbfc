---------------------------- MODULE AstStreamFilter ----------------------------
(***************************************************************************)
(* AstDataStreamFilter of src/tool/ast2dot.py together with its one caller *)
(* chain: main() wraps the input in the filter unless --plain is given,    *)
(* xml.sax.parse first probes it with read(0) (prepare_input_source), then *)
(* the expat reader reads chunks of _bufsize characters until read returns *)
(* '', and main's finally block closes the filter.                          *)
(*                                                                         *)
(* Text is a sequence of symbols: "x" any ordinary character, "nl" a line  *)
(* feed, "S" the start marker 'AST vvv' and "E1","E2" the two halves of    *)
(* the end marker 'AST ^^^' (so that a chunk boundary can split it).       *)
(* Chunk size and the 80-character lookback are counted in symbols.        *)
(***************************************************************************)
EXTENDS Integers, Sequences, SequencesExt

CONSTANTS
  MaxLen,    \* bound on the length of the input text
  BufSize,   \* the expat reader's chunk size (self._bufsize, 2**16)
  LookBack   \* the lookback window before the end marker (80)

ASSUME /\ MaxLen \in Nat
       /\ BufSize \in Nat \ {0}
       /\ LookBack \in Nat

Alphabet == {"x", "nl", "S", "E1", "E2"}

VARIABLES
  input,      \* the text of the wrapped stream (fixed per run)
  pos,        \* how much of it the wrapped stream has handed out
  state,      \* self.state: 0 seeking, 1 streaming, 2 done, -1 closed
  srcClosed,  \* the wrapped stream has been closed
  caller,     \* "probe" read(0), "feed" read(BufSize), "finally", "done"
  delivered   \* the concatenation of the chunks handed to the parser

vars == <<input, pos, state, srcClosed, caller, delivered>>

-----------------------------------------------------------------------------
(* The wrapped text stream.                                                *)

\* readline(): up to and including the next line feed, or to the end.
NextLine(s, p) ==
  LET nl == SelectInSubSeq(s, p + 1, Len(s), LAMBDA c : c = "nl")
  IN SubSeq(s, p + 1, IF nl = 0 THEN Len(s) ELSE nl)

\* read(n): at most n characters.
NextChunk(s, p, n) == SubSeq(s, p + 1, Min({p + n, Len(s)}))

\* str.find('AST ^^^'): 1-based start of the first whole marker, 0 if none.
FindEndMarker(res) ==
  LET I == {i \in 1 .. Len(res) - 1 : res[i] = "E1" /\ res[i + 1] = "E2"}
  IN IF I = {} THEN 0 ELSE Min(I)

\* res[:pos if pos1 == -1 else pos1] where pos1 is the FIRST line feed in
\* res[max(pos - 80, 0):pos] (1-based marker start m).
Truncate(res, m) ==
  LET from == Max({m - 1 - LookBack, 0}) + 1
      pos1 == SelectInSubSeq(res, from, m - 1, LAMBDA c : c = "nl")
  IN SubSeq(res, 1, (IF pos1 = 0 THEN m ELSE pos1) - 1)

-----------------------------------------------------------------------------

Init ==
  /\ input \in BoundedSeq(Alphabet, MaxLen)
  /\ pos = 0
  /\ state = 0
  /\ srcClosed = FALSE
  /\ caller = "probe"
  /\ delivered = <<>>

\* The length the caller passes to read().
Length == IF caller = "probe" THEN 0 ELSE BufSize

\* What the caller does with the string read() returned: the probe only
\* checks its type; an empty chunk ends the expat feed loop.
Returned(res) ==
  /\ caller' = IF caller = "probe" THEN "feed"
               ELSE IF res = <<>> THEN "finally" ELSE "feed"
  /\ delivered' = IF caller = "feed" THEN delivered \o res ELSE delivered

\* Plausible slips, each a variant of one action below.

Read_AdvanceByLength ==
  /\ caller \in {"probe", "feed"}
  /\ state # 0
  /\ IF state = 1
     THEN LET res == NextChunk(input, pos, Length)
              m == FindEndMarker(res)
          IN /\ pos' = pos + Length
             /\ IF m = 0
                THEN /\ state' = state /\ Returned(res)
                ELSE /\ state' = 2 /\ Returned(Truncate(res, m))
     ELSE /\ Returned(<<>>)
          /\ UNCHANGED <<pos, state>>
  /\ UNCHANGED <<input, srcClosed>>

\* read() in state 0, one iteration of its while loop: read a line and,
\* if it ends with the start marker, go to state 1 and recurse.  At the
\* end of the stream readline() returns '' and the loop goes on forever.
SeekLine ==
  /\ caller \in {"probe", "feed"}
  /\ state = 0
  /\ LET line == NextLine(input, pos)
     IN /\ pos' = pos + Len(line)
        /\ state' = IF line # <<>> /\ Last(line) = "S" THEN 1 ELSE 0
  /\ UNCHANGED <<input, srcClosed, caller, delivered>>

\* read() in any other state.  State 1: hand out the chunk unless it holds
\* the end marker; if it does, go to state 2 and cut the chunk before the
\* marker.  States 2 and -1: return ''.
Read ==
  /\ caller \in {"probe", "feed"}
  /\ state # 0
  /\ IF state = 1
     THEN LET res == NextChunk(input, pos, Length)
              m == FindEndMarker(res)
          IN /\ pos' = pos + Len(res)
             /\ IF m = 0
                THEN /\ state' = state /\ Returned(res)
                ELSE /\ state' = 2 /\ Returned(Truncate(res, m))
     ELSE /\ Returned(<<>>)
          /\ UNCHANGED <<pos, state>>
  /\ UNCHANGED <<input, srcClosed>>

\* main's finally block: input_stream.close() on the filter, which closes
\* the wrapped stream and sets state -1.
Close ==
  /\ caller = "finally"
  /\ caller' = "done"
  /\ srcClosed' = TRUE
  /\ state' = -1
  /\ UNCHANGED <<input, pos, delivered>>

Next == SeekLine \/ Read \/ Close

\* One thread runs main(); as long as it can take a step it does.
Spec == Init /\ [][Next]_vars /\ WF_vars(Next)

-----------------------------------------------------------------------------

TypeOK ==
  /\ input \in Seq(Alphabet) /\ Len(input) <= MaxLen
  /\ pos \in 0 .. Len(input)
  /\ state \in {0, 1, 2, -1}
  /\ srcClosed \in BOOLEAN
  /\ caller \in {"probe", "feed", "finally", "done"}
  /\ delivered \in Seq(Alphabet) /\ Len(delivered) <= Len(input)

-----------------------------------------------------------------------------
(* Properties.                                                             *)

StartAt == SelectInSeq(input, LAMBDA c : c = "S")
EndAt == LET I == {i \in 1 .. Len(input) - 1 :
                    input[i] = "E1" /\ input[i + 1] = "E2"}
         IN IF I = {} THEN 0 ELSE Min(I)
Aligned ==
  /\ StartAt > 0 /\ EndAt > StartAt + 1
  /\ input[StartAt + 1] = "nl" /\ input[EndAt - 1] = "nl"
  /\ \A i \in 1 .. EndAt - 1 :
       input[i] \in {"S", "E1", "E2"} => i = StartAt
Payload == SubSeq(input, StartAt + 2, EndAt - 2)

\* Every run of main() in filter mode finishes, whatever the input
\* (section 7: a missing start marker is reported, not waited on), and on
\* an aligned input the parser has been handed exactly the payload.
ExtractsAlignedPayload ==
  <>(caller = "done" /\ (Aligned => delivered = Payload))

=============================================================================
