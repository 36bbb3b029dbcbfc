----------------------------- MODULE LineCounter -----------------------------
(***************************************************************************)
(* scan_code of src/tool/statistics.py: the loop that classifies each line *)
(* of a source file as blank, comment or code and carries the              *)
(* in_block_comment flag from one line to the next.  One step is one       *)
(* iteration of the loop over an arbitrary next line; the file is the      *)
(* sequence of lines chosen.                                               *)
(*                                                                         *)
(* A line is a sequence of one-character strings over a small alphabet:    *)
(* "/" "*" "c" (any other code character), " " (whitespace) and "q" (a     *)
(* double quote).  The LineCounterMeta of a language is given by the       *)
(* constants; <<>> stands for None.                                        *)
(***************************************************************************)
EXTENDS Integers, Sequences, SequencesExt

CONSTANTS
  Chars,         \* the alphabet of a line
  LineComment,   \* meta.line_comment, e.g. <<"/", "/">>
  BlockOpen,     \* meta.block_comment[0], e.g. <<"/", "*">>
  BlockClose,    \* meta.block_comment[1], e.g. <<"*", "/">>
  HasStrings,    \* meta.string_pattern is not None
  MaxLineLen,    \* bound on the length of a line
  MaxLines       \* bound on the number of lines of a file

ASSUME /\ {" ", "q"} \subseteq Chars
       /\ (BlockOpen = <<>>) = (BlockClose = <<>>)
       /\ HasStrings \in BOOLEAN
       /\ MaxLineLen \in Nat /\ MaxLines \in Nat

Lines == BoundedSeq(Chars, MaxLineLen)
Kinds == {"blank", "comment", "code"}

VARIABLES
  in_block_comment,  \* the flag of scan_code
  code_info,         \* FileCodeInfo counters: total and one per kind
  refBlock,          \* ghost: a line-by-line lexer is inside /* ... */
  refCode,           \* ghost: the lines on which that lexer finds code
  lastLine           \* ghost: the line read last

vars == <<in_block_comment, code_info, refBlock, refCode, lastLine>>

-----------------------------------------------------------------------------
(* str operations as scan_code uses them, with 0-based positions.          *)

\* str.find(sub, start): the first position >= start where sub occurs, or -1
Find(s, sub, start) ==
  LET I == {i \in start .. Len(s) - Len(sub) :
              SubSeq(s, i + 1, i + Len(sub)) = sub}
  IN IF I = {} THEN -1 ELSE Min(I)

\* str.strip()
Strip(s) ==
  LET first == SelectInSeq(s, LAMBDA c : c # " ")
      last == SelectLastInSeq(s, LAMBDA c : c # " ")
  IN IF first = 0 THEN <<>> ELSE SubSeq(s, first, last)

RECURSIVE RemoveStrings(_)
\* string_pattern.sub('', line) for "(?:\\.|[^"\\])*": each pair of quotes
\* and what lies between them goes, left to right; a lone quote stays.
RemoveStrings(s) ==
  LET i == SelectInSeq(s, LAMBDA c : c = "q")
      j == IF i = 0 THEN 0
           ELSE SelectInSubSeq(s, i + 1, Len(s), LAMBDA c : c = "q")
  IN IF j = 0 THEN s
     ELSE SubSeq(s, 1, i - 1) \o RemoveStrings(SubSeq(s, j + 1, Len(s)))

RECURSIVE ScanFrom(_, _)
\* The 'while True' loop after a line has been counted as code: skip
\* closed block comments from pos on; stop at a line comment that comes
\* first; TRUE when a block comment opens and does not close on the line.
ScanFrom(line, pos) ==
  LET pos1 == IF LineComment = <<>> THEN -1 ELSE Find(line, LineComment, pos)
      pos2 == IF BlockOpen = <<>> THEN -1 ELSE Find(line, BlockOpen, pos)
      pos3 == Find(line, BlockClose, pos2 + Len(BlockOpen))
  IN IF pos1 >= 0 /\ (pos1 < pos2 \/ pos2 < 0) THEN FALSE
     ELSE IF pos2 < 0 THEN FALSE
     ELSE IF pos3 >= 0 THEN ScanFrom(line, pos3 + Len(BlockClose))
     ELSE TRUE

\* The string literals are removed before the scan.
ScanCode(line) ==
  ScanFrom(IF HasStrings THEN RemoveStrings(line) ELSE line, 0)

\* A line that is a comment as a whole: it starts with the line comment,
\* or starts with the block opener and ends with the block closer.
IsCommentLine(line) ==
  \/ LineComment # <<>> /\ IsPrefix(LineComment, line)
  \/ BlockOpen # <<>> /\ IsPrefix(BlockOpen, line) /\ IsSuffix(BlockClose, line)

\* One loop iteration on a stripped line: the counter it bumps and the
\* in_block_comment flag it leaves.
\* Plausible slips, each a variant of one definition below.

Classify(line, inBlock) ==
  IF inBlock
  THEN LET pos1 == Find(line, BlockClose, 0)
           rest == SubSeq(line, pos1 + Len(BlockClose) + 1, Len(line))
       IN IF pos1 = -1 THEN [kind |-> "comment", inBlock |-> TRUE]
          ELSE IF rest = <<>> THEN [kind |-> "comment", inBlock |-> FALSE]
          ELSE [kind |-> "code", inBlock |-> ScanCode(rest)]
  ELSE IF line = <<>> THEN [kind |-> "blank", inBlock |-> FALSE]
  ELSE IF IsCommentLine(line) THEN [kind |-> "comment", inBlock |-> FALSE]
  ELSE [kind |-> "code", inBlock |-> ScanCode(line)]

-----------------------------------------------------------------------------
(* Reference: a lexer that reads the line character by character.          *)

At(s, i, d) == d # <<>> /\ i + Len(d) - 1 <= Len(s) /\ SubSeq(s, i, i + Len(d) - 1) = d

RECURSIVE LexFrom(_, _, _)
\* TRUE when the line, read from position i in lexer state st ("code",
\* "block" or "str"), ends inside a block comment.  Strings do not span
\* lines; a line comment ends the line.
LexFrom(s, i, st) ==
  IF i > Len(s) THEN st = "block"
  ELSE CASE st = "block" ->
              IF At(s, i, BlockClose) THEN LexFrom(s, i + Len(BlockClose), "code")
              ELSE LexFrom(s, i + 1, "block")
         [] st = "str" ->
              LexFrom(s, i + 1, IF s[i] = "q" THEN "code" ELSE "str")
         [] OTHER ->
              IF At(s, i, LineComment) THEN FALSE
              ELSE IF At(s, i, BlockOpen) THEN LexFrom(s, i + Len(BlockOpen), "block")
              ELSE LexFrom(s, i + 1,
                           IF HasStrings /\ s[i] = "q" THEN "str" ELSE "code")

EndsInBlock(line, inBlock) == LexFrom(line, 1, IF inBlock THEN "block" ELSE "code")

RECURSIVE CodeFrom(_, _, _)
\* TRUE when the line, read from position i in lexer state st, holds a
\* character outside every comment other than whitespace (a quote opens a
\* string, which is code).
CodeFrom(s, i, st) ==
  IF i > Len(s) THEN FALSE
  ELSE IF st = "block"
  THEN IF At(s, i, BlockClose) THEN CodeFrom(s, i + Len(BlockClose), "code")
       ELSE CodeFrom(s, i + 1, "block")
  ELSE IF At(s, i, LineComment) THEN FALSE
  ELSE IF At(s, i, BlockOpen) THEN CodeFrom(s, i + Len(BlockOpen), "block")
  ELSE s[i] # " " \/ CodeFrom(s, i + 1, "code")

HasCode(line, inBlock) == CodeFrom(line, 1, IF inBlock THEN "block" ELSE "code")

-----------------------------------------------------------------------------

Init ==
  /\ in_block_comment = FALSE
  /\ code_info = [k \in {"total"} \cup Kinds |-> 0]
  /\ refBlock = FALSE
  /\ refCode = 0
  /\ lastLine = <<>>

\* One iteration of 'for line in file': count the line, strip it, classify
\* it and carry the block-comment flag to the next line.
\* a code line counted twice, once more when the code scan is done
ScanLine_CodeTwice(raw) ==
  /\ code_info.total < MaxLines
  /\ LET r == Classify(Strip(raw), in_block_comment)
     IN /\ code_info' = [code_info EXCEPT !.total = @ + 1,
                          ![r.kind] = @ + (IF r.kind = "code" THEN 2 ELSE 1)]
        /\ in_block_comment' = r.inBlock
  /\ refBlock' = EndsInBlock(raw, refBlock)
  /\ refCode' = refCode + (IF HasCode(raw, refBlock) THEN 1 ELSE 0)
  /\ lastLine' = raw

ScanLine(raw) ==
  /\ code_info.total < MaxLines
  /\ LET r == Classify(Strip(raw), in_block_comment)
     IN /\ code_info' = [code_info EXCEPT !.total = @ + 1, ![r.kind] = @ + 1]
        /\ in_block_comment' = r.inBlock
  /\ refBlock' = EndsInBlock(raw, refBlock)
  /\ refCode' = refCode + (IF HasCode(raw, refBlock) THEN 1 ELSE 0)
  /\ lastLine' = raw

Next == \E raw \in Lines : ScanLine(raw)

Spec == Init /\ [][Next]_vars

-----------------------------------------------------------------------------

TypeOK ==
  /\ in_block_comment \in BOOLEAN
  /\ code_info \in [{"total"} \cup Kinds -> 0 .. MaxLines]
  /\ refBlock \in BOOLEAN
  /\ refCode \in 0 .. MaxLines
  /\ lastLine \in Lines

\* scan_code's code_lines counts exactly the lines on which a lexer reading
\* the file character by character finds code: a character outside every
\* comment.  The comment-line shortcut and the count taken before the
\* delimiter scan decide a line's kind from its two ends, and the flag
\* they carry decides the kind of the lines after it.
CodeLinesMatchLexer ==
  code_info.code = refCode

\* The two kinds of line on which scan_code's heuristic is known to lose
\* track (see CodeLinesMatchLexer): a line holding a double quote, whose
\* removal by string_pattern can join or hide comment delimiters, and a
\* comment line whose opener and closer overlap, like '/*/', which the
\* comment-line shortcut takes for a closed comment.
Suspect(line) ==
  \/ HasStrings /\ \E i \in 1 .. Len(line) : line[i] = "q"
  \/ LET l == Strip(line)
     IN IsCommentLine(l) /\ BlockOpen # <<>>
        /\ Len(l) < Len(BlockOpen) + Len(BlockClose)

=============================================================================
