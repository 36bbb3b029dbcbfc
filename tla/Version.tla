------------------------------- MODULE Version -------------------------------
(***************************************************************************)
(* src/tool/version.py: main() loads VERSION.txt with load_version, then,  *)
(* as its flags ask, prints str(version), prints major.minor.patch and     *)
(* writes the C header with generate_header.                               *)
(*                                                                         *)
(* A text is a sequence of one-character strings over Chars; "0" and "1"  *)
(* are the digits, "a" stands for any other word character, "x" for any    *)
(* character that is neither a word character nor one of . - + and a line *)
(* feed.  None is written as the model value None.                          *)
(***************************************************************************)
EXTENDS Integers, Sequences, SequencesExt

CONSTANTS
  None,         \* Python's None
  Nums,         \* the version numbers of the sample versions
  Words,        \* the state and extra words of the sample versions
  MaxExtra,     \* the most extra words of a sample version
  JunkLen,      \* the most characters after a sample version string
  MaxShortText  \* every text up to this length is tried as well

Chars == {"0", "1", "a", "x", ".", "-", "+", "\n"}
Digits == {"0", "1"}
WordChars == {"0", "1", "a"}

ASSUME /\ Nums \subseteq Nat
       /\ \A w \in Words : w # <<>> /\ \A i \in DOMAIN w : w[i] \in WordChars

VARIABLES
  text,      \* the first 256 characters of VERSION.txt
  flags,     \* the options given: "print", "stem", "header"
  pc,        \* the statement of main to run next
  version,   \* the Version that load_version returned
  stdout,    \* what main has printed, one entry per print call
  header     \* the values generate_header wrote, or None

vars == <<text, flags, pc, version, stdout, header>>

-----------------------------------------------------------------------------
(* Strings and numbers.                                                    *)

CharAt(s, i) == IF i \in 1 .. Len(s) THEN s[i] ELSE ""

RECURSIVE Span(_, _, _)
\* The length of the longest run of characters of the set C from i on.
Span(s, i, C) == IF CharAt(s, i) \in C THEN 1 + Span(s, i + 1, C) ELSE 0

RECURSIVE IntOf(_)
\* int() of a string of digits
IntOf(s) == IF s = <<>> THEN 0 ELSE 10 * IntOf(Front(s)) + (IF Last(s) = "1" THEN 1 ELSE 0)

RECURSIVE NumStr(_)
\* str() of a number whose decimal digits are 0 and 1
NumStr(n) == (IF n >= 10 THEN NumStr(n \div 10) ELSE <<>>)
             \o <<IF n % 10 = 1 THEN "1" ELSE "0">>

RECURSIVE Split(_)
\* str.split('+')
Split(s) == LET i == SelectInSeq(s, LAMBDA c : c = "+")
            IN IF i = 0 THEN <<s>>
               ELSE <<SubSeq(s, 1, i - 1)>> \o Split(SubSeq(s, i + 1, Len(s)))

\* '+'.join(ws)
Join(ws) == FoldLeft(LAMBDA acc, w : acc \o <<"+">> \o w, Head(ws), Tail(ws))

RECURSIVE Extras(_, _)
\* The match of ((?:\+\w+)*) from position i.
Extras(s, i) ==
  LET w == Span(s, i + 1, WordChars)
  IN IF CharAt(s, i) = "+" /\ w > 0
     THEN SubSeq(s, i, i + w) \o Extras(s, i + w + 1)
     ELSE <<>>

\* re.match(r'(\d+)\.(\d+)\.(\d+)((?:-\w+)?)((?:\+\w+)*)', data): the five
\* groups, or None.  Each part takes the longest run it can; no part can
\* give back a character the next one needs, so this is the match.
Match(s) ==
  LET n1 == Span(s, 1, Digits)
      n2 == Span(s, n1 + 2, Digits)
      n3 == Span(s, n1 + n2 + 3, Digits)
      e3 == n1 + n2 + n3 + 2
      w4 == Span(s, e3 + 2, WordChars)
      g4 == IF CharAt(s, e3 + 1) = "-" /\ w4 > 0 THEN SubSeq(s, e3 + 1, e3 + 1 + w4)
            ELSE <<>>
  IN IF /\ n1 > 0 /\ n2 > 0 /\ n3 > 0
        /\ CharAt(s, n1 + 1) = "." /\ CharAt(s, n1 + n2 + 2) = "."
     THEN <<SubSeq(s, 1, n1), SubSeq(s, n1 + 2, n1 + 1 + n2),
            SubSeq(s, n1 + n2 + 3, e3), g4, Extras(s, e3 + 1 + Len(g4))>>
     ELSE None

-----------------------------------------------------------------------------
(* Plausible slips, each a variant of one definition below.                *)

\* load_version keeping the '-' of the state group
Load_StateUnsliced(s) ==
  LET m == Match(s)
  IN IF m = None THEN None
     ELSE [major |-> IntOf(m[1]), minor |-> IntOf(m[2]), patch |-> IntOf(m[3]),
           state |-> IF m[4] # <<>> THEN m[4] ELSE None,
           extra |-> IF m[5] # <<>> THEN Split(Tail(m[5])) ELSE None]

\* load_version: the Version of the text, or None where it raises
\* RuntimeError('invalid version string').
Load(s) ==
  LET m == Match(s)
  IN IF m = None THEN None
     ELSE [major |-> IntOf(m[1]), minor |-> IntOf(m[2]), patch |-> IntOf(m[3]),
           state |-> IF m[4] # <<>> THEN Tail(m[4]) ELSE None,
           extra |-> IF m[5] # <<>> THEN Split(Tail(m[5])) ELSE None]

\* __str__ joining the extra words with '' instead of '+'
Str_ExtraUnjoined(v) ==
  NumStr(v.major) \o <<".">> \o NumStr(v.minor) \o <<".">> \o NumStr(v.patch)
  \o (IF v.state \notin {None, <<>>} THEN <<"-">> \o v.state ELSE <<>>)
  \o (IF v.extra \notin {None, <<>>} THEN <<"+">> \o FlattenSeq(v.extra) ELSE <<>>)

\* Version.__str__ ('if self.state' and 'if self.extra' are false for
\* None and for an empty string or list).
Str(v) ==
  NumStr(v.major) \o <<".">> \o NumStr(v.minor) \o <<".">> \o NumStr(v.patch)
  \o (IF v.state \notin {None, <<>>} THEN <<"-">> \o v.state ELSE <<>>)
  \o (IF v.extra \notin {None, <<>>} THEN <<"+">> \o Join(v.extra) ELSE <<>>)

-----------------------------------------------------------------------------

\* The versions the sample texts are made from.
SampleVersions ==
  [major : Nums, minor : Nums, patch : Nums,
   state : {None} \cup Words,
   extra : {None} \cup UNION {[1 .. k -> Words] : k \in 1 .. MaxExtra}]

\* VERSION.txt: a sample version followed by a few more characters, or
\* any short text.
Texts ==
  {Str(v) \o t : v \in SampleVersions, t \in BoundedSeq(Chars, JunkLen)}
  \cup BoundedSeq(Chars, MaxShortText)

Init ==
  /\ text \in Texts
  /\ flags \in SUBSET {"print", "stem", "header"}
  /\ pc = "load"
  /\ version = None /\ stdout = <<>> /\ header = None

\* version = load_version(...)
LoadVersion ==
  /\ pc = "load"
  /\ version' = Load(text)
  /\ pc' = IF version' = None THEN "error" ELSE "print"
  /\ UNCHANGED <<text, flags, stdout, header>>

\* if args.print: print(version)
PrintVersion ==
  /\ pc = "print"
  /\ stdout' = IF "print" \in flags THEN Append(stdout, Str(version) \o <<"\n">>)
               ELSE stdout
  /\ pc' = "stem"
  /\ UNCHANGED <<text, flags, version, header>>

\* if args.print_stem: print(major, minor, patch, sep='.', end='')
PrintStem ==
  /\ pc = "stem"
  /\ stdout' = IF "stem" \in flags
               THEN Append(stdout, NumStr(version.major) \o <<".">>
                                   \o NumStr(version.minor) \o <<".">>
                                   \o NumStr(version.patch))
               ELSE stdout
  /\ pc' = "header"
  /\ UNCHANGED <<text, flags, version, header>>

\* if args.make_header: generate_header(version, ...)
MakeHeader ==
  /\ pc = "header"
  /\ header' = IF "header" \in flags
               THEN [major |-> version.major, minor |-> version.minor,
                     patch |-> version.patch, string |-> Str(version)]
               ELSE header
  /\ pc' = "done"
  /\ UNCHANGED <<text, flags, version, stdout>>

Next == LoadVersion \/ PrintVersion \/ PrintStem \/ MakeHeader

Spec == Init /\ [][Next]_vars

-----------------------------------------------------------------------------

Word == Seq(WordChars) \ {<<>>}

TypeOK ==
  /\ pc \in {"load", "print", "stem", "header", "done", "error"}
  /\ version = None \/
       /\ version.major \in Nat /\ version.minor \in Nat /\ version.patch \in Nat
       /\ version.state \in {None} \cup Word
       /\ version.extra \in {None} \cup (Seq(Word) \ {<<>>})
  /\ stdout \in Seq(Seq(Chars))

\* The header agrees with itself and with the file: OW_VERSION_STRING,
\* read back by load_version, gives the OW_VERSION_MAJOR, _MINOR and _PATCH
\* the header defines and the state and extra words loaded from the file.
HeaderStringRoundTrips ==
  header # None =>
    Load(header.string) = [version EXCEPT !.major = header.major,
                                          !.minor = header.minor,
                                          !.patch = header.patch]

=============================================================================
