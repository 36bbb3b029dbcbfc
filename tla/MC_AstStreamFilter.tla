-------------------------- MODULE MC_AstStreamFilter --------------------------
(* Bounds for checking AstStreamFilter with TLC.                           *)
EXTENDS AstStreamFilter

\* Inputs up to six symbols hold a prefix line, both markers, a payload
\* line and a trailing line; chunks of two symbols can split the end
\* marker; a lookback of two reaches past one short line.
MCMaxLen == 6
MCBufSize == 2
MCLookBack == 2
=============================================================================
