---------------------------- MODULE MC_AstNodeDef ----------------------------
EXTENDS AstNodeDef

CONSTANTS a, b, c

\* Three sections in file order; the first one is abstract ('.a').
MCNameSeq == <<a, b, c>>
MCAbstract == {a}

=============================================================================
