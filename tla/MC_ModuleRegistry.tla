-------------------------- MODULE MC_ModuleRegistry --------------------------
EXTENDS ModuleRegistry

CONSTANTS f1, f2, readme, m1, m2, ghost

\* Two C files and a file the '*.c' filter skips; their stems name the
\* modules m1 and m2.  'ghost' is a section for a module with no file.
MCFiles == {f1, f2, readme}
MCCFiles == {f1, f2}
MCStem == [f \in MCFiles |-> IF f = f2 THEN m2 ELSE m1]
MCModNames == {m1, m2}
MCSectNames == {m1, ghost}

=============================================================================
