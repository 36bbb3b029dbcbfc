---------------------------- MODULE MC_AstConvert ----------------------------
(* Model values and bounds for checking AstConvert with TLC.               *)
EXTENDS AstConvert, TLC

\* Two element tags of each kind would only rename states; one of each
\* exercises both shapes.  Two texts tell reordered fragments apart.
MCMaxElems == 3
MCMaxChunks == 3

\* Texts are interchangeable: no code looks at their value.
MCSymmetry == Permutations(Texts)
=============================================================================
