------------------------------ MODULE MC_Version ------------------------------
EXTENDS Version

\* Numbers with one and two digits; a one-letter and a two-letter word.
MCNums == {0, 1, 10}
MCWords == {<<"a">>, <<"1", "a">>}

=============================================================================
