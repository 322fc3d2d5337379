---------------------------- MODULE MCOlFindLoop ----------------------------
(* Instances of OlFindLoop, with the transducers of MCOlLookup.             *)
EXTENDS OlFindLoop, MCOlLookup

\* The result limit is exercised by the runs of MCOlLookup.
MCUnlimited == {-1}

=============================================================================
