----------------------------- MODULE MCOlToBasic -----------------------------
(* Small instances of OlToBasic, with the rows of MCOlConvert.              *)
EXTENDS OlToBasic, MCOlConvert
=============================================================================
