--------------------------- MODULE MCXfstCompiler ---------------------------
(***************************************************************************)
(* Sessions of hfst-xfst.  The properties only ask whether two networks    *)
(* are the same, so a network is a number and an operation makes another   *)
(* number of it; network 1 is a transducer, so that there is no cross      *)
(* product with it, and maps a flag diacritic, so that it is not composed. *)
(***************************************************************************)
EXTENDS XfstCompiler

MCNets == 0 .. 1
MCNameOrder == << "x" >>
MCSymbolNet(n) == 0

MCApplyUnary(op, t) == 1 - t
MCApplyBinary(op, t, u) == (t + u + 1) % 2

MCNotAutomata(t, u) == 1 \in {t, u}
MCFlagsNotIdentities(t, u) == 1 \in {t, u}
=============================================================================
