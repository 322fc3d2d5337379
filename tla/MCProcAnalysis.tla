--------------------------- MODULE MCProcAnalysis ---------------------------
(***************************************************************************)
(* Instances of ProcAnalysis.  Tokens: the symbols a, b, upper case A, the  *)
(* blank and the mark "."; "[]" is a superblank, "?" a letter and "\n" a    *)
(* space that are not in the alphabet, "^" a reserved character.            *)
(***************************************************************************)
EXTENDS ProcAnalysis

CONSTANTS Tokens, MaxStream

MCLowerOf == [x \in {"A"} |-> "a"]

\* Words that are prefixes of each other, multiword expressions that are not
\* completed, and a word that begins with a mark.
MCLexicons ==
    { {<< "a" >>, << "a", "b" >>, << "a", "_", "b" >>},
      {<< "a", "b", "a" >>, << "a" >>, << "A" >>, << ".", "b" >>, << "." >>},
      {<< "b", "_", "a", "b" >>, << ".", "b" >>} }

Texts == UNION {[1 .. n -> Tokens] : n \in 0 .. MaxStream}

\* As in a pipeline (-z, case folded, Apertium output), and as with -c -x.
Piped(texts) ==
    {[stream |-> t, null_flush |-> TRUE, fold |-> TRUE, preserve |-> TRUE] : t \in texts}

Plain(texts) ==
    {[stream |-> t, null_flush |-> FALSE, fold |-> FALSE, preserve |-> FALSE] : t \in texts}

Ending(texts, ends) == {t \o e : t \in texts, e \in ends}

\* Lines: every text ends with a newline and then perhaps with a NUL, which
\* another request may follow; a mark is followed by a letter.
Lines ==
    LET lines == {x \in Texts : \A k \in DOMAIN x : x[k] = "." =>
                                k < Len(x) /\ x[k + 1] \in AlphabeticTokens}
    IN  Piped(Ending(lines, {<< "\n" >>, << "\n", "NUL", "a", "\n", "NUL" >>}))
          \cup Plain(Ending(lines, {<< "\n" >>, << "\n", "NUL" >>}))

\* Words that are followed by the NUL directly.
Requests == Piped(Ending(Texts, {<< "NUL" >>}))
=============================================================================
