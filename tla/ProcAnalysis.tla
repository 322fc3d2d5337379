---------------------------- MODULE ProcAnalysis ----------------------------
(***************************************************************************)
(* AnalysisApplicator::apply of hfst-proc, with its token stream: words are *)
(* matched token by token against the transducer, the longest match so far *)
(* is remembered, and when no path is left the stream is moved back to     *)
(* where the printed word ends.  Tokens are model strings; the transducer  *)
(* is the set Lexicon of the symbol sequences it accepts.                  *)
(***************************************************************************)
EXTENDS ProcBuffer, SequencesExt, FiniteSetsExt

CONSTANTS
    Symbols,                \* tokens of type Symbol
    Superblanks,            \* tokens of type Superblank
    Reserved,               \* tokens of type ReservedCharacter
    AlphabeticTokens,       \* tokens is_alphabetic holds for
    Blank,                  \* the alphabet's blank symbol
    Nul,                    \* the NUL character
    LowerOf,                \* upper case symbol -> its lower case symbol
    Lexicons,               \* the transducers, each a set of sequences of symbols
    Inputs                  \* input streams with their settings:
                            \* [stream, null_flush, fold, preserve]

\* The end of the input is no token and no letter; blanks have no case.
ASSUME AnalysisAssumption ==
    /\ \A i \in Inputs : i.stream \in Seq(ToSet(i.stream)) /\ NoToken \notin ToSet(i.stream)
    /\ \A l \in Lexicons : \A w \in l : w \in Seq(Symbols)
    /\ NoToken \notin AlphabeticTokens
    /\ DOMAIN LowerOf \subseteq Symbols \ {Blank}

VARIABLES
    lexicon, stream,        \* the transducer and the whole input
    null_flush,             \* option -z
    fold,                   \* upper case input also matches lower case symbols
    preserve,               \* formatter.preserve_nonalphabetic()
    stage,                  \* where in the loop apply is
    input,                  \* what was not yet read from the input stream
    token_buffer,
    next_token,
    surface_form,
    paths,                  \* LookupState: << accepted sequence, how much of it is read >>
    analyzed_forms,         \* the accepted sequences of the last final paths
    last_stream_location,
    part_of_word,           \* next_token_is_part_of_word
    output                  \* what was written: words, unknown words, single tokens, flushes

settings == << lexicon, stream, null_flush, fold, preserve >>
streamVars == << input, token_buffer, output >>
wordVars == << surface_form, paths, analyzed_forms, last_stream_location >>
procVars == << settings, stage, streamVars, next_token, wordVars, part_of_word >>

IsAlphabetic(t) == t \in AlphabeticTokens

\* to_symbol, as a set: empty for NO_SYMBOL_NUMBER.
ToSymbol(t) ==
    IF t \in Symbols THEN {t} ELSE IF t \in Superblanks THEN {Blank} ELSE {}

InitialPaths == {<< w, 0 >> : w \in lexicon}

ProcInit ==
    /\ lexicon \in Lexicons
    /\ \E i \in Inputs :
         /\ stream = i.stream
         /\ null_flush = i.null_flush
         /\ fold = i.fold
         /\ preserve = i.preserve
    /\ stage = "get"
    /\ input = stream
    /\ token_buffer = EmptyBuffer
    /\ next_token = NoToken
    /\ surface_form = << >>
    /\ paths = InitialPaths
    /\ analyzed_forms = {}
    /\ last_stream_location = 0
    /\ part_of_word = FALSE
    /\ output = << >>

-----------------------------------------------------------------------------
(* TokenIOStream.                                                           *)

Upcoming ==
    IF ~ IsEmpty(token_buffer) THEN NextElement(token_buffer)
    ELSE IF input = << >> THEN NoToken ELSE Head(input)

AfterUpcoming ==
    IF ~ IsEmpty(token_buffer) THEN AfterNext(token_buffer)
    ELSE IF input = << >> THEN token_buffer ELSE Add(token_buffer, Head(input))

Item(kind, tokens, forms) == [kind |-> kind, tokens |-> tokens, forms |-> forms]

\* Mistaken variant: flushes when a NUL comes next, before the token is handled.
ReadTokenFlushEarly ==
    LET reads == IsEmpty(token_buffer) /\ input # << >>
    IN  /\ input' = IF reads THEN Tail(input) ELSE input
        /\ output' = IF reads /\ null_flush /\ Len(input) > 1 /\ input[2] = Nul
                       THEN Append(output, Item("flush", << >>, {})) ELSE output

\* get_token, except for the buffer: a token that is not in the buffer is read
\* from the input.  With -z, reading a NUL writes one and flushes the output;
\* without, read_utf8_char leaves the input failed and nothing more is read.
ReadToken ==
    LET reads == IsEmpty(token_buffer) /\ input # << >>
    IN  /\ input' = IF ~ reads THEN input
                    ELSE IF Head(input) = Nul /\ ~ null_flush THEN << >> ELSE Tail(input)
        /\ output' = IF reads /\ null_flush /\ Head(input) = Nul
                       THEN Append(output, Item("flush", << >>, {})) ELSE output

-----------------------------------------------------------------------------
(* LookupState.                                                             *)

IsFinal == \E p \in paths : p[2] = Len(p[1])

\* Mistaken variant: every active path counts as final.
FinalFormsAll == {p[1] : p \in paths}

FinalForms == {p[1] : p \in {q \in paths : q[2] = Len(q[1])}}

\* step tries the symbol and, unless lookup is case sensitive, its lower case one.
Alternatives(t) ==
    ToSymbol(t) \cup {LowerOf[x] : x \in {y \in ToSymbol(t) : fold /\ y \in DOMAIN LowerOf}}

\* apply_input: a token that is not a symbol ends all paths.
Step(t) ==
    {<< p[1], p[2] + 1 >> : p \in {q \in paths : /\ q[2] < Len(q[1])
                                                /\ q[1][q[2] + 1] \in Alternatives(t)}}

-----------------------------------------------------------------------------
(* The loop of apply.                                                       *)

\* Mistaken variant: the end of the input is not recognised.
GetTokenStuck ==
    /\ stage = "get"
    /\ next_token' = Upcoming
    /\ token_buffer' = AfterUpcoming
    /\ ReadToken
    /\ stage' = IF Upcoming = NoToken THEN "get" ELSE "token"
    /\ UNCHANGED << settings, wordVars, part_of_word >>

GetToken ==
    /\ stage = "get"
    /\ next_token' = Upcoming
    /\ token_buffer' = AfterUpcoming
    /\ ReadToken
    /\ stage' = IF Upcoming = NoToken THEN "eof" ELSE "token"
    /\ UNCHANGED << settings, wordVars, part_of_word >>

StreamError ==
    /\ stage = "token"
    /\ next_token \in Reserved
    /\ stage' = "error"
    /\ UNCHANGED << settings, streamVars, next_token, wordVars, part_of_word >>

\* Remembers the analyses of the word so far, then goes on with the token.
StepToken ==
    /\ stage = "token"
    /\ next_token \notin Reserved
    /\ IF surface_form # << >> /\ IsFinal
         THEN /\ analyzed_forms' = FinalForms
              /\ last_stream_location' = token_buffer.currentpos - 1
         ELSE UNCHANGED << analyzed_forms, last_stream_location >>
    /\ paths' = Step(next_token)
    /\ stage' = "stepped"
    /\ UNCHANGED << settings, streamVars, next_token, surface_form, part_of_word >>

ExtendWord ==
    /\ stage = "stepped"
    /\ paths # {}
    /\ surface_form' = Append(surface_form, next_token)
    /\ stage' = "get"
    /\ UNCHANGED << settings, streamVars, next_token, paths, analyzed_forms,
                    last_stream_location, part_of_word >>

\* state.reset(), surface_form.clear(), analyzed_forms.clear().
StartOver ==
    /\ paths' = InitialPaths
    /\ surface_form' = << >>
    /\ analyzed_forms' = {}
    /\ stage' = "get"
    /\ UNCHANGED << settings, input, next_token, last_stream_location, part_of_word >>

\* << next_token, when the formatter preserves it.
WriteToken(t) == Append(output, Item(IF preserve THEN "token" ELSE "dropped", << t >>, {}))

NoPathLeft == stage = "stepped" /\ paths = {}
BetweenWords == surface_form = << >> /\ ~ IsAlphabetic(next_token)

\* No analysis, or one that ends inside a word.
NoWord ==
    analyzed_forms # {} =>
      /\ IsAlphabetic(token_buffer.buf[last_stream_location])
      /\ IsAlphabetic(Last(surface_form))

PassNonalphabetic ==
    /\ NoPathLeft
    /\ BetweenWords
    /\ output' = WriteToken(next_token)
    /\ StartOver
    /\ UNCHANGED token_buffer

PrintWord ==
    LET revert_count == DiffPrevPos(token_buffer, last_stream_location + 1)
        word == SubSeq(surface_form, 1, Len(surface_form) - revert_count)
    IN  /\ NoPathLeft
        /\ ~ BetweenWords
        /\ ~ NoWord
        /\ output' = Append(output, Item("word", word, analyzed_forms))
        /\ token_buffer' = Back(token_buffer, revert_count + 1)
        /\ StartOver

\* An unknown word goes on to its last alphabetic token.
UnknownStarts ==
    /\ NoPathLeft
    /\ ~ BetweenWords
    /\ NoWord
    /\ part_of_word' = IsAlphabetic(next_token)
    /\ IF IsAlphabetic(next_token)
         THEN surface_form' = Append(surface_form, next_token) /\ stage' = "gather"
         ELSE UNCHANGED surface_form /\ stage' = "unknown"
    /\ UNCHANGED << settings, streamVars, next_token, paths, analyzed_forms, last_stream_location >>

GatherToken ==
    /\ stage = "gather"
    /\ IsAlphabetic(Upcoming)
    /\ next_token' = Upcoming
    /\ surface_form' = Append(surface_form, Upcoming)
    /\ token_buffer' = AfterUpcoming
    /\ ReadToken
    /\ UNCHANGED << settings, stage, paths, analyzed_forms, last_stream_location, part_of_word >>

\* "we overstepped the word by one token"
WordGathered ==
    /\ stage = "gather"
    /\ ~ IsAlphabetic(Upcoming)
    /\ next_token' = Upcoming
    /\ token_buffer' = Back(AfterUpcoming, 1)
    /\ ReadToken
    /\ stage' = "unknown"
    /\ UNCHANGED << settings, wordVars, part_of_word >>

PrintUnknownWord ==
    /\ stage = "unknown"
    /\ IsAlphabetic(Head(surface_form))
    /\ output' = Append(output, Item("unknown", surface_form, {}))
    /\ token_buffer' = Back(token_buffer, IF part_of_word THEN 0 ELSE 1)
    /\ StartOver

\* What began with a token that is not alphabetic is given back except for it.
GiveBack ==
    /\ stage = "unknown"
    /\ ~ IsAlphabetic(Head(surface_form))
    /\ output' = WriteToken(Head(surface_form))
    /\ token_buffer' = Back(token_buffer, Len(surface_form) - 1)
    /\ StartOver

EndOfStream ==
    /\ stage = "eof"
    /\ output' = IF analyzed_forms = {} THEN output
                 ELSE Append(output, Item("word", surface_form, analyzed_forms))
    /\ stage' = "done"
    /\ UNCHANGED << settings, input, token_buffer, next_token, wordVars, part_of_word >>

Stopped == stage \in {"done", "error"} /\ UNCHANGED procVars

ProcNext ==
    \/ GetToken \/ StreamError \/ StepToken \/ ExtendWord \/ PassNonalphabetic \/ PrintWord
    \/ UnknownStarts \/ GatherToken \/ WordGathered \/ PrintUnknownWord \/ GiveBack
    \/ EndOfStream \/ Stopped

\* One thread that runs until the input ends.
ProcSpec == ProcInit /\ [][ProcNext]_procVars /\ WF_procVars(ProcNext)

-----------------------------------------------------------------------------
(* Properties.                                                              *)

Written == FlattenSeq([k \in DOMAIN output |-> output[k].tokens])
Pending == Unread(token_buffer) \o input

\* Every token of the input is handled exactly once and in order, although
\* words are read past their end and the stream is moved back: between two
\* tokens, what was written, the word being read and what is still to be read
\* make up the input.
NothingLost ==
    /\ stage = "get" => Written \o surface_form \o Pending = stream
    /\ stage = "done" => Written = stream

\* Whether lookup of the sequence w can read these tokens.
Reads(w, tokens) ==
    /\ Len(w) = Len(tokens)
    /\ \A k \in DOMAIN w :
         \/ w[k] \in ToSymbol(tokens[k])
         \/ fold /\ tokens[k] \in DOMAIN LowerOf /\ w[k] = LowerOf[tokens[k]]

\* The analyses printed with a word are the ones of exactly that word, although
\* they were remembered before the tokens after it were tried.
AnalysesBelong ==
    \A k \in DOMAIN output :
      output[k].kind = "word" =>
        /\ output[k].forms # {}
        /\ output[k].forms = {w \in lexicon : Reads(w, output[k].tokens)}

\* With -z, output is flushed when everything read before the NUL was written:
\* the reader at the other end waits for the NUL before it sends more.
FlushedAfterAnswer ==
    \A k \in DOMAIN output :
      output[k].kind = "flush" =>
        LET before == FlattenSeq([j \in 1 .. k - 1 |-> output[j].tokens])
        IN  Len(before) < Len(stream) /\ stream[Len(before) + 1] = Nul

\* The stream is never moved back for ever: every input is read to its end.
AnalysisEnds == <>(stage \in {"done", "error"})

=============================================================================
