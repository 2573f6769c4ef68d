----------------------------- MODULE TextStream -----------------------------
(***************************************************************************)
(* What becomes of the tokens of one generation: the rows a decode samples *)
(* are pushed one after the other (push_token in scheduler.rs; step of     *)
(* generate.rs is the same for one row), their bytes become text           *)
(* (Utf8Buf), the text is cut at a stop string, counted against the        *)
(* thinking budget and watched for a tool call without a name; the text of *)
(* each token is split into reasoning and content (reasoning.rs) and the   *)
(* content into prose and tool calls (tools.rs) as sse.rs does it.         *)
(*                                                                         *)
(* Data kept: a text is a sequence of letters, a tag two or three of them, *)
(* so that tokens cut tags, stop strings and characters anywhere.  A       *)
(* character of two bytes is "L" then "C"; as text it is "C".  White space *)
(* at the end of a text and the arguments of a tool call are left out.     *)
(***************************************************************************)
EXTENDS Naturals, Sequences, FiniteSets, SequencesExt, Functions

CONSTANTS
  Generations, \* the requests looked at: records of
               \* tokens, stops, max, rows, format, starts, limit, guard
  OPEN, CLOSE, \* <think> and </think>
  Extra,       \* EXTRA_THINK_ENDS, tool tags that end a thought
  Markers,     \* START_MARKERS, to the closing tag of each
  Dsml,        \* those of Markers that are DSML
  Invoke,      \* <DSML invoke
  Closing,     \* the tokens of "</think>\n\n"
  Naming       \* the tokens of ' name="'

\* A text is a sequence of letters, and there is something to force.
ASSUME TextAssumption ==
  /\ \A g \in Generations : g.tokens \subseteq Seq(STRING) /\ g.rows \in Nat
  /\ Closing \in Seq(Seq(STRING)) \ {<<>>} /\ Naming \in Seq(Seq(STRING)) \ {<<>>}

VARIABLES
  gen,     \* the request
  rows,    \* sampled rows that are not pushed yet
  n, finish, utf8, acc, think, dsml,   \* of the job
  parser, tools,                       \* of the connection
  heard, sent, thought,  \* bytes pushed, text sent in Token events, tokens since
                         \* a thought began (for properties)
  told                   \* what the client was told

textVars == <<gen, rows, n, finish, utf8, acc, think, dsml, parser, tools,
              heard, sent, thought, told>>

EOG == <<"eog">>

From(s, i) == SubSeq(s, i, Len(s))
Left(s, i) == SubSeq(s, 1, i)

\* Where tag occurs in s.
Places(s, tag) ==
  {i \in 1 .. Len(s) : i + Len(tag) - 1 <= Len(s) /\ SubSeq(s, i, i + Len(tag) - 1) = tag}

\* The longest end of s that a tag of tags may still complete.
SuffixThatIsTagPrefix(s, tags) ==
  Max({0} \cup {k \in 1 .. Len(s) : \E t \in tags :
                      k < Len(t) /\ From(s, Len(s) - k + 1) = Left(t, k)})

-----------------------------------------------------------------------------
(* Utf8Buf.                                                                 *)

WellFormed(b) ==
  \A i \in 1 .. Len(b) : /\ b[i] = "C" => i > 1 /\ b[i-1] = "L"
                         /\ b[i] = "L" => i < Len(b) /\ b[i+1] = "C"

Chars(b) ==
  LET Read[i \in 0 .. Len(b)] ==
        IF i = 0 THEN <<>> ELSE IF b[i] = "L" THEN Read[i - 1] ELSE Append(Read[i - 1], b[i])
  IN  Read[Len(b)]

\* String::from_utf8_lossy: "?" for each byte that is part of no character.
Lossy(b) ==
  LET Alone(i) == \/ b[i] = "L" /\ ~(i < Len(b) /\ b[i+1] = "C")
                  \/ b[i] = "C" /\ ~(i > 1 /\ b[i-1] = "L")
  IN  Chars([i \in 1 .. Len(b) |-> IF Alone(i) THEN "?" ELSE b[i]])

\* Mutant: bytes after the first broken character are forgotten.
TakeValidForgets(b) ==
  LET v == Max({k \in 0 .. Len(b) : WellFormed(Left(b, k))})
  IN  [text |-> Chars(Left(b, v)), rest |-> <<>>]

\* The text that is certain, and the bytes to wait with: those of a character
\* that is not complete, and everything after the first broken one.
TakeValid(b) ==
  LET Take[i \in 1 .. Len(b) + 1] ==
        LET r == From(b, i)
            v == Max({k \in 0 .. Len(r) : WellFormed(Left(r, k))})
        IN  IF v = 0 /\ r # <<>> /\ r # <<"L">>
            THEN [Take[i + 1] EXCEPT !.text = <<"?">> \o @]
            ELSE [text |-> Chars(Left(r, v)), rest |-> From(r, v + 1)]
  IN  Take[1]

-----------------------------------------------------------------------------
(* stop_cut_len.                                                            *)

\* Mutant: a stop string that began in an earlier piece is not seen.
StopCutInPiece(stops, text, pieceLen) ==
  {i - 1 : i \in UNION {Places(From(text, Len(text) - pieceLen + 1), s) : s \in stops}}

\* How much of the last piece stays: up to the first of the stop strings' last
\* occurrences.  Empty: no stop string.
StopCutLen(stops, text, pieceLen) ==
  LET ends == {Max(Places(text, s)) : s \in {t \in stops : Places(text, t) # {}}}
      pieceStart == Len(text) - pieceLen
  IN  IF ends = {} THEN {}
      ELSE {IF Min(ends) - 1 <= pieceStart THEN 0
            ELSE Min(ends) - 1 - pieceStart}

-----------------------------------------------------------------------------
(* ReasoningParser.                                                         *)

Ends(phase) == IF phase = "content" THEN {OPEN} ELSE {CLOSE} \cup Extra
Tag(phase)  == IF phase = "content" THEN OPEN ELSE CLOSE
Other(phase) == IF phase = "content" THEN "think" ELSE "content"

\* next_phase_marker: the first tag in s that ends the phase.
NextPhaseMarker(s, phase) ==
  LET found == {f \in (1 .. Len(s)) \X Ends(phase) : f[1] \in Places(s, f[2])}
  IN  {f \in found : \A e \in found : f[1] <= e[1]}

Nothing == [reasoning |-> <<>>, content |-> <<>>]

\* What the client is told of a text of this phase; deepseek-legacy repeats a
\* thought in the content, with its tags.
Delta(format, phase, s, tag) ==
  [reasoning |-> IF phase = "think" THEN s ELSE <<>>,
   content   |-> IF format = "deepseek-legacy" THEN s \o tag
                 ELSE IF phase = "content" THEN s ELSE <<>>]

Cat(a, b) == [reasoning |-> a.reasoning \o b.reasoning, content |-> a.content \o b.content]

\* Mutant: nothing is held back.
DrainEager(format, phase0, hold, flush) ==
  LET Go[k \in 1 .. Len(hold) + 1, phase \in {"content", "think"}] ==
        LET r == From(hold, k)
            found == NextPhaseMarker(r, phase)
        IN  IF r = <<>> \/ found = {}
            THEN [phase |-> phase, hold |-> <<>>, delta |-> Delta(format, phase, r, <<>>)]
            ELSE LET m == CHOOSE f \in found : TRUE
                     tag == IF m[2] = Tag(phase) THEN m[2] ELSE <<>>
                     rest == Go[k + m[1] - 1 + Len(tag), Other(phase)]
                 IN  [rest EXCEPT !.delta =
                        Cat(Delta(format, phase, Left(r, m[1] - 1), tag), @)]
  IN  Go[1, phase0]

\* drain: the phases and texts of hold, and what has to wait for the next
\* piece.  An extra tag ends a thought and stays in the content.
Drain(format, phase0, hold, flush) ==
  LET Go[k \in 1 .. Len(hold) + 1, phase \in {"content", "think"}] ==
        LET r == From(hold, k)
            found == NextPhaseMarker(r, phase)
            keep == IF flush THEN 0 ELSE SuffixThatIsTagPrefix(r, Ends(phase))
        IN  IF r = <<>> \/ found = {}
            THEN [phase |-> phase, hold |-> From(r, Len(r) - keep + 1),
                  delta |-> Delta(format, phase, Left(r, Len(r) - keep), <<>>)]
            ELSE LET m == CHOOSE f \in found : TRUE
                     tag == IF m[2] = Tag(phase) THEN m[2] ELSE <<>>
                     rest == Go[k + m[1] - 1 + Len(tag), Other(phase)]
                 IN  [rest EXCEPT !.delta =
                        Cat(Delta(format, phase, Left(r, m[1] - 1), tag), @)]
  IN  Go[1, phase0]

\* push and finish; format "none" passes everything on.
ReasoningPush(format, p, piece, flush) ==
  IF format = "none"
  THEN [phase |-> p.phase, hold |-> <<>>, delta |-> [Nothing EXCEPT !.content = piece]]
  ELSE Drain(format, p.phase, p.hold \o piece, flush)

-----------------------------------------------------------------------------
(* ThinkBudget: at is the next token of Closing to force, 0 when none is.   *)

MaybeEndOrForce(t) ==
  IF NextPhaseMarker(t.hold, "think") # {}
  THEN [inThink |-> FALSE, n |-> t.n, at |-> 0, hold |-> <<>>]
  ELSE [inThink |-> t.inThink, n |-> t.n, at |-> IF t.n >= gen.limit THEN 1 ELSE t.at,
        hold |-> From(t.hold, Len(t.hold) - SuffixThatIsTagPrefix(t.hold, Ends("think")) + 1)]

\* on_emit: while it forces, every token counts as the one it forced.
ThinkOnEmit(t, piece) ==
  LET hold == t.hold \o piece
      open == Places(hold, OPEN)
  IN  IF gen.limit = 0 THEN t
      ELSE IF t.at > 0
      THEN IF t.at = Len(Closing) THEN [inThink |-> FALSE, n |-> t.n, at |-> 0, hold |-> <<>>]
           ELSE [t EXCEPT !.at = @ + 1]
      ELSE IF t.inThink
      THEN MaybeEndOrForce([inThink |-> TRUE, n |-> t.n + 1, at |-> 0, hold |-> hold])
      ELSE IF open # {}
      THEN MaybeEndOrForce([inThink |-> TRUE, n |-> 0, at |-> 0,
                            hold |-> From(hold, Min(open) + Len(OPEN))])
      ELSE [t EXCEPT !.hold =
              From(hold, Len(hold) - SuffixThatIsTagPrefix(hold, {OPEN}) + 1)]

-----------------------------------------------------------------------------
(* DsmlNameGuard.  Its text is kept whole; the code keeps the last 80 bytes. *)

\* Mutant: the guard forces from the second token of the name on.
DsmlOnEmitLate(d, piece) ==
  IF ~gen.guard THEN d
  ELSE [acc |-> d.acc \o piece,
        at |-> IF d.at > 0 THEN (IF d.at = Len(Naming) THEN 0 ELSE d.at + 1)
               ELSE IF IsSuffix(Invoke, d.acc \o piece) THEN Len(Naming) ELSE 0]

DsmlOnEmit(d, piece) ==
  IF ~gen.guard THEN d
  ELSE [acc |-> d.acc \o piece,
        at |-> IF d.at > 0 THEN (IF d.at = Len(Naming) THEN 0 ELSE d.at + 1)
               ELSE IF IsSuffix(Invoke, d.acc \o piece) THEN 1 ELSE 0]

\* forced_token: the thought is closed before a name is forced.
ForcedToken ==
  IF think.at > 0 THEN {Closing[think.at]}
  ELSE IF dsml.at > 0 THEN {Naming[dsml.at]} ELSE {}

-----------------------------------------------------------------------------
(* ToolCallParser.                                                          *)

\* find_start.
FindStart(s) == UNION {Places(s, t) : t \in DOMAIN Markers}

\* extract_block: up to its closing tag, or all there is.
ExtractBlock(s) ==
  LET t == CHOOSE m \in DOMAIN Markers : IsPrefix(m, s)
      ends == Places(s, Markers[t])
  IN  IF ends = {} THEN s ELSE Left(s, Min(ends) + Len(Markers[t]) - 1)

\* invoke_name: a usable name, as the name attribute or as the body.
InvokeName(r) == r # <<>> /\ (Head(r) = "N" \/ IsPrefix(<<"n", "=", "N">>, r))

\* parse_dsml: a call for each invoke with a usable name; the search goes on
\* behind the end of its body.
ParseDsml(block) ==
  LET Search[k \in 1 .. Len(block) + 1] ==
        LET opens == {i \in Places(block, Invoke) : i >= k}
            afterOpen == Min(opens) + Len(Invoke)
            ends == {i \in Places(block, Markers[Invoke]) : i >= afterOpen}
        IN  IF opens = {} THEN 0
            ELSE IF ~InvokeName(From(block, afterOpen)) THEN Search[afterOpen]
            ELSE 1 + IF ends = {} THEN 0 ELSE Search[Min(ends) + Len(Markers[Invoke])]
  IN  Search[1]

\* The calls in a block: those in DSML; in the other forms the first name.
ParseBlock(block) ==
  IF ParseDsml(block) > 0 THEN ParseDsml(block)
  ELSE IF Places(block, Invoke) = {} /\ Places(block, <<"N">>) # {} THEN 1 ELSE 0

IsDsmlMarkup(block) == \E t \in Dsml : Places(block, t) # {}

\* parse_tool_calls: the blocks become calls; a block that does not parse is
\* dropped if it is DSML and is prose otherwise.
ParseToolCalls(text) ==
  LET Parse[i \in 1 .. Len(text) + 1] ==
        LET r == From(text, i)
        IN  IF FindStart(r) = {} THEN [content |-> r, calls |-> 0]
            ELSE LET at == Min(FindStart(r))
                     block == ExtractBlock(From(r, at))
                     rest == Parse[i + at - 1 + Len(block)]
                     leak == IF ParseBlock(block) = 0 /\ ~IsDsmlMarkup(block)
                             THEN block ELSE <<>>
                 IN  [content |-> Left(r, at - 1) \o leak \o rest.content,
                      calls |-> ParseBlock(block) + rest.calls]
  IN  Parse[1]

\* push: prose is passed on up to the first block, which is held with all that
\* follows it.
ToolPush(t, piece) ==
  LET hold == t.hold \o piece
      keep == SuffixThatIsTagPrefix(hold, DOMAIN Markers)
  IN  IF t.inBlock THEN [t EXCEPT !.hold = hold, !.emit = <<>>]
      ELSE IF FindStart(hold) # {}
      THEN [hold |-> From(hold, Min(FindStart(hold))), inBlock |-> TRUE,
            emit |-> Left(hold, Min(FindStart(hold)) - 1)]
      ELSE [hold |-> From(hold, Len(hold) - keep + 1), inBlock |-> FALSE,
            emit |-> Left(hold, Len(hold) - keep)]

-----------------------------------------------------------------------------
(* The whole text at once, letter by letter, with nothing held back: what   *)
(* the splitting has to amount to.  For properties.                         *)

WholeSplit(format, text) ==
  LET Read[i \in 1 .. Len(text) + 1, phase \in {"content", "think"}] ==
        LET here == {t \in Ends(phase) : i \in Places(text, t)}
            tag == IF Tag(phase) \in here THEN Tag(phase) ELSE <<>>
            rest == IF here = {} THEN Read[i + 1, phase]
                    ELSE Read[i + Len(tag), Other(phase)]
        IN  IF i > Len(text) THEN [phase |-> phase, delta |-> Nothing]
            ELSE [rest EXCEPT !.delta =
                    Cat(Delta(format, phase, IF here = {} THEN <<text[i]>> ELSE <<>>, tag), @)]
  IN  IF format = "none" THEN [phase |-> "content", delta |-> [Nothing EXCEPT !.content = text]]
      ELSE Read[1, IF gen.starts THEN "think" ELSE "content"]

Thinking(bytes) == WholeSplit("deepseek", Lossy(bytes)).phase = "think"

-----------------------------------------------------------------------------
(* The generation.                                                          *)

TextInit ==
  /\ gen \in Generations
  /\ rows = <<>> /\ n = 0 /\ finish = "none" /\ utf8 = <<>> /\ acc = <<>>
  /\ think = [inThink |-> gen.starts, n |-> 0, at |-> 0, hold |-> <<>>]
  /\ dsml = [acc |-> <<>>, at |-> 0]
  /\ parser = [hold |-> <<>>, phase |-> IF gen.starts /\ gen.format # "none"
                                        THEN "think" ELSE "content"]
  /\ tools = [hold |-> <<>>, inBlock |-> FALSE, emit |-> <<>>]
  /\ heard = <<>> /\ sent = <<>> /\ thought = 0
  /\ told = [reasoning |-> <<>>, content |-> <<>>, calls |-> 0, done |-> FALSE]

\* A decode samples the pending row and those of the drafts before any of them
\* is pushed, and what is accepted of it is pushed in order; no draft is taken
\* while a thought is being closed.
DecodeRows ==
  /\ rows = <<>> /\ finish = "none"
  /\ LET choice == IF ForcedToken # {} THEN ForcedToken ELSE gen.tokens \cup {EOG}
     IN  \E k \in 1 .. IF think.at > 0 THEN 1 ELSE gen.rows :
           rows' \in [1 .. k -> choice]
  /\ UNCHANGED <<gen, n, finish, utf8, acc, think, dsml, parser, tools, heard, sent,
                 thought, told>>

\* push_token of a token that ends the generation: what waits for the rest of a
\* character is lost.
PushEog ==
  /\ rows # <<>> /\ Head(rows) = EOG
  /\ finish' = "stop" /\ rows' = <<>> /\ utf8' = <<>>
  /\ UNCHANGED <<gen, n, acc, think, dsml, parser, tools, heard, sent, thought, told>>

\* push_token of a token that has no text: Failed is sent, which is where the
\* connection stops reading, and the generation is over.
PushFails ==
  /\ rows # <<>> /\ Head(rows) # EOG
  /\ finish' = "failed" /\ rows' = <<>>
  /\ UNCHANGED <<gen, n, utf8, acc, think, dsml, parser, tools, heard, sent, thought, told>>

\* The text of a token, and what is told of it on the way.
Emit(piece) ==
  LET split == ReasoningPush(gen.format, parser, piece, FALSE)
      call == ToolPush(tools, split.delta.content)
  IN  /\ parser' = [phase |-> split.phase, hold |-> split.hold]
      /\ tools' = call
      /\ told' = [told EXCEPT !.reasoning = @ \o split.delta.reasoning,
                              !.content = @ \o call.emit]
      /\ sent' = sent \o piece

\* push_token.  The last token is not searched for a stop string.
PushToken ==
  /\ rows # <<>> /\ Head(rows) # EOG
  /\ LET taken == TakeValid(utf8 \o Head(rows))
         last == n + 1 >= gen.max
         watched == gen.stops # {} /\ ~last
         text == acc \o taken.text
         cut == IF watched THEN StopCutLen(gen.stops, text, Len(taken.text)) ELSE {}
         piece == IF last THEN taken.text \o Lossy(taken.rest)
                  ELSE IF cut # {} THEN Left(taken.text, CHOOSE k \in cut : TRUE)
                  ELSE taken.text
         all == heard \o Head(rows)
     IN  /\ n' = n + 1
         /\ heard' = all
         /\ utf8' = IF last THEN <<>> ELSE taken.rest
         /\ acc' = IF watched THEN text ELSE acc
         /\ think' = ThinkOnEmit(think, taken.text)
         /\ dsml' = DsmlOnEmit(dsml, taken.text)
         /\ finish' = IF last THEN "length" ELSE IF cut # {} THEN "stop" ELSE "none"
         /\ rows' = IF finish' = "none" THEN Tail(rows) ELSE <<>>
         /\ thought' = IF Thinking(all) THEN thought + 1 ELSE 0
         /\ Emit(piece)
  /\ UNCHANGED gen

\* What Finished brings: both parsers are finished, and what ToolCallParser
\* makes of the last content is thrown away where it should be told.
Finished ==
  /\ finish \in {"stop", "length"} /\ rows = <<>> /\ ~told.done
  /\ LET split == ReasoningPush(gen.format, parser, <<>>, TRUE)
         parsed == ParseToolCalls(ToolPush(tools, split.delta.content).hold)
     IN  /\ told' = [reasoning |-> told.reasoning \o split.delta.reasoning,
                     content |-> told.content \o parsed.content,
                     calls |-> parsed.calls, done |-> TRUE]
         /\ parser' = [phase |-> split.phase, hold |-> <<>>]
         /\ tools' = [hold |-> <<>>, inBlock |-> FALSE, emit |-> <<>>]
  /\ UNCHANGED <<gen, rows, n, finish, utf8, acc, think, dsml, heard, sent, thought>>

TextNext == DecodeRows \/ PushEog \/ PushFails \/ PushToken \/ Finished

-----------------------------------------------------------------------------
(* Properties.                                                              *)

\* However the tokens cut the characters, the text sent is the text of all the
\* bytes; only a character the generation ends in is lost (Utf8Buf).
TextIsWhole ==
  /\ finish # "stop" => sent \o Lossy(utf8) = Lossy(heard)
  /\ IsPrefix(sent, Lossy(heard))

\* However the pieces cut the tags, what was told and what is held back are
\* together the split of the whole text: nothing is told too early, twice or
\* under the wrong name (ReasoningParser::push, ToolCallParser::push).
SplitIsWhole ==
  ~told.done =>
    LET held == ReasoningPush(gen.format, parser, <<>>, TRUE).delta
        whole == WholeSplit(gen.format, sent).delta
    IN  /\ told.reasoning \o held.reasoning = whole.reasoning
        /\ told.content \o tools.hold \o held.content = whole.content

\* At the end the client has every thought, all the prose and all the calls of
\* the whole text, but for what both parsers still held: the beginning of a tool
\* tag and then that of a thinking tag (finish_stream and complete throw away
\* what ToolCallParser::push returns).
EndIsWhole ==
  told.done =>
    LET whole == WholeSplit(gen.format, sent).delta
        parsed == ParseToolCalls(whole.content)
    IN  /\ told.reasoning = whole.reasoning
        /\ told.calls = parsed.calls
        /\ \E m \in DOMAIN Markers, t \in {OPEN, CLOSE} :
             \E j \in 0 .. Len(m) - 1, k \in 0 .. Len(t) - 1 :
               parsed.content = told.content \o Left(m, j) \o Left(t, k)

\* A generation that goes on has told no stop string: the token that completes
\* one is the last, also when it began several tokens ago (stop_cut_len).
StopIsTheEnd == finish = "none" => \A s \in gen.stops : Places(sent, s) = {}

\* A thought is closed once its budget is spent: it never has more tokens than
\* the budget and those that close it (ThinkBudget).
BudgetCloses == gen.limit > 0 => thought <= gen.limit + Len(Closing)

\* Every tool call that is opened is given its name attribute, however the
\* tokens cut the opening tag (DsmlNameGuard).
InvokeIsNamed ==
  gen.guard /\ gen.limit = 0 =>
    \A i \in Places(heard, Invoke) :
      LET r == From(heard, i + Len(Invoke))
          name == FlattenSeq(Naming)
      IN  IsPrefix(r, name) \/ IsPrefix(name, r)

\* Whatever the tokens cut, the client is told the split of the whole text:
\* while the answer goes on and when it has ended (ReasoningParser,
\* ToolCallParser, finish_stream).
ToldIsWhole == SplitIsWhole /\ EndIsWhole

\* What is forced on a generation comes in time and ends: the tag that closes a
\* thought whose budget is spent, and the name of a tool call (ThinkBudget,
\* DsmlNameGuard).
ForcingEnds == BudgetCloses /\ InvokeIsNamed
=============================================================================
