------------------------------- MODULE MCText -------------------------------
(***************************************************************************)
(* Small instances of TextStream for TLC.  Each family of generations has  *)
(* an alphabet of tokens that cut what it is about in every way: tags,     *)
(* tool calls, characters, stop strings, the closing of a thought, the     *)
(* name of a call.                                                         *)
(***************************************************************************)
EXTENDS TextStream

OpenTag   == <<"<", "t", "h">>
CloseTag  == <<"<", "/", "t">>
ToolsTag  == <<"<", "d">>
InvokeTag == <<"<", "i">>
CallTag   == <<"<", "c">>

MarkersDef ==
  [m \in {ToolsTag, InvokeTag, CallTag} |->
     IF m = ToolsTag THEN <<"<", "/", "d">>
     ELSE IF m = InvokeTag THEN <<"<", "/", "i">> ELSE <<"<", "/", "c">>]
ExtraDef   == {ToolsTag, CallTag}
DsmlDef    == {ToolsTag, InvokeTag}
ClosingDef == << <<"<", "/", "t">>, <<"x">> >>
NamingDef  == << <<"n">>, <<"=">> >>

\* A request without stop strings, budget, guard and drafts.
Generation(tokens, max, format, starts) ==
  [tokens |-> tokens, stops |-> {}, max |-> max, format |-> format,
   starts |-> starts, limit |-> 0, guard |-> FALSE, rows |-> 1]

TagTokens == {<<"<">>, <<"t">>, <<"<","/">>, <<"<","t">>, <<"h">>, <<"d">>}

Tags ==
  {Generation(TagTokens, 4, "deepseek", s) : s \in BOOLEAN}
  \cup {Generation(TagTokens, 4, f, s) : f \in {"none", "deepseek-legacy"}, s \in BOOLEAN}

Calls ==
  {Generation({<<"<","c">>, <<"<","d">>, <<"<">>, <<"/","d">>, <<"i">>, <<"N">>},
              5, "deepseek", FALSE)}

Characters ==
  {Generation({<<"L">>, <<"C">>, <<"x">>, <<"x","L">>, <<"C","C">>}, 4, "none", FALSE)}

Stops ==
  {[Generation({<<"a">>, <<"b">>, <<"a","b">>, <<"b","b","a">>}, 5, "none", FALSE)
    EXCEPT !.stops = {<<"a","b">>, <<"b","b">>, <<"a","a","a">>}]}

Budgets ==
  {[Generation({<<"<","/">>, <<"t">>, <<"<","t","h">>, <<"x">>}, 7, "deepseek", s)
    EXCEPT !.limit = 2] : s \in BOOLEAN}

Guarded ==
  {[Generation({<<"<">>, <<"i">>, <<"<","i">>, <<"n">>}, 6, "deepseek", FALSE)
    EXCEPT !.guard = TRUE]}

OneRow == Tags \cup Calls \cup Characters \cup Stops \cup Budgets \cup Guarded

\* A thought with a budget, decoded with up to two drafts.
Drafted ==
  {[Generation({<<"x">>}, 9, "deepseek", TRUE) EXCEPT !.limit = 2, !.rows = 3]}

TextSpec == TextInit /\ [][TextNext]_textVars
=============================================================================
