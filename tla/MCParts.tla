------------------------------- MODULE MCParts -------------------------------
(***************************************************************************)
(* The parts that share no variable, side by side: a behaviour belongs to  *)
(* one of them, and the others rest in one of their initial states.        *)
(***************************************************************************)
EXTENDS MCCtxCap, MCText, MCVision, MCPrefixKv, SpecDecode, HostRam, Planning, JoinPolicy,
        PoolFit

CONSTANT Parts

VARIABLE part

-----------------------------------------------------------------------------
(* Instances.                                                               *)

\* SpecDecode: a text of three tokens that often repeats itself.
Prefers(s) == 1 + (FoldLeft(LAMBDA a, x : (a * 3 + x + 1) % 7, 1, s) % 3)

Decoded(prompt, types, greedy, max, ctx) ==
  [prompt |-> prompt, types |-> types, greedy |-> greedy, max |-> max, cap |-> ctx]

DecodedDef ==
  {Decoded(p, t, TRUE, 7, c) :
     p \in {<<1, 2, 1>>, <<1, 1, 2, 1, 1>>, <<2, 1, 2, 1>>},
     t \in {<<"draft-mtp", "prompt-lookup">>, <<"ngram-mod">>,
            <<"draft-mtp", "ngram-mod", "prompt-lookup">>},
     c \in {9, 20}}
  \cup {Decoded(<<1, 2, 1>>, t, FALSE, 5, 20) :
          t \in {<<"draft-mtp">>, <<"draft-mtp", "ngram-mod">>}}
  \cup {Decoded(<<1, 2, 1>>, <<"ngram-mod">>, FALSE, 7, 20)}

\* HostRam: two sessions that share a head; a dump has as many bytes as tokens.
Sessions == {<<1, 1, 2>>, <<1, 1, 3, 3>>}
DumpsDef == [k \in 1 .. 4 |-> {k}]

\* Planning: the default budget, and one with mixed batches.
DefaultDef == [prefillMax |-> 32, decodeMax |-> 16, mixedMax |-> 0, yieldEvery |-> 0, yieldMax |-> 0]
MixedDef   == [prefillMax |-> 2, decodeMax |-> 3, mixedMax |-> 1, yieldEvery |-> 2, yieldMax |-> 1]
AskedDef   == {DefaultDef, MixedDef}
Arrival(past, prompt, stops) == [past |-> past, prompt |-> prompt, stops |-> stops]
ArrivalsDef == {Arrival(1, 6, {3}), Arrival(0, 8, {}), Arrival(4, 5, {4})}

\* JoinPolicy: idle slots with and without tokens, length and checkpoint.
ViewsDef ==
  {v \in [prefix : {<<>>, <<1, 1>>, <<1, 1, 2, 4>>, <<2>>, <<2, 2, 1>>},
          len : {0, 3}, ckpt : 0 .. 3] :
     v.ckpt <= Len(v.prefix) /\ (v.len \in {0, Len(v.prefix)} \/ v.prefix = <<>>)}
Joiners == {<<1, 1, 3>>, <<1, 1, 2, 2>>, <<2, 2>>, <<3>>}
LinesDef == UNION {[1 .. k -> Joiners] : k \in 0 .. 2}

\* PoolFit: below, at and above the floors; a batch is no larger than the
\* context and a ubatch no larger than the batch.
CommandLines ==
  {c \in [ctx : {2, 4, 6, 32}, batch : {0, 1, 4, 32}, ubatch : {0, 1, 2, 3, 8, 32}, fit : BOOLEAN] :
     /\ c.batch <= c.ctx
     /\ c.ubatch <= IF c.batch = 0 THEN c.ctx ELSE c.batch}

-----------------------------------------------------------------------------
(* One part at a time.                                                      *)

PartsInit ==
  /\ part \in Parts
  /\ CapsInit
  /\ TextInit /\ (part = "text" \/ gen = CHOOSE g \in Generations : TRUE)
  /\ SpecInit /\ (part = "spec" \/ req = CHOOSE r \in {r \in Requests : r.greedy} : TRUE)
  /\ HostInit
  /\ PlanInit /\ (part = "plan" \/ budget = ResolveBudget(DefaultBudget))
  /\ VisionInit
  /\ FitInit /\ (part = "fit" \/ cli = CHOOSE c \in FitAsked : TRUE)
  /\ Init /\ (part = "kv" \/ arch = OneBack)
  /\ IF part = "join" THEN JoinInit ELSE idle = <<>> /\ line = <<>>

Asks   == /\ part = "caps" /\ CapsNext
          /\ UNCHANGED <<textVars, specVars, hostVars, planVars, joinVars, visionVars, fitVars, vars>>
Stream == /\ part = "text" /\ TextNext
          /\ UNCHANGED <<q, specVars, hostVars, planVars, joinVars, visionVars, fitVars, vars>>
Drafts == /\ part = "spec" /\ SpecNext
          /\ UNCHANGED <<q, textVars, hostVars, planVars, joinVars, visionVars, fitVars, vars>>
Host   == /\ part = "host" /\ HostNext
          /\ UNCHANGED <<q, textVars, specVars, planVars, joinVars, visionVars, fitVars, vars>>
Plan   == /\ part = "plan" /\ PlanNext
          /\ UNCHANGED <<q, textVars, specVars, hostVars, joinVars, visionVars, fitVars, vars>>
Vision == /\ part = "vision" /\ VisionNext
          /\ UNCHANGED <<q, textVars, specVars, hostVars, planVars, joinVars, fitVars, vars>>
Boot   == /\ part = "fit" /\ FitNext
          /\ UNCHANGED <<q, textVars, specVars, hostVars, planVars, joinVars, visionVars, vars>>
Kv     == /\ part = "kv" /\ Next
          /\ UNCHANGED <<q, textVars, specVars, hostVars, planVars, joinVars, visionVars, fitVars>>

partsVars ==
  <<part, q, textVars, specVars, hostVars, planVars, joinVars, visionVars, fitVars, vars>>

\* These parts end: the inputs are at their bounds, the request is over, the
\* server has started, or there was only one question.  The others go on for
\* ever.
PartEnds == part \in {"caps", "text", "spec", "host", "join", "fit"} /\ UNCHANGED partsVars

PartsNext ==
  \/ UNCHANGED part /\ (Asks \/ Stream \/ Drafts \/ Host \/ Plan \/ Vision \/ Boot \/ Kv)
  \/ PartEnds

PartsSpec == PartsInit /\ [][PartsNext]_partsVars
=============================================================================
