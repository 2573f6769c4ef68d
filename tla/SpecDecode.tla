----------------------------- MODULE SpecDecode -----------------------------
(***************************************************************************)
(* Speculative decoding of one request on one slot: drafts proposed by the *)
(* MTP head, the n-gram table or prompt lookup (speculative.rs, spec_draft *)
(* in model.rs), verified by one decode of the pending token and all the   *)
(* drafts, the rejected tail rolled back or a snapshot restored            *)
(* (scheduler.rs), and the MTP cells that follow those of the target.      *)
(*                                                                         *)
(* Data kept: the tokens.  The cells of the target are the tokens fed to   *)
(* it, for a recurrent state remembers their order; a logits row and a     *)
(* hidden row are known by the tokens fed before them.  Hash collisions of *)
(* the n-gram table, which change drafts only, are left out: the MTP head  *)
(* may propose anything.                                                   *)
(***************************************************************************)
EXTENDS Integers, Sequences, FiniteSets, SequencesExt

CONSTANTS
  Vocab,         \* tokens that may be sampled
  Eos,           \* the one of them that ends generation
  Requests,      \* records of prompt, types, greedy, max, cap
  Argmax(_),     \* the token the target prefers after a text
  NRsSeq,        \* how far the recurrent state can be rolled back
  MtpNMax, NgramNMax, NgramNMin, NgramN, NgramSize, NgramChunk,
  PldN, PldK     \* SpecParams and the sizes of NgramMod

ASSUME SpecAssumption ==
  /\ Eos \in Vocab
  /\ {NRsSeq, MtpNMax, NgramNMax, NgramNMin, NgramN, NgramSize, NgramChunk, PldN, PldK} \subseteq Nat

\* A request that asks for one token ends with the one its prompt gave, and is
\* never drafted for.
ASSUME RequestsAssumption ==
  \A r \in Requests :
    /\ r.prompt \in Seq(Vocab) /\ r.prompt # <<>>
    /\ r.types \in Seq({"draft-mtp", "ngram-mod", "prompt-lookup"})
    /\ r.greedy \in BOOLEAN
    /\ r.max \in Nat /\ r.max > 1 /\ r.cap \in Nat

VARIABLES
  req, step,    \* the request; "draft", "decode" or "verify"
  fed,           \* the tokens whose cells the target has
  nPast, generated, drafts, ended,
  ckpt,          \* spec_ckpt_tgt: what was fed when it was taken, or none
  ckptN, isReplay,
  samples, contexts, \* the sampled tokens, and the text each was sampled after
  mtp,           \* the hidden row each MTP cell was computed from
  hidden,        \* pending_h
  verifyH, lastDraft,
  ngram,
  tries          \* decodes since a token was pushed, counted to 3 (for properties)

specVars == <<req, step, fed, nPast, generated, drafts, ended, ckpt, ckptN,
              isReplay, samples, contexts, mtp, hidden, verifyH, lastDraft, ngram, tries>>

None   == "none"
NoCkpt == <<>>
\* The token that was pushed last: its cell is not computed yet.
Pending == Last(generated)
FirstOf(s, k) == SubSeq(s, 1, k)
Less(a, b) == IF a < b THEN a ELSE b

-----------------------------------------------------------------------------
(* speculative.rs.                                                          *)

Has(type) == \E i \in DOMAIN req.types : req.types[i] = type

NMaxOf(type) == IF type = "draft-mtp" THEN MtpNMax
                ELSE IF type = "ngram-mod" THEN NgramNMax ELSE PldK

VerifyNMax == Max({0} \cup {NMaxOf(req.types[i]) : i \in DOMAIN req.types})

\* pld_draft: what followed the last earlier place of the last PldN tokens.
PldDraft(hist, last, prior, budget) ==
  LET full == Append(hist, last) \o prior
      needle == SubSeq(full, Len(full) - PldN + 1, Len(full))
      found == {i \in 1 .. Len(full) - PldN : SubSeq(full, i, i + PldN - 1) = needle}
  IN  IF PldN = 0 \/ PldK = 0 \/ budget = 0 \/ Len(full) <= PldN \/ found = {} THEN <<>>
      ELSE LET start == Max(found) + PldN
           IN  SubSeq(full, start, Less(start + Less(PldK, budget) - 1, Len(full)))

NoTable == [k \in {} |-> 0]
FreshNgram == [table |-> NoTable, iLast |-> 0, nDraftLast |-> 0, nLow |-> 0]

\* add, for the n-grams of hist that begin at positions from + 1 to to.
AddAll(table, hist, from, to) ==
  LET new == {i \in from + 1 .. to : i + NgramN <= Len(hist)}
      key(i) == SubSeq(hist, i, i + NgramN - 1)
      keys == {key(i) : i \in new}
  IN  [k \in DOMAIN table \cup keys |->
         IF k \in keys THEN hist[Max({i \in new : key(i) = k}) + NgramN] ELSE table[k]]

\* begin: the prompt is ingested, and the table emptied when it gets crowded.
NgramBegin(g, prompt) ==
  LET table == AddAll(g.table, prompt, 0, Len(prompt) - NgramN)
      base == IF 4 * Cardinality(DOMAIN table) > NgramSize THEN FreshNgram
              ELSE [g EXCEPT !.table = table]
  IN  [base EXCEPT !.iLast = IF Len(prompt) > NgramN THEN Len(prompt) - NgramN ELSE 0]

\* ingest_new: once hist has grown by a chunk.
NgramIngestNew(g, hist) ==
  LET end == Len(hist) - NgramN
  IN  IF g.iLast + NgramChunk >= Len(hist) \/ g.iLast >= end THEN g
      ELSE [g EXCEPT !.table = AddAll(@, hist, g.iLast, end), !.iLast = end]

\* draft: a chain of lookups, dropped when it is short.
NgramDraft(g, hist, last, nMax) ==
  LET Recent(d) == LET w == Append(hist, last) \o d
                   IN  SubSeq(w, Len(w) - NgramN + 1, Len(w))
      Chain[k \in 0 .. nMax] ==
        IF k = 0 THEN <<>>
        ELSE LET d == Chain[k - 1]
             IN  IF Len(d) = k - 1 /\ Recent(d) \in DOMAIN g.table
                 THEN Append(d, g.table[Recent(d)]) ELSE d
  IN  IF Len(hist) < NgramN \/ Len(Chain[nMax]) < NgramNMin THEN <<>> ELSE Chain[nMax]

\* accept: five bad rounds in a row empty the table.
NgramAccept(g, nAccepted) ==
  LET low == g.nLow + 1
  IN  IF g.nDraftLast = 0 THEN g
      ELSE IF 4 * nAccepted >= g.nDraftLast THEN [g EXCEPT !.nDraftLast = 0, !.nLow = 0]
      ELSE IF low >= 5 THEN FreshNgram
      ELSE [g EXCEPT !.nDraftLast = 0, !.nLow = low]

\* accept_drafts: the drafts that were sampled, and the first other token.
AcceptDrafts(sampled, drafted) ==
  LET wrong == {i \in DOMAIN drafted : sampled[i] # drafted[i]}
  IN  IF wrong = {} THEN sampled ELSE FirstOf(sampled, Min(wrong))

-----------------------------------------------------------------------------
(* Drafting: take_draft_jobs and spec_draft.                                *)

\* draft_mtp: anything the head is sure of.  Its cells at nPast and beyond are
\* removed again before it returns.
MtpDrafts(budget) == BoundedSeq(Vocab, Less(MtpNMax, budget))

\* The first implementation that has a draft opens it, prompt lookup extends it.
SpecDraft(hist, table, guess, budget) ==
  LET Step(d, type) ==
        CASE type = "draft-mtp" -> IF d = <<>> THEN guess ELSE d
          [] type = "ngram-mod" ->
               IF d = <<>> THEN NgramDraft(table, hist, Pending, Less(NgramNMax, budget)) ELSE d
          [] type = "prompt-lookup" ->
               IF req.greedy THEN d \o PldDraft(hist, Pending, d, budget - Len(d)) ELSE d
  IN  FoldLeft(Step, <<>>, req.types)

\* pld_allowed and the verify budget of take_draft_jobs.
DraftBudget ==
  LET remainCtx == req.cap - (nPast + 1)
      remainGen == req.max - Len(generated)
  IN  Max({0, Less(VerifyNMax, Less(remainCtx - 1, remainGen - 1))})

\* The drafts that were accepted before a snapshot was restored are kept.
KeepDrafts ==
  /\ step = "draft" /\ ended = None /\ isReplay /\ drafts # <<>>
  /\ step' = "decode"
  /\ UNCHANGED <<req, fed, nPast, generated, drafts, ended, ckpt, ckptN, isReplay,
                 samples, contexts, mtp, hidden, verifyH, lastDraft, ngram, tries>>

Draft ==
  /\ step = "draft" /\ ended = None /\ ~(isReplay /\ drafts # <<>>)
  /\ LET hist == req.prompt \o Front(generated)
         begun == IF Len(generated) = 1 THEN NgramBegin(ngram, req.prompt) ELSE ngram
         table == NgramIngestNew(begun, hist)
         fromTable == NgramDraft(table, hist, Pending, Less(NgramNMax, DraftBudget))
     IN  IF DraftBudget = 0
         THEN drafts' = <<>> /\ ngram' = begun /\ UNCHANGED lastDraft
         ELSE \E guess \in IF Has("draft-mtp") THEN MtpDrafts(DraftBudget) ELSE {<<>>} :
                LET ask == Has("ngram-mod") /\ guess = <<>>
                IN  /\ drafts' = SpecDraft(hist, table, guess, DraftBudget)
                    /\ lastDraft' = IF guess # <<>> THEN "draft-mtp"
                                    ELSE IF ask /\ fromTable # <<>> THEN "ngram-mod"
                                    ELSE IF drafts' # <<>> THEN "prompt-lookup" ELSE None
                    /\ ngram' = IF ask THEN [table EXCEPT !.nDraftLast = Len(fromTable)]
                                ELSE table
  /\ step' = "decode"
  /\ UNCHANGED <<req, fed, nPast, generated, ended, ckpt, ckptN, isReplay, samples,
                 contexts, mtp, hidden, verifyH, tries>>

-----------------------------------------------------------------------------
(* Verifying.                                                               *)

Texts(items) == [i \in DOMAIN items |-> fed \o FirstOf(items, i)]

\* spec_process: MTP cells from the first position on are rewritten, the first
\* from pending_h and the others from the rows before them.
SpecProcess(items, p0) ==
  LET texts == Texts(items)
  IN  /\ mtp' = FirstOf(mtp, Less(p0, Len(mtp)))
                  \o [i \in DOMAIN items |-> IF i = 1 THEN hidden ELSE texts[i - 1]]
      /\ verifyH' = texts
      /\ hidden' = Last(texts)

\* Mutant: no snapshot is taken, whatever the length of the draft.
SnapshotNever == NoCkpt

\* snapshot_spec_slots: only where the rollback would be too deep.
Snapshot == IF Len(drafts) > NRsSeq THEN fed ELSE NoCkpt

\* decode_and_sample and apply_plan.
Decode1 ==
  /\ step = "decode"
  /\ LET items == <<Pending>> \o drafts
     IN  /\ ckpt' = Snapshot /\ ckptN' = nPast
         /\ contexts' = Texts(items)
         /\ samples' \in IF req.greedy THEN {[i \in DOMAIN items |-> Argmax(contexts'[i])]}
                         ELSE [DOMAIN items -> Vocab]
         /\ SpecProcess(items, nPast)
         /\ fed' = fed \o items
         /\ nPast' = nPast + Len(items)
  /\ step' = "verify" /\ tries' = Less(tries + 1, 3)
  /\ UNCHANGED <<req, generated, drafts, ended, isReplay, lastDraft, ngram>>

\* push_token, for each accepted token until one ends the generation.
PushAll(accepted, keepPos) ==
  LET room == IF keepPos + 1 > req.cap THEN 1 ELSE req.max - Len(generated)
      eos == {i \in DOMAIN accepted : accepted[i] = Eos}
      k == Min({Len(accepted), room} \cup {i - 1 : i \in eos})
  IN  /\ generated' = generated \o FirstOf(accepted, k)
      /\ ended' = IF k < Len(accepted) /\ k < room THEN "stop"
                  ELSE IF k = room THEN "length" ELSE None
      /\ tries' = 0

\* Mutant: pending_h stays the row of the last token that was verified.
SpecAcceptLast(nMatched, rowsOfH) ==
  /\ hidden' = rowsOfH[Len(rowsOfH)]
  /\ ngram' = IF lastDraft = "ngram-mod" THEN NgramAccept(ngram, nMatched) ELSE ngram
  /\ lastDraft' = None

\* spec_accept: pending_h becomes the row of the last accepted draft.
SpecAccept(nMatched, rowsOfH) ==
  /\ hidden' = rowsOfH[Less(nMatched + 1, Len(rowsOfH))]
  /\ ngram' = IF lastDraft = "ngram-mod" THEN NgramAccept(ngram, nMatched) ELSE ngram
  /\ lastDraft' = None

Accepted == AcceptDrafts(samples, drafts)
NMatched == Cardinality({i \in DOMAIN Accepted : i <= Len(drafts) /\ Accepted[i] = drafts[i]})

\* The position behind the last accepted cell.
KeepPos == nPast - (Len(drafts) - NMatched)

\* A plain token: nothing was drafted.
EmitOne ==
  /\ step = "verify" /\ drafts = <<>>
  /\ PushAll(samples, nPast)
  /\ step' = "draft" /\ samples' = <<>> /\ contexts' = <<>>
  /\ UNCHANGED <<req, fed, nPast, drafts, ckpt, ckptN, isReplay, mtp, hidden, verifyH,
                 lastDraft, ngram>>

\* Mutant: the whole draft is verified again.
RestoreCkptSameDraft ==
  /\ step = "verify" /\ drafts # <<>> /\ NMatched < Len(drafts) /\ ckpt # NoCkpt
  /\ fed' = ckpt /\ nPast' = ckptN /\ ckpt' = NoCkpt
  /\ isReplay' = TRUE
  /\ SpecAccept(NMatched, verifyH)
  /\ step' = "draft" /\ samples' = <<>> /\ contexts' = <<>>
  /\ UNCHANGED <<req, generated, drafts, ended, ckptN, mtp, verifyH, tries>>

\* verify_and_emit, a rejected tail and a snapshot: nothing is emitted, and what
\* was accepted is the next draft.  The MTP cells stay until the next decode.
RestoreCkpt ==
  /\ step = "verify" /\ drafts # <<>> /\ NMatched < Len(drafts) /\ ckpt # NoCkpt
  /\ fed' = ckpt /\ nPast' = ckptN /\ ckpt' = NoCkpt
  /\ drafts' = Accepted /\ isReplay' = TRUE
  /\ SpecAccept(NMatched, verifyH)
  /\ step' = "draft" /\ samples' = <<>> /\ contexts' = <<>>
  /\ UNCHANGED <<req, generated, ended, ckptN, mtp, verifyH, tries>>

\* verify_and_emit otherwise.  A rollback the recurrent state cannot do is
\* replaced by a decode of the accepted tokens (replay_spec_prefix), over
\* the cells that are there.
VerifyAndEmit ==
  /\ step = "verify" /\ drafts # <<>> /\ (NMatched = Len(drafts) \/ ckpt = NoCkpt)
  /\ IF Len(fed) - KeepPos <= NRsSeq
     THEN /\ fed' = FirstOf(fed, KeepPos)
          /\ mtp' = FirstOf(mtp, Less(KeepPos, Len(mtp)))
          /\ verifyH' = verifyH
          /\ SpecAccept(NMatched, verifyH)
     ELSE LET items == <<Pending>> \o FirstOf(drafts, NMatched)
          IN  /\ fed' = fed \o items
              /\ mtp' = FirstOf(mtp, ckptN) \o Texts(items)
              /\ verifyH' = Texts(items)
              /\ SpecAccept(NMatched, verifyH')
  /\ PushAll(Accepted, KeepPos)
  /\ nPast' = KeepPos /\ drafts' = <<>> /\ ckpt' = NoCkpt /\ isReplay' = FALSE
  /\ step' = "draft" /\ samples' = <<>> /\ contexts' = <<>>
  /\ UNCHANGED <<req, ckptN>>

\* The prompt is prefilled and its last row gave the first token.
SpecInit ==
  /\ req \in Requests
  /\ \E t \in (IF req.greedy THEN {Argmax(req.prompt)} ELSE Vocab) \ {Eos} :
       generated = <<t>>
  /\ step = "draft" /\ ended = None /\ drafts = <<>>
  /\ fed = req.prompt /\ nPast = Len(req.prompt)
  /\ ckpt = NoCkpt /\ ckptN = 0 /\ isReplay = FALSE /\ samples = <<>> /\ contexts = <<>>
  /\ mtp = [i \in DOMAIN req.prompt |-> FirstOf(req.prompt, i - 1)]
  /\ hidden = req.prompt /\ verifyH = <<>> /\ lastDraft = None
  /\ ngram = FreshNgram /\ tries = 0

SpecNext == KeepDrafts \/ Draft \/ Decode1 \/ EmitOne \/ RestoreCkpt \/ VerifyAndEmit

-----------------------------------------------------------------------------
(* Properties.                                                              *)

\* Speculation does not change the output: every token that is accepted was
\* sampled from the row of exactly the prompt and the tokens before it,
\* whatever was drafted, rejected, rolled back or restored (verify_and_emit).
RowsAreTrue ==
  step = "verify" =>
    \A i \in DOMAIN Accepted :
      contexts[i] = req.prompt \o generated \o FirstOf(Accepted, i - 1)

\* A greedy request never verifies a draft for a third time: what a restored
\* snapshot brings back is accepted by the next decode (spec_is_replay).
VerifiedTwiceAtMost == req.greedy => tries <= 2

\* A draft starts from the target's own state: the MTP head has the hidden row
\* of the last cell and no cell at or past the next position (spec_accept,
\* spec_rewind_mtp_kv).
DraftFromHere ==
  step = "draft" /\ ended = None /\ ~isReplay =>
    hidden = fed /\ Len(mtp) = nPast /\ nPast = Len(fed)

\* What a finished slot remembers has its cells: the tokens up to n_past are
\* the ones that were fed, also when the last token came from the middle of an
\* accepted draft (SlotPrefixCache::remember).
RememberedIsResident ==
  ended # None => /\ nPast = Len(fed)
                  /\ LET history == req.prompt \o generated
                     IN  IsPrefix(FirstOf(history, Less(nPast, Len(history))), fed)

\* A verification leaves what follows it a state that belongs together: the next
\* draft its hidden row and cells, the next request what is remembered.
StateFollows == DraftFromHere /\ RememberedIsResident
=============================================================================
