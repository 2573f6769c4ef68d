------------------------------ MODULE VisionKv ------------------------------
(***************************************************************************)
(* Prefix reuse of requests with images on one slot: VisionSeq in          *)
(* golbang-core/src/prefix_cache.rs (an image is kept or dropped whole,    *)
(* and takes fewer positions than cells), bind_vision_slot in scheduler.rs *)
(* and the evaluation of the rest of the prompt in vision.rs.  PrefixKv    *)
(* has the requests without images; here such a request only takes the     *)
(* slot in between.                                                        *)
(*                                                                         *)
(* Data kept: the id, the cells and the positions of an image, the tokens  *)
(* of a text, and what each cell of the sequence was computed from.        *)
(***************************************************************************)
EXTENDS Integers, Sequences, FiniteSets, SequencesExt

CONSTANTS
  VisionPrompts,  \* sequences of chunks: records of id ("" for a text), text (its
                  \* tokens) and, of an image, cells and span (n_tokens, n_pos)
  TextPrompts,    \* prompts without images
  Sampled,        \* tokens that are sampled
  AnswerMax,      \* bound on the tokens of an answer
  CapPos          \* ctx_cap

VARIABLES
  vision,  \* prefix_cache.vision
  cells,   \* of the sequence: records of pos and what
  anchors, \* lengths of prefix_ckpts
  vjob,    \* the running job
  vkept,   \* whether the idle cells are retained (retained_at)
  eval     \* the evaluation under way: prompt, from (cells kept), at (position)

visionVars == <<vision, cells, anchors, vjob, vkept, eval>>

NoSeq == [tokens |-> <<>>, images |-> {}]
NoVJob == [seq |-> NoSeq, answer |-> <<>>, past |-> 0]
NoEval == [prompt |-> NoSeq, from |-> 0, at |-> 0]

-----------------------------------------------------------------------------
(* VisionSeq.                                                               *)

FromChunks(chunks) ==
  LET Add(s, c) ==
        IF c.id = "" THEN [s EXCEPT !.tokens = @ \o c.text]
        ELSE [tokens |-> s.tokens \o [k \in 1 .. c.cells |-> 0],
              images |-> s.images \cup
                {[start |-> Len(s.tokens), id |-> c.id, cells |-> c.cells, span |-> c.span]}]
  IN  FoldLeft(Add, NoSeq, chunks)

\* A prompt has something to evaluate; an image takes cells and positions, and
\* its id, a hash of its bytes, and its cells tell how many positions.
ASSUME VisionAssumption ==
  /\ Sampled \subseteq Nat /\ TextPrompts \subseteq Seq(Nat)
  /\ VisionPrompts \subseteq Seq([id : STRING, text : Seq(Nat), cells : Nat, span : Nat])
  /\ \A p \in VisionPrompts :
       /\ FromChunks(p).tokens # <<>>
       /\ \A k \in DOMAIN p : p[k].id # "" => p[k].cells > 0 /\ p[k].span > 0
  /\ \A p, r \in VisionPrompts : \A k \in DOMAIN p, l \in DOMAIN r :
       p[k].id # "" /\ p[k].id = r[l].id /\ p[k].cells = r[l].cells => p[k].span = r[l].span

ImageAt(s, i) == {im \in s.images : im.start = i}
ImageCovering(s, i) == {im \in s.images : im.start <= i /\ i < im.start + im.cells}

\* Cells and positions of the step that begins at cell i (from 0).
StepCells(s, i) == IF ImageAt(s, i) = {} THEN 1 ELSE (CHOOSE im \in ImageAt(s, i) : TRUE).cells
StepSpan(s, i) == IF ImageAt(s, i) = {} THEN 1 ELSE (CHOOSE im \in ImageAt(s, i) : TRUE).span

\* pos_next: the position after the first n cells.
PosNext(s, n) ==
  LET Go[i \in 0 .. Len(s.tokens)] ==
        IF i < n /\ i < Len(s.tokens) THEN StepSpan(s, i) + Go[i + StepCells(s, i)] ELSE 0
  IN  Go[0]

\* Mutant: any two images are taken to be the same.
VisionCommonIgnoresIds(a, b) ==
  LET most == IF Len(a.tokens) < Len(b.tokens) THEN Len(a.tokens) ELSE Len(b.tokens)
      Go[i \in 0 .. Len(a.tokens)] ==
        IF /\ i < most /\ a.tokens[i + 1] = b.tokens[i + 1]
           /\ (ImageAt(a, i) = {}) = (ImageAt(b, i) = {})
        THEN Go[i + StepCells(a, i)]
        ELSE IF i < most THEN i ELSE most
  IN  Go[0]

\* common_prefix: images by id and size, whole or not at all.
VisionCommon(a, b) ==
  LET most == IF Len(a.tokens) < Len(b.tokens) THEN Len(a.tokens) ELSE Len(b.tokens)
      Same(i) == IF ImageAt(a, i) = {} /\ ImageAt(b, i) = {} THEN a.tokens[i + 1] = b.tokens[i + 1]
                 ELSE \E im \in ImageAt(a, i), jm \in ImageAt(b, i) :
                        im.id = jm.id /\ im.cells = jm.cells
      Go[i \in 0 .. Len(a.tokens)] ==
        IF i < most /\ Same(i) THEN Go[i + StepCells(a, i)] ELSE IF i < most THEN i ELSE most
  IN  Go[0]

\* reuse_for_bind: one cell is left for logits, an image is not split.
VisionReuse(old, prompt, covered) ==
  LET n == VisionCommon(old, prompt)
      m == IF n < Len(prompt.tokens) THEN n ELSE Len(prompt.tokens) - 1
      whole == IF ImageCovering(prompt, m) = {} THEN m
               ELSE (CHOOSE im \in ImageCovering(prompt, m) : TRUE).start
  IN  IF covered < PosNext(prompt, whole) THEN 0 ELSE whole

\* truncate_to_pos: an image cut by pos goes whole.
Truncated(s, pos) ==
  LET Go[i \in 0 .. Len(s.tokens)] ==
        IF i < Len(s.tokens) /\ PosNext(s, i) + StepSpan(s, i) <= pos
        THEN Go[i + StepCells(s, i)] ELSE i
      n == Go[0]
  IN  [tokens |-> SubSeq(s.tokens, 1, n), images |-> {im \in s.images : im.start < n}]

\* The cells a sequence has for cell i of s: a token's, or all those of an
\* image, which share its first position; and those from cell n on.
CellsAt(s, i) ==
  IF ImageCovering(s, i) = {}
  THEN {[pos |-> PosNext(s, i), what |-> <<"token", s.tokens[i + 1]>>]}
  ELSE UNION {{[pos |-> PosNext(s, i), what |-> <<im.id, k>>] : k \in 1 .. im.cells}
              : im \in ImageAt(s, i)}

CellsFrom(s, n) == UNION {CellsAt(s, i) : i \in n .. Len(s.tokens) - 1}

-----------------------------------------------------------------------------
(* bind_vision_slot.                                                        *)

\* n_past_seq.
Highest(S) == CHOOSE m \in {0} \cup {c.pos + 1 : c \in S} : \A c \in S : c.pos + 1 <= m
HighestAnchor == CHOOSE m \in {0} \cup anchors : \A a \in anchors : a <= m

\* Too long prompts are refused; else what is not reused is to be evaluated.
BindVision(chunks) ==
  LET prompt == FromChunks(chunks)
      hint == IF Highest(cells) < HighestAnchor THEN HighestAnchor ELSE Highest(cells)
      n == VisionReuse(vision, prompt, hint)
  IN  /\ vjob = NoVJob /\ eval = NoEval
      /\ PosNext(prompt, Len(prompt.tokens)) < CapPos
      /\ eval' = [prompt |-> prompt, from |-> n, at |-> PosNext(prompt, n)]
      /\ cells' = IF n = 0 THEN {} ELSE cells
      /\ vision' = IF n = 0 THEN NoSeq ELSE vision
      /\ anchors' = IF n = 0 THEN {} ELSE anchors
      /\ UNCHANGED <<vjob, vkept>>

\* llama_decode takes a batch at the position after the last cell only.
Accepts == Highest(cells) <= eval.at

\* vision_eval_from, occupy, capture_prefix_checkpoint and the first sample.
EvalSucceeds ==
  /\ eval # NoEval /\ Accepts
  /\ LET past == PosNext(eval.prompt, Len(eval.prompt.tokens))
     IN  /\ cells' = cells \cup CellsFrom(eval.prompt, eval.from)
         /\ \E t \in Sampled :
              vjob' = [seq |-> eval.prompt, answer |-> <<t>>, past |-> past]
         /\ anchors' \in {anchors, anchors \cup {past}}
  /\ vision' = eval.prompt /\ eval' = NoEval /\ vkept' = FALSE

\* The sample fails: the job is gone, cells and memory stay, and are not
\* retained for a later release.
SampleFails ==
  /\ eval # NoEval /\ Accepts
  /\ cells' = cells \cup CellsFrom(eval.prompt, eval.from)
  /\ anchors' \in {anchors, anchors \cup {PosNext(eval.prompt, Len(eval.prompt.tokens))}}
  /\ vision' = eval.prompt /\ eval' = NoEval /\ vkept' = FALSE
  /\ UNCHANGED vjob

Emptied == vision' = NoSeq /\ cells' = {} /\ anchors' = {}

\* The evaluation fails: at the wrong position, inside an image
\* (eval_partial_chunk), or in the engine.
EvalFails ==
  /\ eval # NoEval
  /\ Emptied /\ eval' = NoEval
  /\ UNCHANGED <<vjob, vkept>>

-----------------------------------------------------------------------------
(* The rest of the job, and what else happens to the slot.                  *)

VisionDecode(t) ==
  /\ vjob # NoVJob /\ Len(vjob.answer) < AnswerMax
  /\ cells' = cells \cup {[pos |-> vjob.past, what |-> <<"token", Last(vjob.answer)>>]}
  /\ vjob' = [vjob EXCEPT !.past = @ + 1, !.answer = Append(@, t)]
  /\ UNCHANGED <<vision, anchors, vkept, eval>>

\* finish_slot with Stop, Length, Cancelled or Timeout: remember_vision.
VisionFinish ==
  /\ vjob # NoVJob
  /\ vision' = Truncated([vjob.seq EXCEPT !.tokens = @ \o vjob.answer], vjob.past)
  /\ vjob' = NoVJob /\ vkept' = TRUE
  /\ UNCHANGED <<cells, anchors, eval>>

\* finish_slot with an error.
VisionJobFails ==
  /\ vjob # NoVJob
  /\ Emptied /\ vjob' = NoVJob /\ vkept' = FALSE
  /\ UNCHANGED eval

\* The retained cells are released; the anchors stay.
VisionRelease ==
  /\ vkept /\ eval = NoEval
  /\ vision' = NoSeq /\ cells' = {} /\ vkept' = FALSE
  /\ UNCHANGED <<anchors, vjob, eval>>

\* A request without images comes and goes: it matches nothing an image
\* request left, and leaves its own tokens.
TextRequest(p) ==
  /\ vjob = NoVJob /\ eval = NoEval
  /\ vision' = NoSeq
  /\ cells' = {[pos |-> i - 1, what |-> <<"token", p[i]>>] : i \in DOMAIN p}
  /\ anchors' \in {{}, {Len(p)}} /\ vkept' = TRUE
  /\ UNCHANGED <<vjob, eval>>

VisionInit ==
  /\ vision = NoSeq /\ cells = {} /\ anchors = {}
  /\ vjob = NoVJob /\ vkept = FALSE /\ eval = NoEval

VisionNext ==
  \/ \E p \in VisionPrompts : BindVision(p)
  \/ EvalSucceeds \/ SampleFails \/ EvalFails
  \/ \E t \in Sampled : VisionDecode(t)
  \/ VisionFinish \/ VisionJobFails \/ VisionRelease
  \/ \E p \in TextPrompts : TextRequest(p)

-----------------------------------------------------------------------------
\* The cells of a running image request are exactly those of its prompt and
\* answer: an image is never taken for another one, never split, and no cell
\* of an earlier turn is left at a position of this one.
ImagesAreTrue ==
  vjob # NoVJob =>
    cells = CellsFrom(Truncated([vjob.seq EXCEPT !.tokens = @ \o vjob.answer], vjob.past), 0)

\* What an idle slot remembers of an image request it has, cell by cell and
\* position by position, and nothing beside it; also when the first sample
\* failed or the request was cancelled in between.
ImagesAreRemembered ==
  vjob = NoVJob /\ eval = NoEval /\ vision # NoSeq => cells = CellsFrom(vision, 0)

\* The rest of a prompt is evaluated onto a sequence that holds what is
\* reused and no cell after it ("Image requests clear the slot KV", README.md).
NoTailBehindReuse == eval # NoEval => Highest(cells) <= eval.at

\* Images are kept apart from the bind to the next turn: in the cells of a
\* running request, and in what an idle slot remembers.
ImagesAreKept == ImagesAreTrue /\ ImagesAreRemembered
=============================================================================
