-------------------------------- MODULE Sse --------------------------------
(***************************************************************************)
(* One HTTP completion between the scheduler and its client                *)
(* (golbang-server/src/sse.rs): the unbounded channel of slot events, the  *)
(* task of stream_completion that turns them into SSE chunks through a     *)
(* bounded channel, with its ping and flush timers, the handler of         *)
(* complete that gathers them into one JSON body, and a client that reads, *)
(* reads slowly or goes away between any two steps.                        *)
(*                                                                         *)
(* Data kept: which token a text is from.  The parsers (TextStream) hold   *)
(* what is undecided, let text go and swallow the rest: the tags of a      *)
(* thought, a block that is no call, and at the end what the last          *)
(* tools.push returns, which finish_stream and complete throw away.  Any   *)
(* parting of what they hold is possible here; content and reasoning are   *)
(* one text.  A piece that ends inside a character is empty.               *)
(***************************************************************************)
EXTENDS Naturals, Sequences

CONSTANTS
  Kinds,      \* "stream" and "json" requests
  MaxEvents,  \* bound: tokens, empty pieces and progress reports of a job
  ChanSize,   \* capacity of the channel to the client
  DueCount    \* deltas gathered before a flush

ASSUME SseAssumption ==
  /\ Kinds \subseteq {"stream", "json"} /\ MaxEvents \in Nat
  /\ ChanSize \in Nat \ {0} /\ DueCount \in Nat \ {0}

VARIABLES
  kind,
  worker,     \* the job: "queued", "running", "failing" (on a token), "gone"
  sent, made, \* events the worker has sent; the tokens with text among them
  events,     \* the channel of SlotEvents
  cancelled,  \* the CancellationToken
  todo,       \* chunks the task is in the middle of sending
  sse,        \* the channel to the client
  sentRole,
  taken,      \* tokens the task has handled
  held,       \* those whose text the parsers hold
  pending,    \* PendingDelta: [text, n]
  swallowed,  \* those whose text the parsers dropped
  over,       \* the task or the handler has returned
  got, left   \* what the client received, heartbeats left out; it went away

workerVars == <<worker, sent, made>>
parseVars  == <<sentRole, taken, held, pending, swallowed>>
clientVars == <<got, left>>
sseVars == <<kind, workerVars, events, cancelled, todo, sse, parseVars, over, clientVars>>

-----------------------------------------------------------------------------
(* Chunks.                                                                  *)

Chunk(what, ids)   == [what |-> what, ids |-> ids]
ChunkIf(what, ids) == IF ids = <<>> THEN <<>> ELSE <<Chunk(what, ids)>>
Mark(what)         == Chunk(what, <<>>)

Heartbeats == {"queued", "empty", "ping"}

\* Chunks whose failed send is ignored; "last" is the [DONE] after an error,
\* the one the task returns at.
ResultDropped == {"rest", "calls", "done", "error", "last"}

\* send(...).await: it waits while the channel is full and fails once the
\* client is gone, which cancels the job and ends the task.
Send ==
  /\ ~over /\ todo # <<>>
  /\ IF left /\ Head(todo).what \notin ResultDropped
     THEN cancelled' = TRUE /\ over' = TRUE /\ todo' = <<>> /\ UNCHANGED sse
     ELSE /\ left \/ Len(sse) < ChanSize
          /\ sse' = IF left THEN sse ELSE Append(sse, Head(todo))
          /\ todo' = Tail(todo) /\ over' = (Head(todo).what = "last")
          /\ UNCHANGED cancelled
  /\ UNCHANGED <<kind, workerVars, events, parseVars, clientVars>>

-----------------------------------------------------------------------------
(* The select loop of stream_completion.                                    *)

Ready == ~over /\ todo = <<>>

Take(type) == /\ Ready /\ events # <<>> /\ Head(events) = type
              /\ events' = Tail(events)

Members(q) == {q[i] : i \in DOMAIN q}

\* Increasing choices among the places 1 .. n, and what they choose.
Choices(n) ==
  UNION { {f \in [1 .. k -> 1 .. n] : \A i, j \in 1 .. k : i < j => f[i] < f[j]} : k \in 0 .. n }

Chosen(buf, f) == [i \in DOMAIN f |-> buf[f[i]]]

\* What the parsers may make of what they hold: of a first part of it some is
\* text, some the markup of tool calls, the rest is swallowed; what is behind it
\* they still hold.
Parting(buf, cut, f, g) ==
  [text      |-> Chosen(buf, f),
   calls     |-> Chosen(buf, g),
   swallowed |-> {buf[i] : i \in (1 .. cut) \ (Members(f) \cup Members(g))},
   rest      |-> SubSeq(buf, cut + 1, Len(buf))]

\* While the answer goes on there are no calls: a block is parsed at the end.
PartingsOfToken(buf) ==
  UNION { {Parting(buf, cut, f, <<>>) : f \in Choices(cut)} : cut \in 0 .. Len(buf) }

\* At the end nothing is held back.
PartingsAtEnd(buf) ==
  LET n == Len(buf)
  IN  {Parting(buf, n, p[1], p[2]) :
         p \in {q \in Choices(n) \X Choices(n) : Members(q[1]) \cap Members(q[2]) = {}}}

NothingPending == [text |-> <<>>, n |-> 0]

Gather(text) == IF text = <<>> THEN pending
                ELSE [text |-> pending.text \o text, n |-> pending.n + 1]

RoleChunk == IF sentRole THEN <<>> ELSE <<Mark("role")>>

FlushPending(p) == ChunkIf("text", p.text)

\* A token: the role before the first text, and a flush when one is due, by
\* count, size or age.
OnToken ==
  /\ kind = "stream" /\ Take("token")
  /\ taken' = taken + 1
  /\ \E part \in PartingsOfToken(Append(held, taken')), old \in BOOLEAN :
       LET p == Gather(part.text)
           due == part.text # <<>> /\ (p.n >= DueCount \/ old)
       IN  /\ held' = part.rest /\ swallowed' = swallowed \cup part.swallowed
           /\ pending' = IF due THEN NothingPending ELSE p
           /\ todo' = RoleChunk \o (IF due THEN FlushPending(p) ELSE <<>>)
  /\ sentRole' = TRUE
  /\ UNCHANGED <<kind, workerVars, cancelled, sse, over, clientVars>>

OnEmptyPiece ==
  /\ Take("empty")
  /\ UNCHANGED <<kind, workerVars, cancelled, todo, sse, parseVars, over, clientVars>>

\* PromptProgress: a heartbeat; complete does nothing with it.
OnProgress ==
  /\ Take("progress")
  /\ todo' = IF kind = "stream" THEN <<Mark("ping")>> ELSE <<>>
  /\ UNCHANGED <<kind, workerVars, cancelled, sse, parseVars, over, clientVars>>

\* Mutant: what is pending when the job ends is not flushed.
FinishChunksUnflushed(rest, markup) ==
  ChunkIf("rest", rest) \o ChunkIf("calls", markup) \o <<Mark("finish"), Mark("done")>>

\* flush_pending and finish_stream, with what finish() of the parsers gives.
FinishChunks(rest, markup) ==
  FlushPending(pending) \o ChunkIf("rest", rest) \o ChunkIf("calls", markup)
    \o <<Mark("finish"), Mark("done")>>

\* Finished: the parsers let go of what they hold or drop it; what the last
\* tools.push returns is dropped as well.  The task goes on until the channel
\* closes.
OnFinished ==
  /\ kind = "stream" /\ Take("finished")
  /\ \E part \in PartingsAtEnd(held) :
       /\ swallowed' = swallowed \cup part.swallowed
       /\ todo' = FinishChunks(part.text, part.calls)
  /\ held' = <<>> /\ pending' = NothingPending
  /\ UNCHANGED <<kind, workerVars, cancelled, sse, sentRole, taken, over, clientVars>>

\* Mutant: the task goes on after an error.
ErrorChunksGoOn == <<Mark("error"), Mark("done")>>

ErrorChunks == <<Mark("error"), Mark("last")>>

\* Failed: the error is a chunk of its own, with a role and a finish_reason.
OnFailed ==
  /\ kind = "stream" /\ Take("failed")
  /\ todo' = ErrorChunks
  /\ UNCHANGED <<kind, workerVars, cancelled, sse, parseVars, over, clientVars>>

\* Mutant: a channel that closes before the role is waited on for ever.
OnClosedAfterRole ==
  /\ kind = "stream" /\ Ready /\ events = <<>> /\ worker = "gone" /\ sentRole
  /\ over' = TRUE
  /\ UNCHANGED <<kind, workerVars, events, cancelled, todo, sse, parseVars, clientVars>>

OnClosed ==
  /\ kind = "stream" /\ Ready /\ events = <<>> /\ worker = "gone"
  /\ over' = TRUE
  /\ UNCHANGED <<kind, workerVars, events, cancelled, todo, sse, parseVars, clientVars>>

\* Mutant: the ping waits for a first progress report.
PingAfterProgress ==
  /\ kind = "stream" /\ Ready /\ ~sentRole /\ sent > 0
  /\ todo' = <<Mark("ping")>>
  /\ UNCHANGED <<kind, workerVars, events, cancelled, sse, parseVars, over, clientVars>>

\* Every two seconds until the role is sent.
Ping ==
  /\ kind = "stream" /\ Ready /\ ~sentRole
  /\ todo' = <<Mark("ping")>>
  /\ UNCHANGED <<kind, workerVars, events, cancelled, sse, parseVars, over, clientVars>>

\* 40 ms without an event.
FlushTimer ==
  /\ kind = "stream" /\ Ready /\ pending.n > 0
  /\ todo' = FlushPending(pending) /\ pending' = NothingPending
  /\ UNCHANGED <<kind, workerVars, events, cancelled, sse, sentRole, taken, held, swallowed,
                 over, clientVars>>

-----------------------------------------------------------------------------
(* complete: one body, or an error.                                         *)

JsonToken ==
  /\ kind = "json" /\ Take("token")
  /\ taken' = taken + 1
  /\ \E part \in PartingsOfToken(Append(held, taken')) :
       /\ held' = part.rest /\ swallowed' = swallowed \cup part.swallowed
       /\ pending' = Gather(part.text)
  /\ UNCHANGED <<kind, workerVars, cancelled, todo, sse, sentRole, over, clientVars>>

\* The guard cancels the token on every return.
JsonFinished ==
  /\ kind = "json" /\ Take("finished")
  /\ \E part \in PartingsAtEnd(held) :
       /\ swallowed' = swallowed \cup part.swallowed
       /\ got' = ChunkIf("text", pending.text \o part.text) \o ChunkIf("calls", part.calls)
                   \o <<Mark("finish"), Mark("done")>>
  /\ held' = <<>> /\ pending' = NothingPending
  /\ cancelled' = TRUE /\ over' = TRUE
  /\ UNCHANGED <<kind, workerVars, todo, sse, sentRole, taken, left>>

JsonFailed ==
  /\ kind = "json" /\ Take("failed")
  /\ got' = <<Mark("error"), Mark("last")>>
  /\ cancelled' = TRUE /\ over' = TRUE
  /\ UNCHANGED <<kind, workerVars, todo, sse, parseVars, left>>

\* The channel closed without an answer: a body with no finish_reason.
JsonClosed ==
  /\ kind = "json" /\ Ready /\ events = <<>> /\ worker = "gone"
  /\ got' = ChunkIf("text", pending.text) \o <<Mark("done")>>
  /\ cancelled' = TRUE /\ over' = TRUE
  /\ UNCHANGED <<kind, workerVars, events, todo, sse, parseVars, left>>

-----------------------------------------------------------------------------
(* The job in the scheduler, and the client.                                *)

Emit(type) == events' = IF over THEN events ELSE Append(events, type)

WorkerRest == UNCHANGED <<kind, cancelled, todo, sse, parseVars, over, clientVars>>

WorkerSends ==
  /\ worker \in {"queued", "running"} /\ sent < MaxEvents
  /\ \/ worker = "queued" /\ Emit("progress") /\ UNCHANGED <<worker, made>>
     \/ Emit("empty") /\ worker' = "running" /\ UNCHANGED made
     \/ Emit("token") /\ worker' = "running" /\ made' = made + 1
  /\ sent' = sent + 1
  /\ WorkerRest

\* push_token cannot turn a token into text: Failed, and Finished at the end
\* of the iteration (evict_finished).
WorkerFailsToken ==
  /\ worker = "running" /\ Emit("failed") /\ worker' = "failing"
  /\ UNCHANGED <<sent, made>> /\ WorkerRest

\* Stop or length; any failure, a cancelled client among them; a panic or a
\* shutdown drops the sender.
WorkerEnds ==
  /\ \/ worker \in {"running", "failing"} /\ Emit("finished")
     \/ worker \in {"queued", "running"} /\ Emit("failed")
     \/ worker # "gone" /\ UNCHANGED events
  /\ worker' = "gone"
  /\ UNCHANGED <<sent, made>> /\ WorkerRest

ClientReads ==
  /\ ~left /\ sse # <<>>
  /\ sse' = Tail(sse)
  /\ got' = IF Head(sse).what \in Heartbeats THEN got ELSE Append(got, Head(sse))
  /\ UNCHANGED <<kind, workerVars, events, cancelled, todo, parseVars, over, left>>

\* The body stream is dropped; a JSON handler is dropped with its guard.
ClientLeaves ==
  /\ ~left /\ left' = TRUE /\ sse' = <<>>
  /\ IF kind = "json" THEN cancelled' = TRUE /\ over' = TRUE
                      ELSE UNCHANGED <<cancelled, over>>
  /\ UNCHANGED <<kind, workerVars, events, todo, parseVars, got>>

-----------------------------------------------------------------------------

SseInit ==
  /\ kind \in Kinds
  /\ worker = "queued" /\ sent = 0 /\ made = 0 /\ events = <<>> /\ cancelled = FALSE
  /\ todo = IF kind = "stream" THEN <<Mark("queued"), Mark("empty")>> ELSE <<>>
  /\ sse = <<>> /\ sentRole = FALSE /\ taken = 0 /\ held = <<>>
  /\ pending = NothingPending /\ swallowed = {} /\ over = FALSE
  /\ got = <<>> /\ left = FALSE

OnEvent == \/ OnToken \/ OnEmptyPiece \/ OnProgress \/ OnFinished \/ OnFailed \/ OnClosed
           \/ JsonToken \/ JsonFinished \/ JsonFailed \/ JsonClosed
Worker  == WorkerSends \/ WorkerFailsToken \/ WorkerEnds

SseNext == Send \/ OnEvent \/ Ping \/ FlushTimer \/ Worker \/ ClientReads \/ ClientLeaves

\* The runtime polls the task and fires its timers; select! takes a ready branch
\* at random, so an event that waits is taken however often the ping is ready
\* too; a client reads on, or goes away.  Nothing is assumed of the job.
SseSpec == /\ SseInit /\ [][SseNext]_sseVars
           /\ WF_sseVars(Send) /\ SF_sseVars(OnEvent) /\ WF_sseVars(Ping) /\ WF_sseVars(FlushTimer)
           /\ WF_sseVars(ClientReads \/ ClientLeaves)

-----------------------------------------------------------------------------
(* Properties.                                                              *)

Texts == {"text", "rest"}
Ends  == {"finish", "error"}
Dones == {"done", "last"}
GotOf(S) == {i \in DOMAIN got : got[i].what \in S}

\* The client is told one end, whichever events ended the request, also when
\* Failed is followed by Finished: one finish_reason, then [DONE], and no text,
\* tool call or further end after it (stream_completion, push_token).
OneEnd ==
  /\ \A i, j \in GotOf(Ends) : i = j
  /\ \A i \in GotOf(Dones) : i = Len(got)
  /\ \A i \in GotOf(Ends) : GotOf(Texts \cup {"calls", "role"}) \subseteq 1 .. i - 1

\* Text and tool calls follow the role of the message (stream_completion).
RoleFirst ==
  kind = "stream" =>
    \A i \in GotOf(Texts \cup {"calls", "finish"}) :
      got[i].ids # <<>> => \E j \in GotOf({"role"}) : j < i

\* The text a client has is in the order of the tokens, and when the request
\* is said to be finished it has all that the parsers let go, in the text or in
\* the tool calls: no delta is lost between the parsers, the pending delta and
\* the two channels (PendingDelta, flush_pending, finish_stream, complete).
\* What the parsers swallow, the return of the last tools.push among it, the
\* client never has; TextStream says which text that can be (EndIsWhole).
TextInOrder ==
  /\ \A i, j \in GotOf(Texts) : \A x \in DOMAIN got[i].ids, y \in DOMAIN got[j].ids :
       i < j \/ (i = j /\ x < y) => got[i].ids[x] < got[j].ids[y]
  /\ GotOf({"finish"}) # {} =>
       swallowed \cup UNION {Members(got[i].ids) : i \in GotOf(Texts \cup {"calls"})} = 1 .. made

\* A client that leaves a stream before its role, or while text waits for its
\* flush, is noticed without any help of the job: the job is cancelled or its
\* end was already known (the ping and flush timers of stream_completion).
LeaverIsNoticed == left /\ (~sentRole \/ pending.n > 0) ~> cancelled \/ over

\* When the job is gone, however it ended, the task returns.
TaskEnds == worker = "gone" ~> over

\* The chunks come in their order: the role, text and tool calls, one end, [DONE].
ChunkOrder == OneEnd /\ RoleFirst
=============================================================================
