----------------------------- MODULE AgentOutput ----------------------------
(* The output of stage agents, from the agent's pipe through the batcher   *)
(* StreamOutput to the stage_logs row and, over a channel, to the browser. *)
(* A dispatch waits for one of the agent slots, resets the log of its row, *)
(* starts the agent, and returns when the batcher has seen the end of the  *)
(* pipe and the agent has exited; ProcessStageResult then saves its Output *)
(* over the log.  A forced re-run leaves the old dispatch of a row running *)
(* beside the new one.                                                     *)
(***************************************************************************)
EXTENDS Naturals, Sequences, FiniteSets

CONSTANTS
    Dispatches,   \* the dispatches that happen
    LogRow,       \* LogRow[d]: the stage_logs row that d writes
    AgentSlots,   \* maxConcurrentAgents
    FlushBytes,   \* streaming.flush_bytes, in pieces
    ChanCap,      \* the capacity of lineCh, in chunks
    MaxPieces,    \* bound: the pieces of output an agent writes
    OutputFaults  \* the ways a dispatch goes wrong

LogRows == {LogRow[d] : d \in Dispatches}

ASSUME OutputAssumption ==
    /\ AgentSlots \in Nat \ {0} /\ FlushBytes \in Nat \ {0}
    /\ ChanCap \in Nat \ {0} /\ MaxPieces \in Nat
    /\ OutputFaults \subseteq {"start", "reset", "append", "client"}

VARIABLES
    dpc,       \* where the dispatching goroutine is
    agent,     \* the agent process: "none", "running", "exited"
    pipe,      \* pieces in the agent's pipe
    written,   \* history: how many pieces the agent has written
    pending,   \* pieces read and not flushed
    chunk,     \* the pieces being flushed
    buffer,    \* StreamOutput's buffer, the dispatch's Output
    lineCh,    \* the channel to the browser
    shown,     \* history: pieces the browser was sent
    logs,      \* stage_logs.content of each row
    cancelled, \* the dispatch's context is done
    intact     \* history: nothing is lost of its log, and no other wrote to it since

process == <<agent, pipe, written>>
batch == <<pending, chunk, buffer>>
browser == <<lineCh, shown>>
outputVars == <<dpc, process, batch, browser, logs, cancelled, intact>>

\* A piece of output: the dispatch it comes from, its number, and whether it
\* ends a line.
Piece == [of : Dispatches, n : 1..MaxPieces, eol : BOOLEAN]
DispatchPCs == {"new", "waiting", "slot", "reading", "flushing", "sending",
                "exiting", "returned", "processed"}
HasSlot == {d \in Dispatches :
              dpc[d] \in {"slot", "reading", "flushing", "sending", "exiting"}}

OutputInit ==
    /\ dpc = [d \in Dispatches |-> "new"]
    /\ agent = [d \in Dispatches |-> "none"]
    /\ pipe = [d \in Dispatches |-> <<>>]
    /\ written = [d \in Dispatches |-> 0]
    /\ pending = [d \in Dispatches |-> <<>>]
    /\ chunk = [d \in Dispatches |-> <<>>]
    /\ buffer = [d \in Dispatches |-> <<>>]
    /\ lineCh = [d \in Dispatches |-> <<>>]
    /\ shown = [d \in Dispatches |-> <<>>]
    /\ logs = [r \in LogRows |-> <<>>]
    /\ cancelled = [d \in Dispatches |-> FALSE]
    /\ intact = [d \in Dispatches |-> TRUE]

DGoto(d, label) == dpc' = [dpc EXCEPT ![d] = label]
Sharing(d) == {e \in Dispatches : e # d /\ LogRow[e] = LogRow[d]}
Writers == HasSlot \cup {d \in Dispatches : dpc[d] = "returned"}
\* What others do to the row before a dispatch has its slot is reset then.
SpoiledBy(S) == [d \in Dispatches |->
                    intact[d] /\ (d \notin S \/ dpc[d] \in {"new", "waiting"})]
Spoils(S) == intact' = SpoiledBy(S)
SetLog(d, s) == logs' = [logs EXCEPT ![LogRow[d]] = s]

-----------------------------------------------------------------------------
(* RunStage and DispatchStreaming.                                         *)

DispatchBegins(d) ==
    /\ dpc[d] = "new"
    /\ DGoto(d, "waiting")
    /\ UNCHANGED <<process, batch, browser, logs, cancelled, intact>>

\* (as a mutant: the semaphore is one too large)
AcquireOneMore(d) ==
    /\ dpc[d] = "waiting" /\ Cardinality(HasSlot) <= AgentSlots
    /\ DGoto(d, "slot")
    /\ UNCHANGED <<process, batch, browser, logs, cancelled, intact>>

\* acquireAgentSlot waits whatever happens to the context.
AcquireAgentSlot(d) ==
    /\ dpc[d] = "waiting" /\ Cardinality(HasSlot) < AgentSlots
    /\ DGoto(d, "slot")
    /\ UNCHANGED <<process, batch, browser, logs, cancelled, intact>>

\* Reset the log, create or reuse the tmux session, start the agent process.  A
\* reset that fails is only logged.
StartAgent(d) ==
    /\ dpc[d] = "slot"
    /\ \/ /\ SetLog(d, <<>>)
          /\ Spoils(Sharing(d) \cup IF Sharing(d) \cap Writers = {} THEN {} ELSE {d})
       \/ "reset" \in OutputFaults /\ UNCHANGED logs /\ Spoils({d} \cup Sharing(d))
    /\ agent' = [agent EXCEPT ![d] = "running"]
    /\ DGoto(d, "reading")
    /\ UNCHANGED <<pipe, written, batch, browser, cancelled>>

\* The session or the process cannot be created: the log is reset already, and
\* the slot is free again.
DispatchFailsToStart(d) ==
    /\ "start" \in OutputFaults /\ dpc[d] = "slot"
    /\ SetLog(d, <<>>) /\ Spoils({d} \cup Sharing(d))
    /\ DGoto(d, "processed")
    /\ UNCHANGED <<process, batch, browser, cancelled>>

AgentWrites(d) ==
    /\ agent[d] = "running" /\ written[d] < MaxPieces
    /\ written' = [written EXCEPT ![d] = @ + 1]
    /\ \E nl \in BOOLEAN : pipe' = [pipe EXCEPT ![d] =
            Append(@, [of |-> d, n |-> written[d] + 1, eol |-> nl])]
    /\ UNCHANGED <<dpc, agent, batch, browser, logs, cancelled, intact>>

AgentExits(d) ==
    /\ agent[d] = "running"
    /\ agent' = [agent EXCEPT ![d] = "exited"]
    /\ UNCHANGED <<dpc, pipe, written, batch, browser, logs, cancelled, intact>>

\* The browser that resumed the session goes away: r.Context() is done.
ClientLeaves(d) ==
    /\ "client" \in OutputFaults /\ ~cancelled[d]
    /\ dpc[d] = "waiting" \/ d \in HasSlot
    /\ cancelled' = [cancelled EXCEPT ![d] = TRUE]
    /\ UNCHANGED <<dpc, process, batch, browser, logs, intact>>

\* cmd.Wait: a cancelled context does not end the agent.  RunStage closes the
\* channel, waits until it is drained, and its deferred release frees the slot.
DispatchReturns(d) ==
    /\ dpc[d] = "exiting" /\ agent[d] = "exited" /\ lineCh[d] = <<>>
    /\ DGoto(d, "returned")
    /\ UNCHANGED <<process, batch, browser, logs, cancelled, intact>>

\* ProcessStageResult replaces the log by the Output, if there is one, which makes
\* good what appends have lost; a save that fails is not noticed.  With it the
\* goroutine's variables are gone.
ProcessSavesOutput(d) ==
    /\ dpc[d] = "returned"
    /\ \/ /\ buffer[d] # <<>> /\ SetLog(d, buffer[d])
          /\ intact' = [SpoiledBy(Sharing(d)) EXCEPT ![d] = @ \/ ~cancelled[d]]
       \/ /\ buffer[d] = <<>> \/ "append" \in OutputFaults
          /\ UNCHANGED <<logs, intact>>
    /\ DGoto(d, "processed")
    /\ buffer' = [buffer EXCEPT ![d] = <<>>]
    /\ pipe' = [pipe EXCEPT ![d] = <<>>]
    /\ shown' = [shown EXCEPT ![d] = <<>>]
    /\ cancelled' = [cancelled EXCEPT ![d] = FALSE]
    /\ UNCHANGED <<agent, written, pending, chunk, lineCh>>

-----------------------------------------------------------------------------
(* StreamOutput.                                                           *)

\* Flush p, or keep it pending.
FlushOrKeep(d, p, flushing) ==
    /\ pending' = [pending EXCEPT ![d] = IF flushing THEN <<>> ELSE p]
    /\ chunk' = [chunk EXCEPT ![d] = IF flushing THEN p ELSE <<>>]
    /\ DGoto(d, IF flushing THEN "flushing" ELSE "reading")

\* (as a mutant: what is read goes into the buffer with the next tick only)
ReadUnbuffered(d) ==
    /\ dpc[d] = "reading" /\ ~cancelled[d] /\ pipe[d] # <<>>
    /\ LET p == Append(pending[d], Head(pipe[d]))
       IN  FlushOrKeep(d, p, Head(pipe[d]).eol \/ Len(p) >= FlushBytes)
    /\ pipe' = [pipe EXCEPT ![d] = Tail(@)]
    /\ UNCHANGED <<agent, written, buffer, browser, logs, cancelled, intact>>

\* A line, or too much that is no line yet, is flushed.
ReadPiece(d) ==
    /\ dpc[d] = "reading" /\ ~cancelled[d] /\ pipe[d] # <<>>
    /\ LET p == Append(pending[d], Head(pipe[d]))
       IN  FlushOrKeep(d, p, Head(pipe[d]).eol \/ Len(p) >= FlushBytes)
    /\ pipe' = [pipe EXCEPT ![d] = Tail(@)]
    /\ buffer' = [buffer EXCEPT ![d] = Append(@, Head(pipe[d]))]
    /\ UNCHANGED <<agent, written, browser, logs, cancelled, intact>>

\* The flush interval, noticed between two reads.  What is pending goes into
\* the buffer a second time.
Tick(d) ==
    /\ dpc[d] = "reading" /\ pending[d] # <<>>
    /\ buffer' = [buffer EXCEPT ![d] = @ \o pending[d]]
    /\ FlushOrKeep(d, pending[d], TRUE)
    /\ UNCHANGED <<process, browser, logs, cancelled, intact>>

StreamAtEnd(d) ==
    dpc[d] = "reading" /\ (cancelled[d] \/ (pipe[d] = <<>> /\ agent[d] = "exited"))

\* The end of the pipe, or a context that is done: flush what is pending, and
\* return after that.
StreamEnds(d) ==
    /\ StreamAtEnd(d)
    /\ IF pending[d] # <<>> THEN FlushOrKeep(d, pending[d], TRUE)
       ELSE DGoto(d, "exiting") /\ UNCHANGED <<pending, chunk>>
    /\ intact' = [intact EXCEPT ![d] = @ /\ ~cancelled[d]]
    /\ UNCHANGED <<process, buffer, browser, logs, cancelled>>

\* (as a mutant: the chunk is pushed, and persisted when a next one comes)
PersistLater(d) ==
    /\ dpc[d] = "flushing"
    /\ DGoto(d, "sending")
    /\ UNCHANGED <<process, batch, browser, logs, cancelled, intact>>

\* flushFn appends to the log.  It is tried twice; the chunk is lost when both
\* fail, and is there twice when the first failed only after it was applied.
Persist(d) ==
    /\ dpc[d] = "flushing"
    /\ LET log == logs[LogRow[d]]
       IN  \/ SetLog(d, log \o chunk[d]) /\ Spoils(Sharing(d))
           \/ /\ "append" \in OutputFaults
              /\ SetLog(d, log) \/ SetLog(d, log \o chunk[d] \o chunk[d])
              /\ Spoils({d} \cup Sharing(d))
    /\ DGoto(d, "sending")
    /\ UNCHANGED <<process, batch, browser, cancelled>>

\* Wait for room in the channel, unless the context is done.
Push(d) ==
    /\ dpc[d] = "sending"
    /\ \/ /\ Len(lineCh[d]) < ChanCap
          /\ lineCh' = [lineCh EXCEPT ![d] = Append(@, chunk[d])]
       \/ cancelled[d] /\ UNCHANGED lineCh
    /\ chunk' = [chunk EXCEPT ![d] = <<>>]
    /\ DGoto(d, "reading")
    /\ UNCHANGED <<process, pending, buffer, shown, logs, cancelled, intact>>

\* The goroutine that ranges over lineCh broadcasts each chunk.
Broadcast(d) ==
    /\ lineCh[d] # <<>>
    /\ shown' = [shown EXCEPT ![d] = @ \o Head(lineCh[d])]
    /\ lineCh' = [lineCh EXCEPT ![d] = Tail(@)]
    /\ UNCHANGED <<dpc, process, batch, logs, cancelled, intact>>

-----------------------------------------------------------------------------

DispatchStep(d) ==
    \/ AcquireAgentSlot(d) \/ StartAgent(d) \/ DispatchFailsToStart(d)
    \/ ReadPiece(d) \/ Tick(d) \/ StreamEnds(d) \/ Persist(d) \/ Push(d)
    \/ DispatchReturns(d) \/ ProcessSavesOutput(d)

OutputNext ==
    \E d \in Dispatches :
        \/ DispatchBegins(d) \/ DispatchStep(d) \/ Broadcast(d)
        \/ AgentWrites(d) \/ AgentExits(d) \/ ClientLeaves(d)

OutputSpec == OutputInit /\ [][OutputNext]_outputVars

-----------------------------------------------------------------------------
(* Properties.                                                             *)

\* The batcher's variables have their types.
OutputTypeOK ==
    /\ dpc \in [Dispatches -> DispatchPCs]
    /\ agent \in [Dispatches -> {"none", "running", "exited"}]
    /\ written \in [Dispatches -> 0..MaxPieces]
    /\ \A d \in Dispatches :
        pipe[d] \o pending[d] \o chunk[d] \o buffer[d] \o shown[d] \in Seq(Piece)

Numbers(s) == [i \in 1..Len(s) |-> <<s[i].of, s[i].n>>]
AllPieces(d) == [i \in 1..written[d] |-> <<d, i>>]
LogIsOutput(d) == Numbers(logs[LogRow[d]]) = AllPieces(d)

\* Of the pieces of d the sequence has the first k, and each for the first time
\* after the one before it: what is there again is a fragment repeated.
HoldsFirst(s, d, k) ==
    /\ \A j \in 1..Len(s) :
          /\ s[j].of = d /\ s[j].n \in 1..k
          /\ s[j].n = 1 \/ \E i \in 1..(j - 1) : s[i].n = s[j].n - 1
    /\ \A n \in 1..k : \E j \in 1..Len(s) : s[j].n = n

\* As long as no append failed, nobody cancelled it and no other dispatch wrote to
\* the row, the log of a dispatch that has returned is all that the agent wrote,
\* in order and once.  ProcessStageResult's save of the whole Output over it loses
\* nothing either, and makes good failed appends, but the log has then twice
\* what the flush interval had flushed.
LogComplete ==
    \A d \in Dispatches : intact[d] =>
        /\ dpc[d] = "returned" => LogIsOutput(d)
        /\ dpc[d] = "processed" => HoldsFirst(logs[LogRow[d]], d, written[d])

\* "Persist-then-push": until the result is processed, what the browser was
\* shown is in the log already, so a reload of the page shows no less.
ShownIsLogged ==
    \A d \in Dispatches : intact[d] /\ dpc[d] # "processed" =>
        /\ Len(shown[d]) <= Len(logs[LogRow[d]])
        /\ shown[d] = SubSeq(logs[LogRow[d]], 1, Len(shown[d]))

\* No more agents run than there are slots, and none runs without one, whatever
\* dispatches fail, are cancelled or overlap.
SlotsHeld ==
    /\ Cardinality(HasSlot) <= AgentSlots
    /\ \A d \in Dispatches : agent[d] = "running" => d \in HasSlot

=============================================================================
