---------------------------- MODULE OutputProofs ----------------------------
(* Theorems about how what happens gets to the browser: about AgentOutput,  *)
(* for any number of dispatches and rows, any sizes, and every fault; and   *)
(* about EventStream, for any clients, senders and sizes.                   *)
EXTENDS AgentOutput, EventStream, FiniteSetTheorems, SequenceTheorems, TLAPS

\* What a dispatch works with; outside the runs of the batcher its parts are
\* empty.
PieceSeqs == [Dispatches -> Seq(Piece)]
OutputTypes ==
    /\ dpc \in [Dispatches -> DispatchPCs]
    /\ agent \in [Dispatches -> {"none", "running", "exited"}]
    /\ written \in [Dispatches -> 0..MaxPieces]
    /\ pipe \in PieceSeqs /\ pending \in PieceSeqs /\ chunk \in PieceSeqs
    /\ buffer \in PieceSeqs /\ shown \in PieceSeqs
    /\ lineCh \in [Dispatches -> Seq(Seq(Piece))]
    /\ logs \in [LogRows -> Seq(Piece)]
    /\ cancelled \in [Dispatches -> BOOLEAN] /\ intact \in [Dispatches -> BOOLEAN]

LEMMA RowOfLog ==
    ASSUME NEW d \in Dispatches
    PROVE  LogRow[d] \in LogRows
  BY DEF LogRows

LEMMA ConcatPieces ==
    ASSUME NEW s \in Seq(Piece), NEW t \in Seq(Piece)
    PROVE  s \o t \in Seq(Piece)
  OBVIOUS

LEMMA OutputTypesInit == OutputInit => OutputTypes
  <1> SUFFICES ASSUME OutputInit PROVE OutputTypes
    OBVIOUS
  <1>1. <<>> \in Seq(Piece) /\ <<>> \in Seq(Seq(Piece)) /\ 0 \in 0..MaxPieces
    BY OutputAssumption
  <1> QED
    BY <1>1 DEF OutputInit, OutputTypes, PieceSeqs, DispatchPCs

LEMMA OutputTypesStep ==
    ASSUME OutputTypes, NEW d \in Dispatches,
           \/ DispatchBegins(d) \/ DispatchStep(d) \/ Broadcast(d)
           \/ AgentWrites(d) \/ AgentExits(d) \/ ClientLeaves(d)
    PROVE  OutputTypes'
  <1>0. <<>> \in Seq(Piece) /\ LogRow[d] \in LogRows /\ MaxPieces \in Nat
    BY OutputAssumption, RowOfLog
  <1>1. CASE DispatchBegins(d) \/ AcquireAgentSlot(d)
    BY <1>1 DEF OutputTypes, DispatchBegins, AcquireAgentSlot, DGoto, DispatchPCs,
                process, batch, browser
  <1>2. CASE StartAgent(d)
    <2>1. logs' \in [LogRows -> Seq(Piece)]
      BY <1>0, <1>2 DEF OutputTypes, StartAgent, SetLog
    <2>2. intact' \in [Dispatches -> BOOLEAN]
      BY <1>2 DEF OutputTypes, StartAgent, Spoils, SpoiledBy
    <2> QED
      BY <1>2, <2>1, <2>2 DEF OutputTypes, StartAgent, DGoto, DispatchPCs, batch, browser
  <1>3. CASE DispatchFailsToStart(d)
    BY <1>0, <1>3 DEF OutputTypes, DispatchFailsToStart, SetLog, Spoils, SpoiledBy, DGoto,
                      DispatchPCs, process, batch, browser
  <1>4. CASE ReadPiece(d)
    <2>1. pipe[d] \in Seq(Piece) /\ pipe[d] # <<>> /\ pending[d] \in Seq(Piece)
          /\ buffer[d] \in Seq(Piece)
      BY <1>4 DEF OutputTypes, PieceSeqs, ReadPiece
    <2>2. Head(pipe[d]) \in Piece /\ Tail(pipe[d]) \in Seq(Piece)
      BY <2>1
    <2>3. /\ Append(pending[d], Head(pipe[d])) \in Seq(Piece)
          /\ Append(buffer[d], Head(pipe[d])) \in Seq(Piece)
      BY <2>1, <2>2
    <2> QED
      BY <1>0, <1>4, <2>2, <2>3 DEF OutputTypes, PieceSeqs, ReadPiece, FlushOrKeep, DGoto,
                                    DispatchPCs, browser
  <1>5. CASE Tick(d)
    <2>1. buffer[d] \o pending[d] \in Seq(Piece)
      BY DEF OutputTypes, PieceSeqs
    <2> QED
      BY <1>0, <1>5, <2>1 DEF OutputTypes, PieceSeqs, Tick, FlushOrKeep, DGoto, DispatchPCs,
                              process, browser
  <1>6. CASE StreamEnds(d)
    <2>1. intact' \in [Dispatches -> BOOLEAN]
      BY <1>6 DEF OutputTypes, StreamEnds
    <2>2. pending' \in PieceSeqs /\ chunk' \in PieceSeqs /\ dpc' \in [Dispatches -> DispatchPCs]
      <3>1. CASE pending[d] # <<>>
        <4>1. /\ pending' = [pending EXCEPT ![d] = <<>>]
              /\ chunk' = [chunk EXCEPT ![d] = pending[d]] /\ DGoto(d, "flushing")
          BY <1>6, <3>1 DEF StreamEnds, FlushOrKeep
        <4>2. pending[d] \in Seq(Piece)
          BY DEF OutputTypes, PieceSeqs
        <4> QED
          BY <1>0, <4>1, <4>2 DEF OutputTypes, PieceSeqs, DGoto, DispatchPCs
      <3>2. CASE pending[d] = <<>>
        BY <1>6, <3>2 DEF OutputTypes, StreamEnds, DGoto, DispatchPCs
      <3> QED
        BY <3>1, <3>2
    <2> QED
      BY <1>6, <2>1, <2>2 DEF OutputTypes, StreamEnds, process, browser
  <1>7. CASE Persist(d)
    <2>1. /\ logs[LogRow[d]] \in Seq(Piece)
          /\ logs[LogRow[d]] \o chunk[d] \in Seq(Piece)
          /\ logs[LogRow[d]] \o chunk[d] \o chunk[d] \in Seq(Piece)
      BY <1>0 DEF OutputTypes, PieceSeqs
    <2>2. logs' \in [LogRows -> Seq(Piece)]
      BY <1>0, <1>7, <2>1 DEF OutputTypes, Persist, SetLog
    <2> QED
      BY <1>7, <2>2 DEF OutputTypes, Persist, Spoils, SpoiledBy, DGoto, DispatchPCs, process,
                        batch, browser
  <1>8. CASE Push(d)
    <2>1. lineCh[d] \in Seq(Seq(Piece)) /\ chunk[d] \in Seq(Piece)
      BY DEF OutputTypes, PieceSeqs
    <2>2. Append(lineCh[d], chunk[d]) \in Seq(Seq(Piece))
      BY <2>1
    <2> QED
      BY <1>0, <1>8, <2>2 DEF OutputTypes, PieceSeqs, Push, DGoto, DispatchPCs, process
  <1>9. CASE Broadcast(d)
    <2>1. lineCh[d] \in Seq(Seq(Piece)) /\ lineCh[d] # <<>> /\ shown[d] \in Seq(Piece)
      BY <1>9 DEF OutputTypes, PieceSeqs, Broadcast
    <2>2. Head(lineCh[d]) \in Seq(Piece) /\ Tail(lineCh[d]) \in Seq(Seq(Piece))
      BY <2>1
    <2>3. shown[d] \o Head(lineCh[d]) \in Seq(Piece)
      BY <2>1, <2>2
    <2> QED
      BY <1>9, <2>2, <2>3 DEF OutputTypes, PieceSeqs, Broadcast, process, batch
  <1>10. CASE DispatchReturns(d) \/ AgentExits(d) \/ ClientLeaves(d)
    BY <1>10 DEF OutputTypes, DispatchReturns, AgentExits, ClientLeaves, DGoto, DispatchPCs,
                 process, batch, browser
  <1>11. CASE ProcessSavesOutput(d)
    <2>1. logs' \in [LogRows -> Seq(Piece)]
      BY <1>0, <1>11 DEF OutputTypes, PieceSeqs, ProcessSavesOutput, SetLog
    <2>2. intact' \in [Dispatches -> BOOLEAN]
      <3>1. SpoiledBy(Sharing(d)) \in [Dispatches -> BOOLEAN]
        BY DEF OutputTypes, SpoiledBy
      <3>2. (intact[d] \/ ~cancelled[d]) \in BOOLEAN
        BY DEF OutputTypes
      <3> QED
        BY <1>11, <3>1, <3>2 DEF OutputTypes, ProcessSavesOutput
    <2> QED
      BY <1>0, <1>11, <2>1, <2>2 DEF OutputTypes, PieceSeqs, ProcessSavesOutput, DGoto,
                                     DispatchPCs
  <1>12. CASE AgentWrites(d)
    <2>1. written[d] + 1 \in 1..MaxPieces
      BY <1>0, <1>12 DEF OutputTypes, AgentWrites
    <2>2. PICK nl \in BOOLEAN : pipe' = [pipe EXCEPT ![d] =
              Append(@, [of |-> d, n |-> written[d] + 1, eol |-> nl])]
      BY <1>12 DEF AgentWrites
    <2>3. [of |-> d, n |-> written[d] + 1, eol |-> nl] \in Piece
      BY <2>1 DEF Piece
    <2>4. Append(pipe[d], [of |-> d, n |-> written[d] + 1, eol |-> nl]) \in Seq(Piece)
      BY <2>3 DEF OutputTypes, PieceSeqs
    <2>5. pipe' \in PieceSeqs
      BY <2>2, <2>4 DEF OutputTypes, PieceSeqs
    <2> QED
      BY <1>0, <1>12, <2>1, <2>5 DEF OutputTypes, AgentWrites, batch, browser
  <1> QED
    BY <1>1, <1>2, <1>3, <1>4, <1>5, <1>6, <1>7, <1>8, <1>9, <1>10, <1>11, <1>12
       DEF DispatchStep

LEMMA OutputTypesAlways == OutputSpec => []OutputTypes
  <1>1. OutputTypes /\ [OutputNext]_outputVars => OutputTypes'
    <2> SUFFICES ASSUME OutputTypes, [OutputNext]_outputVars PROVE OutputTypes'
      OBVIOUS
    <2>1. CASE UNCHANGED outputVars
      BY <2>1 DEF outputVars, process, batch, browser, OutputTypes
    <2> QED
      BY <2>1, OutputTypesStep DEF OutputNext
  <1> QED
    BY <1>1, OutputTypesInit, PTL DEF OutputSpec

\* The batcher's variables keep their types, whatever is read, flushed,
\* appended twice, dropped or forgotten.
THEOREM OutputTypeCorrect == OutputSpec => []OutputTypeOK
  <1>1. OutputTypes => OutputTypeOK
    <2> SUFFICES ASSUME OutputTypes, NEW d \in Dispatches
                 PROVE  pipe[d] \o pending[d] \o chunk[d] \o buffer[d] \o shown[d] \in Seq(Piece)
      BY DEF OutputTypes, OutputTypeOK
    <2>1. pipe[d] \in Seq(Piece) /\ pending[d] \in Seq(Piece) /\ chunk[d] \in Seq(Piece)
          /\ buffer[d] \in Seq(Piece) /\ shown[d] \in Seq(Piece)
      BY DEF OutputTypes, PieceSeqs
    <2>2. pipe[d] \o pending[d] \o chunk[d] \in Seq(Piece)
      BY <2>1, ConcatPieces
    <2> QED
      BY <2>1, <2>2, ConcatPieces
  <1> QED
    BY <1>1, OutputTypesAlways, PTL

-----------------------------------------------------------------------------
(* Slots.                                                                   *)

\* An agent runs only while its dispatch reads from it: one that holds a slot
\* may still fail to start, and then it gives the slot back.
Reading == {"reading", "flushing", "sending", "exiting"}
RunsRead == \A d \in Dispatches : agent[d] = "running" => dpc[d] \in Reading
SlotInv == IsFiniteSet(HasSlot) /\ Cardinality(HasSlot) <= AgentSlots /\ RunsRead

\* A step that frees a slot at most.
LEMMA SlotsFreed ==
    ASSUME SlotInv, HasSlot' \subseteq HasSlot, RunsRead'
    PROVE  SlotInv'
  <1>1. IsFiniteSet(HasSlot') /\ Cardinality(HasSlot') <= Cardinality(HasSlot)
    BY FS_Subset DEF SlotInv
  <1>2. Cardinality(HasSlot) \in Nat /\ Cardinality(HasSlot') \in Nat /\ AgentSlots \in Nat
    BY <1>1, FS_CardinalityType, OutputAssumption DEF SlotInv
  <1> QED
    BY <1>1, <1>2 DEF SlotInv

LEMMA Batching ==
    ASSUME OutputTypes, NEW d \in Dispatches,
           ReadPiece(d) \/ Tick(d) \/ StreamEnds(d) \/ Persist(d) \/ Push(d)
    PROVE  /\ agent' = agent /\ dpc[d] \in {"reading", "flushing", "sending"}
           /\ dpc'[d] \in {"reading", "flushing", "sending", "exiting"}
           /\ \A e \in Dispatches \ {d} : dpc'[e] = dpc[e]
  <1>1. /\ agent' = agent /\ dpc[d] \in {"reading", "flushing", "sending"}
        /\ \E l \in {"reading", "flushing", "sending", "exiting"} : DGoto(d, l)
    BY DEF ReadPiece, Tick, StreamEnds, StreamAtEnd, Persist, Push, FlushOrKeep, process
  <1> QED
    BY <1>1 DEF DGoto, OutputTypes

LEMMA SlotStep ==
    ASSUME OutputTypes, SlotInv, [OutputNext]_outputVars
    PROVE  SlotInv'
  <1>1. CASE UNCHANGED outputVars
    BY <1>1, SlotsFreed DEF outputVars, process, HasSlot, RunsRead, SlotInv
  <1>2. ASSUME NEW d \in Dispatches, AcquireAgentSlot(d) PROVE SlotInv'
    <2>1. HasSlot' = HasSlot \cup {d} /\ d \notin HasSlot
      BY <1>2 DEF AcquireAgentSlot, DGoto, HasSlot, OutputTypes
    <2>2. IsFiniteSet(HasSlot') /\ Cardinality(HasSlot') = Cardinality(HasSlot) + 1
      BY <2>1, FS_AddElement DEF SlotInv
    <2>3. Cardinality(HasSlot') <= AgentSlots
      BY <1>2, <2>2, FS_CardinalityType, OutputAssumption DEF SlotInv, AcquireAgentSlot
    <2>4. RunsRead'
      BY <1>2 DEF AcquireAgentSlot, DGoto, process, SlotInv, RunsRead, Reading, OutputTypes
    <2> QED
      BY <2>2, <2>3, <2>4 DEF SlotInv
  <1>3. ASSUME NEW d \in Dispatches,
               \/ DispatchBegins(d) \/ StartAgent(d) \/ DispatchFailsToStart(d) \/ ReadPiece(d)
               \/ Tick(d) \/ StreamEnds(d) \/ Persist(d) \/ Push(d) \/ DispatchReturns(d)
               \/ ProcessSavesOutput(d) \/ Broadcast(d) \/ AgentWrites(d) \/ AgentExits(d)
               \/ ClientLeaves(d)
        PROVE  SlotInv'
    <2>1. /\ \A e \in Dispatches \ {d} : dpc'[e] = dpc[e] /\ agent'[e] = agent[e]
          /\ dpc'[d] \in {"slot", "reading", "flushing", "sending", "exiting"} => d \in HasSlot
      <3>1. CASE DispatchBegins(d) \/ DispatchFailsToStart(d) \/ DispatchReturns(d)
        BY <3>1 DEF DispatchBegins, DispatchFailsToStart, DispatchReturns, DGoto, process,
                    OutputTypes
      <3>2. CASE StartAgent(d) \/ ProcessSavesOutput(d)
        BY <3>2 DEF StartAgent, ProcessSavesOutput, DGoto, HasSlot, OutputTypes
      <3>3. CASE ReadPiece(d) \/ Tick(d) \/ StreamEnds(d) \/ Persist(d) \/ Push(d)
        BY <3>3, Batching DEF process, HasSlot
      <3>4. CASE Broadcast(d) \/ AgentWrites(d) \/ AgentExits(d) \/ ClientLeaves(d)
        BY <3>4 DEF Broadcast, AgentWrites, AgentExits, ClientLeaves, HasSlot, process,
                    OutputTypes
      <3> QED
        BY <1>3, <3>1, <3>2, <3>3, <3>4
    <2>2. agent'[d] = "running" => dpc'[d] \in Reading
      <3>1. CASE StartAgent(d)
        BY <3>1 DEF StartAgent, DGoto, Reading, OutputTypes
      <3>2. CASE DispatchReturns(d)
        BY <3>2 DEF DispatchReturns, process
      <3>3. CASE DispatchBegins(d) \/ DispatchFailsToStart(d) \/ ProcessSavesOutput(d)
        BY <3>3 DEF DispatchBegins, DispatchFailsToStart, ProcessSavesOutput, process,
                    SlotInv, RunsRead, Reading
      <3>4. CASE ReadPiece(d) \/ Tick(d) \/ StreamEnds(d) \/ Persist(d) \/ Push(d)
        BY <3>4, Batching DEF process, Reading, SlotInv, RunsRead
      <3>5. CASE Broadcast(d) \/ AgentWrites(d) \/ AgentExits(d) \/ ClientLeaves(d)
        <4>1. dpc' = dpc /\ (agent'[d] = agent[d] \/ agent'[d] = "exited")
          BY <3>5 DEF Broadcast, AgentWrites, AgentExits, ClientLeaves, process, OutputTypes
        <4> QED
          BY <4>1 DEF SlotInv, RunsRead
      <3> QED
        BY <1>3, <3>1, <3>2, <3>3, <3>4, <3>5
    <2> QED
      BY <2>1, <2>2, SlotsFreed DEF HasSlot, SlotInv, RunsRead
  <1> QED
    BY <1>1, <1>2, <1>3 DEF OutputNext, DispatchStep

LEMMA SlotInvAlways == OutputSpec => []SlotInv
  <1>1. OutputInit => SlotInv
    <2> SUFFICES ASSUME OutputInit PROVE SlotInv
      OBVIOUS
    <2>1. HasSlot = {} /\ \A d \in Dispatches : agent[d] = "none"
      BY DEF OutputInit, HasSlot
    <2>2. IsFiniteSet({}) /\ Cardinality({}) = 0
      BY FS_EmptySet
    <2> QED
      BY <2>1, <2>2, OutputAssumption DEF SlotInv, RunsRead
  <1> QED
    BY <1>1, SlotStep, OutputTypesAlways, PTL DEF OutputSpec

\* No more agents run than there are slots, and none runs without one, however
\* many dispatches wait, fail, are cancelled or overlap.
THEOREM SlotsAlwaysHeld == OutputSpec => []SlotsHeld
  <1>1. SlotInv => SlotsHeld
    BY DEF SlotInv, SlotsHeld, RunsRead, Reading, HasSlot
  <1> QED
    BY <1>1, SlotInvAlways, PTL

-----------------------------------------------------------------------------
(* Parts of a log.                                                          *)

\* The pieces of s are those that d wrote after its n first.
Numbered(s, d, n) == \A k \in 1..Len(s) : s[k].of = d /\ s[k].n = n + k

\* s is what L holds between two places.
IsPart(s, L, a, b) ==
    /\ a <= b /\ b <= Len(L) /\ Len(s) = b - a
    /\ \A k \in 1..Len(s) : s[k] = L[a + k]

\* What was shown, and after it the chunks on their way, cut a log at f.
Cut(f, L, sh, ch) ==
    /\ IsPart(sh, L, 0, f[0])
    /\ \A i \in 1..Len(ch) : IsPart(ch[i], L, f[i - 1], f[i])

CutTo(L, sh, ch, m) == \E f \in [Nat -> Nat] : Cut(f, L, sh, ch) /\ f[Len(ch)] = m

LEMMA SeqParts ==
    ASSUME NEW T, NEW s \in Seq(T)
    PROVE  /\ Len(s) \in Nat /\ \A i \in 1..Len(s) : s[i] \in T
           /\ \A e \in T : /\ Append(s, e) \in Seq(T) /\ Len(Append(s, e)) = Len(s) + 1
                           /\ \A i \in 1..Len(s) : Append(s, e)[i] = s[i]
                           /\ Append(s, e)[Len(s) + 1] = e
           /\ s # <<>> => /\ Len(s) >= 1 /\ Head(s) = s[1] /\ Head(s) \in T
                          /\ Tail(s) \in Seq(T) /\ Len(Tail(s)) = Len(s) - 1
                          /\ \A i \in 1..Len(s) - 1 : Tail(s)[i] = s[i + 1]
  OBVIOUS

LEMMA NumberedJoins ==
    ASSUME NEW s \in Seq(Piece), NEW t \in Seq(Piece), NEW d, NEW n \in Nat,
           Numbered(s, d, n), Numbered(t, d, n + Len(s))
    PROVE  Numbered(s \o t, d, n) /\ Len(s \o t) = Len(s) + Len(t)
  <1>1. Len(s \o t) = Len(s) + Len(t)
    OBVIOUS
  <1>2. ASSUME NEW k \in 1..Len(s \o t) PROVE (s \o t)[k].of = d /\ (s \o t)[k].n = n + k
    <2>1. CASE k <= Len(s)
      <3>1. (s \o t)[k] = s[k] /\ k \in 1..Len(s)
        BY <1>1, <1>2, <2>1
      <3> QED
        BY <3>1 DEF Numbered
    <2>2. CASE k > Len(s)
      <3>1. (s \o t)[k] = t[k - Len(s)] /\ k - Len(s) \in 1..Len(t)
        BY <1>1, <1>2, <2>2
      <3> QED
        BY <3>1 DEF Numbered
    <2> QED
      BY <1>2, <2>1, <2>2
  <1> QED
    BY <1>1, <1>2 DEF Numbered

LEMMA NumberedMoves ==
    ASSUME NEW s \in Seq(Piece), NEW t \in Seq(Piece), t # <<>>, NEW d, NEW n \in Nat,
           Numbered(s, d, n), Numbered(t, d, n + Len(s))
    PROVE  /\ Append(s, Head(t)) \in Seq(Piece) /\ Tail(t) \in Seq(Piece)
           /\ Len(Append(s, Head(t))) = Len(s) + 1 /\ Len(Tail(t)) = Len(t) - 1
           /\ Numbered(Append(s, Head(t)), d, n)
           /\ Numbered(Tail(t), d, n + Len(s) + 1)
  <1>1. /\ Append(s, Head(t)) \in Seq(Piece) /\ Tail(t) \in Seq(Piece)
        /\ Len(Append(s, Head(t))) = Len(s) + 1 /\ Len(Tail(t)) = Len(t) - 1
        /\ 1 \in 1..Len(t) /\ Head(t) = t[1]
    OBVIOUS
  <1>2. ASSUME NEW k \in 1..Len(s) + 1
        PROVE  Append(s, Head(t))[k].of = d /\ Append(s, Head(t))[k].n = n + k
    <2>1. CASE k <= Len(s)
      <3>1. Append(s, Head(t))[k] = s[k] /\ k \in 1..Len(s)
        BY <1>2, <2>1
      <3> QED
        BY <3>1 DEF Numbered
    <2>2. CASE k = Len(s) + 1
      <3>1. Append(s, Head(t))[k] = t[1]
        BY <1>1, <2>2
      <3> QED
        BY <1>1, <2>2, <3>1 DEF Numbered
    <2> QED
      BY <1>2, <2>1, <2>2
  <1>3. ASSUME NEW k \in 1..Len(t) - 1
        PROVE  Tail(t)[k].of = d /\ Tail(t)[k].n = n + Len(s) + 1 + k
    <2>0. Len(t) \in Nat /\ k \in 1..Len(t) - 1
      BY <1>3
    <2>1. Tail(t)[k] = t[k + 1] /\ k + 1 \in 1..Len(t)
      BY <2>0
    <2>2. t[k + 1].of = d /\ t[k + 1].n = n + Len(s) + (k + 1)
      BY <2>1 DEF Numbered
    <2>3. Len(s) \in Nat /\ k \in Nat
      BY <2>0
    <2>4. n + Len(s) + (k + 1) = n + Len(s) + 1 + k
      BY <2>3
    <2> QED
      BY <2>1, <2>2, <2>4
  <1> QED
    BY <1>1, <1>2, <1>3 DEF Numbered

LEMMA PartGrows ==
    ASSUME NEW L \in Seq(Piece), NEW t \in Seq(Piece), NEW s \in Seq(Piece),
           NEW a \in Nat, NEW b \in Nat, IsPart(s, L, a, b)
    PROVE  IsPart(s, L \o t, a, b)
  <1>1. Len(L \o t) = Len(L) + Len(t)
    OBVIOUS
  <1>2. ASSUME NEW k \in 1..Len(s) PROVE s[k] = (L \o t)[a + k]
    <2>1. s[k] = L[a + k] /\ a + k \in 1..Len(L)
      BY DEF IsPart
    <2>2. (L \o t)[a + k] = L[a + k]
      BY <2>1
    <2> QED
      BY <2>1, <2>2
  <1> QED
    BY <1>1, <1>2 DEF IsPart

LEMMA PartAdded ==
    ASSUME NEW L \in Seq(Piece), NEW t \in Seq(Piece)
    PROVE  IsPart(t, L \o t, Len(L), Len(L \o t)) /\ Len(L \o t) = Len(L) + Len(t)
  <1>1. Len(L \o t) = Len(L) + Len(t)
    OBVIOUS
  <1>2. ASSUME NEW k \in 1..Len(t) PROVE t[k] = (L \o t)[Len(L) + k]
    OBVIOUS
  <1> QED
    BY <1>1, <1>2 DEF IsPart

LEMMA PartsJoin ==
    ASSUME NEW L \in Seq(Piece), NEW s \in Seq(Piece), NEW t \in Seq(Piece),
           NEW a \in Nat, NEW b \in Nat, IsPart(s, L, 0, a), IsPart(t, L, a, b)
    PROVE  IsPart(s \o t, L, 0, b)
  <1>1. Len(s) = a /\ Len(t) = b - a /\ Len(s \o t) = b /\ b <= Len(L) /\ a <= b
    BY DEF IsPart
  <1>2. ASSUME NEW k \in 1..Len(s \o t) PROVE (s \o t)[k] = L[0 + k]
    <2>1. CASE k <= Len(s)
      <3>1. (s \o t)[k] = s[k] /\ k \in 1..Len(s)
        BY <1>1, <1>2, <2>1
      <3> QED
        BY <3>1 DEF IsPart
    <2>2. CASE k > Len(s)
      <3>1. (s \o t)[k] = t[k - Len(s)] /\ k - Len(s) \in 1..Len(t) /\ a + (k - Len(s)) = 0 + k
        BY <1>1, <1>2, <2>2
      <3> QED
        BY <3>1 DEF IsPart
    <2> QED
      BY <1>2, <2>1, <2>2
  <1> QED
    BY <1>1, <1>2 DEF IsPart

LEMMA PartIsPrefix ==
    ASSUME NEW L \in Seq(Piece), NEW s \in Seq(Piece), NEW a \in Nat, IsPart(s, L, 0, a)
    PROVE  Len(s) <= Len(L) /\ s = SubSeq(L, 1, Len(s))
  <1>1. Len(s) <= Len(L) /\ Len(s) \in Nat /\ \A k \in 1..Len(s) : s[k] = L[k]
    BY DEF IsPart
  <1>2. /\ SubSeq(L, 1, Len(s)) \in Seq(Piece) /\ Len(SubSeq(L, 1, Len(s))) = Len(s)
        /\ \A k \in 1..Len(s) : SubSeq(L, 1, Len(s))[k] = L[k]
    BY <1>1
  <1> QED
    BY <1>1, <1>2, SeqEqual

\* (cuts, and places in them)
LEMMA Cuts ==
    ASSUME NEW f \in [Nat -> Nat]
    PROVE  /\ [i \in Nat |-> f[i + 1]] \in [Nat -> Nat]
           /\ \A i \in Nat : f[i] \in Nat /\ f[i + 1] \in Nat
  OBVIOUS

LEMMA CutAt ==
    ASSUME NEW f \in [Nat -> Nat], NEW n \in Nat, NEW m \in Nat
    PROVE  \E g \in [Nat -> Nat] : g[n + 1] = m /\ \A i \in 0..n : g[i] = f[i]
  <1>1. /\ [f EXCEPT ![n + 1] = m] \in [Nat -> Nat]
        /\ [f EXCEPT ![n + 1] = m][n + 1] = m
        /\ \A i \in 0..n : [f EXCEPT ![n + 1] = m][i] = f[i]
    OBVIOUS
  <1> QED
    BY <1>1

LEMMA BatchPlaces ==
    ASSUME NEW n \in Nat, NEW i \in 1..n + 1
    PROVE  i = n + 1 \/ (i \in 1..n /\ i \in 0..n /\ i - 1 \in 0..n)
  OBVIOUS

LEMMA CutGrows ==
    ASSUME NEW f \in [Nat -> Nat], NEW L \in Seq(Piece), NEW t \in Seq(Piece),
           NEW sh \in Seq(Piece), NEW ch \in Seq(Seq(Piece)), Cut(f, L, sh, ch)
    PROVE  Cut(f, L \o t, sh, ch)
  <1>1. IsPart(sh, L \o t, 0, f[0])
    BY PartGrows DEF Cut
  <1>2. ASSUME NEW i \in 1..Len(ch) PROVE IsPart(ch[i], L \o t, f[i - 1], f[i])
    <2>1. ch[i] \in Seq(Piece) /\ i \in Nat /\ i - 1 \in Nat
      BY SeqParts
    <2>2. f[i - 1] \in Nat /\ f[i] \in Nat
      BY <2>1
    <2> QED
      BY <2>1, <2>2, PartGrows DEF Cut
  <1> QED
    BY <1>1, <1>2 DEF Cut

LEMMA CutPush ==
    ASSUME NEW f \in [Nat -> Nat], NEW L \in Seq(Piece), NEW c \in Seq(Piece),
           NEW sh \in Seq(Piece), NEW ch \in Seq(Seq(Piece)), NEW m \in Nat,
           NEW ch1, ch1 = Append(ch, c),
           Cut(f, L, sh, ch), IsPart(c, L, f[Len(ch)], m)
    PROVE  CutTo(L, sh, ch1, m)
  <1>1. /\ Len(ch) \in Nat /\ Len(ch1) = Len(ch) + 1
        /\ \A i \in 1..Len(ch) : ch1[i] = ch[i]
        /\ ch1[Len(ch) + 1] = c
    BY SeqParts
  <1>2. PICK g \in [Nat -> Nat] : g[Len(ch) + 1] = m /\ \A i \in 0..Len(ch) : g[i] = f[i]
    BY <1>1, CutAt
  <1>3. IsPart(sh, L, 0, g[0])
    BY <1>2, <1>1 DEF Cut
  <1>4. ASSUME NEW i \in 1..Len(ch) + 1 PROVE IsPart(ch1[i], L, g[i - 1], g[i])
    <2>1. CASE i = Len(ch) + 1
      <3>1. ch1[i] = c /\ i - 1 = Len(ch) /\ Len(ch) \in 0..Len(ch)
        BY <1>1, <2>1
      <3> QED
        BY <1>2, <1>1, <2>1, <3>1
    <2>2. CASE i # Len(ch) + 1
      <3>1. i \in 1..Len(ch) /\ i \in 0..Len(ch) /\ i - 1 \in 0..Len(ch)
        BY <1>1, <1>4, <2>2, BatchPlaces
      <3>2. ch1[i] = ch[i]
        BY <1>1, <3>1
      <3> QED
        BY <1>2, <1>1, <3>1, <3>2 DEF Cut
    <2> QED
      BY <2>1, <2>2
  <1> QED
    BY <1>1, <1>2, <1>3, <1>4 DEF Cut, CutTo

LEMMA CutShow ==
    ASSUME NEW f \in [Nat -> Nat], NEW L \in Seq(Piece),
           NEW sh \in Seq(Piece), NEW ch \in Seq(Seq(Piece)), ch # <<>>, Cut(f, L, sh, ch)
    PROVE  \E g \in [Nat -> Nat] : /\ Cut(g, L, sh \o Head(ch), Tail(ch))
                                   /\ g[Len(Tail(ch))] = f[Len(ch)]
  <1> DEFINE g == [i \in Nat |-> f[i + 1]]
  <1>1. /\ Len(ch) \in Nat /\ Len(ch) >= 1 /\ Len(Tail(ch)) = Len(ch) - 1
        /\ Head(ch) = ch[1] /\ Head(ch) \in Seq(Piece)
        /\ \A i \in 1..Len(ch) - 1 : Tail(ch)[i] = ch[i + 1]
    BY SeqParts
  <1>2. g \in [Nat -> Nat] /\ \A i \in Nat : g[i] = f[i + 1]
    BY Cuts
  <1> HIDE DEF g
  <1>3. IsPart(sh \o Head(ch), L, 0, g[0])
    <2>1. IsPart(sh, L, 0, f[0]) /\ IsPart(ch[1], L, f[0], f[1]) /\ f[0] \in Nat /\ f[1] \in Nat
      BY <1>1 DEF Cut
    <2>2. g[0] = f[1]
      BY <1>2
    <2> QED
      BY <1>1, <2>1, <2>2, PartsJoin
  <1>4. ASSUME NEW i \in 1..Len(ch) - 1 PROVE IsPart(Tail(ch)[i], L, g[i - 1], g[i])
    <2>1. i + 1 \in 1..Len(ch) /\ (i + 1) - 1 = i /\ i \in Nat /\ i - 1 \in Nat
          /\ (i - 1) + 1 = i
      BY <1>1
    <2>2. IsPart(ch[i + 1], L, f[i], f[i + 1])
      BY <2>1 DEF Cut
    <2>3. g[i - 1] = f[i] /\ g[i] = f[i + 1]
      BY <1>2, <2>1
    <2> QED
      BY <1>1, <2>2, <2>3
  <1>5. g[Len(Tail(ch))] = f[Len(ch)]
    BY <1>1, <1>2
  <1> QED
    BY <1>1, <1>2, <1>3, <1>4, <1>5 DEF Cut

-----------------------------------------------------------------------------
(* The log of a dispatch.  What the agent has written is the log, what is   *)
(* being flushed, what is pending and what is in the pipe, in this order;   *)
(* what was shown, and the chunks on their way, are the log from its start. *)

Log(d) == logs[LogRow[d]]
Unsaved(d) == IF dpc[d] = "flushing" THEN chunk[d] ELSE <<>>
Streaming(d) == dpc[d] \in Reading \cup {"returned"}
HadSlot(d) == dpc[d] \notin {"new", "waiting"}

PiecesInOrder(d) ==
    /\ Numbered(Log(d), d, 0)
    /\ Numbered(Unsaved(d), d, Len(Log(d)))
    /\ Numbered(pending[d], d, Len(Log(d)) + Len(Unsaved(d)))
    /\ Numbered(pipe[d], d, Len(Log(d)) + Len(Unsaved(d)) + Len(pending[d]))
    /\ written[d] = Len(Log(d)) + Len(Unsaved(d)) + Len(pending[d]) + Len(pipe[d])

\* (a chunk is not sent when the client is gone: it is the last one)
ShownInOrder(d) == \E f \in [Nat -> Nat] :
    /\ Cut(f, Log(d), shown[d], lineCh[d])
    /\ IF dpc[d] = "sending" THEN IsPart(chunk[d], Log(d), f[Len(lineCh[d])], Len(Log(d)))
       ELSE \/ f[Len(lineCh[d])] = Len(Log(d))
            \/ cancelled[d] /\ dpc[d] # "flushing" /\ pending[d] = <<>>

DispatchInv(d) ==
    /\ dpc[d] \in {"new", "waiting", "slot"} =>
          /\ pipe[d] = <<>> /\ pending[d] = <<>> /\ chunk[d] = <<>> /\ shown[d] = <<>>
          /\ lineCh[d] = <<>> /\ written[d] = 0
    /\ dpc[d] \in {"flushing", "sending", "exiting", "returned"} => pending[d] = <<>>
    /\ dpc[d] \in {"exiting", "returned"} /\ intact[d] => pipe[d] = <<>> /\ agent[d] = "exited"
    /\ Streaming(d) /\ intact[d] => PiecesInOrder(d) /\ ShownInOrder(d)
OutputInv == \A d \in Dispatches : DispatchInv(d)

OwnVars(d) == <<dpc[d], agent[d], pipe[d], written[d], pending[d], chunk[d], shown[d],
                lineCh[d], cancelled[d], buffer[d]>>

\* What another dispatch does leaves the parts of d alone, and its log or else
\* its mark of being intact.
LEMMA OthersStep ==
    ASSUME OutputTypes, NEW d \in Dispatches, NEW e \in Dispatches, d # e,
           \/ DispatchBegins(e) \/ DispatchStep(e) \/ Broadcast(e)
           \/ AgentWrites(e) \/ AgentExits(e) \/ ClientLeaves(e)
    PROVE  /\ OwnVars(d)' = OwnVars(d)
           /\ HadSlot(d) /\ intact'[d] => intact[d] /\ Log(d)' = Log(d)
  <1>1. OwnVars(d)' = OwnVars(d)
    <2>1. CASE \/ DispatchBegins(e) \/ AcquireAgentSlot(e) \/ StartAgent(e)
               \/ DispatchFailsToStart(e) \/ DispatchReturns(e) \/ ProcessSavesOutput(e)
      BY <2>1 DEF DispatchBegins, AcquireAgentSlot, StartAgent, DispatchFailsToStart,
                  DispatchReturns, ProcessSavesOutput, DGoto, OwnVars, process, batch, browser,
                  OutputTypes, PieceSeqs
    <2>2. CASE ReadPiece(e) \/ Tick(e)
      BY <2>2 DEF ReadPiece, Tick, FlushOrKeep, DGoto, OwnVars, process, browser,
                  OutputTypes, PieceSeqs
    <2>3. CASE StreamEnds(e)
      BY <2>3 DEF StreamEnds, FlushOrKeep, DGoto, OwnVars, process, browser,
                  OutputTypes, PieceSeqs
    <2>4. CASE Persist(e) \/ Push(e)
      BY <2>4 DEF Persist, Push, DGoto, OwnVars, process, batch, browser, OutputTypes, PieceSeqs
    <2>5. CASE Broadcast(e) \/ AgentExits(e) \/ ClientLeaves(e)
      BY <2>5 DEF Broadcast, AgentExits, ClientLeaves, OwnVars, process, batch, browser,
                  OutputTypes, PieceSeqs
    <2>6. CASE AgentWrites(e)
      BY <2>6 DEF AgentWrites, OwnVars, batch, browser, OutputTypes, PieceSeqs
    <2> QED
      BY <2>1, <2>2, <2>3, <2>4, <2>5, <2>6 DEF DispatchStep
  <1>2. ASSUME NEW S, Sharing(e) \subseteq S, intact'[d] = SpoiledBy(S)[d], HadSlot(d),
               intact'[d], NEW s, SetLog(e, s)
        PROVE  intact[d] /\ Log(d)' = Log(d)
    <2>2. intact[d] /\ d \notin S
      BY <1>2 DEF HadSlot, SpoiledBy
    <2>3. LogRow[d] # LogRow[e]
      BY <1>2, <2>2 DEF Sharing
    <2> QED
      BY <1>2, <2>2, <2>3, RowOfLog DEF SetLog, Log, OutputTypes
  <1>3. ASSUME logs' = logs, intact'[d] => intact[d]
        PROVE  HadSlot(d) /\ intact'[d] => intact[d] /\ Log(d)' = Log(d)
    BY <1>3 DEF Log
  <1>4. CASE StartAgent(e)
    <2>1. CASE \E S : /\ SetLog(e, <<>>) /\ Sharing(e) \subseteq S /\ Spoils(S)
      BY <1>1, <1>2, <2>1 DEF Spoils
    <2>2. CASE UNCHANGED logs /\ \E S : Spoils(S)
      BY <1>1, <1>3, <2>2 DEF Spoils, SpoiledBy
    <2>3. \/ SetLog(e, <<>>) /\ \E S : Sharing(e) \subseteq S /\ Spoils(S)
          \/ UNCHANGED logs /\ \E S : Spoils(S)
      BY <1>4 DEF StartAgent
    <2> QED
      BY <2>1, <2>2, <2>3
  <1>5. CASE DispatchFailsToStart(e)
    <2>1. \E S : SetLog(e, <<>>) /\ Sharing(e) \subseteq S /\ Spoils(S)
      BY <1>5 DEF DispatchFailsToStart
    <2> QED
      BY <1>1, <1>2, <2>1 DEF Spoils
  <1>6. CASE ProcessSavesOutput(e)
    <2>1. \/ logs' = logs /\ intact' = intact
          \/ SetLog(e, buffer[e]) /\ intact'[d] = SpoiledBy(Sharing(e))[d]
      BY <1>6 DEF ProcessSavesOutput, SpoiledBy
    <2> QED
      BY <1>1, <1>2, <1>3, <2>1
  <1>7. CASE Persist(e)
    <2>1. \E S, s : SetLog(e, s) /\ Sharing(e) \subseteq S /\ Spoils(S)
      BY <1>7 DEF Persist
    <2> QED
      BY <1>1, <1>2, <2>1 DEF Spoils
  <1>8. CASE \/ DispatchBegins(e) \/ AcquireAgentSlot(e) \/ DispatchReturns(e)
             \/ ReadPiece(e) \/ Tick(e) \/ StreamEnds(e) \/ Push(e)
             \/ Broadcast(e) \/ AgentWrites(e) \/ AgentExits(e) \/ ClientLeaves(e)
    <2>1. logs' = logs /\ (intact'[d] => intact[d])
      BY <1>8 DEF DispatchBegins, AcquireAgentSlot, DispatchReturns, ReadPiece, Tick,
                  StreamEnds, Push, Broadcast, AgentWrites, AgentExits, ClientLeaves, OutputTypes
    <2> QED
      BY <1>1, <1>3, <2>1
  <1> QED
    BY <1>4, <1>5, <1>6, <1>7, <1>8 DEF DispatchStep

LEMMA OthersKeepInv ==
    ASSUME OutputTypes, NEW d \in Dispatches, DispatchInv(d), OwnVars(d)' = OwnVars(d),
           HadSlot(d) /\ intact'[d] => intact[d] /\ Log(d)' = Log(d)
    PROVE  DispatchInv(d)'
  <1>1. /\ dpc'[d] = dpc[d] /\ agent'[d] = agent[d] /\ pipe'[d] = pipe[d]
        /\ written'[d] = written[d] /\ pending'[d] = pending[d] /\ chunk'[d] = chunk[d]
        /\ shown'[d] = shown[d] /\ lineCh'[d] = lineCh[d] /\ cancelled'[d] = cancelled[d]
    BY DEF OwnVars
  <1>2. Streaming(d)' = Streaming(d) /\ Unsaved(d)' = Unsaved(d)
    BY <1>1 DEF Streaming, Unsaved
  <1>3. ASSUME Log(d)' = Log(d), PiecesInOrder(d) PROVE PiecesInOrder(d)'
    BY <1>1, <1>2, <1>3 DEF PiecesInOrder
  <1>4. ASSUME Log(d)' = Log(d), ShownInOrder(d) PROVE ShownInOrder(d)'
    BY <1>1, <1>4 DEF ShownInOrder
  <1>5. Streaming(d)' /\ intact'[d] => PiecesInOrder(d)' /\ ShownInOrder(d)'
    BY <1>2, <1>3, <1>4 DEF DispatchInv, Streaming, Reading, HadSlot
  <1>6. dpc'[d] \in {"exiting", "returned"} /\ intact'[d] => intact[d]
    BY <1>1 DEF HadSlot
  <1> QED
    BY <1>1, <1>5, <1>6 DEF DispatchInv

LEMMA PartsTyped ==
    ASSUME OutputTypes, NEW d \in Dispatches
    PROVE  /\ pipe[d] \in Seq(Piece) /\ pending[d] \in Seq(Piece) /\ chunk[d] \in Seq(Piece)
           /\ shown[d] \in Seq(Piece) /\ Log(d) \in Seq(Piece) /\ Unsaved(d) \in Seq(Piece)
           /\ written[d] \in Nat /\ LogRow[d] \in LogRows /\ <<>> \in Seq(Piece)
  <1>1. <<>> \in Seq(Piece) /\ LogRow[d] \in LogRows /\ MaxPieces \in Nat
    BY RowOfLog, OutputAssumption
  <1> QED
    BY <1>1 DEF OutputTypes, PieceSeqs, Log, Unsaved

LEMMA NumberedAppend ==
    ASSUME NEW t \in Seq(Piece), NEW e \in Piece, NEW d, NEW n \in Nat,
           Numbered(t, d, n), e.of = d, e.n = n + Len(t) + 1
    PROVE  Numbered(Append(t, e), d, n) /\ Len(Append(t, e)) = Len(t) + 1
  <1>1. /\ Len(t) \in Nat /\ Len(Append(t, e)) = Len(t) + 1
        /\ \A k \in 1..Len(t) : Append(t, e)[k] = t[k]
        /\ Append(t, e)[Len(t) + 1] = e
    OBVIOUS
  <1>2. ASSUME NEW k \in 1..Len(t) + 1
        PROVE  Append(t, e)[k].of = d /\ Append(t, e)[k].n = n + k
    <2>1. CASE k = Len(t) + 1
      BY <1>1, <2>1
    <2>2. CASE k # Len(t) + 1
      <3>1. k \in 1..Len(t)
        BY <1>1, <1>2, <2>2
      <3> QED
        BY <1>1, <3>1 DEF Numbered
    <2> QED
      BY <2>1, <2>2
  <1> QED
    BY <1>1, <1>2 DEF Numbered

LEMMA EmptyCut ==
    \E f \in [Nat -> Nat] : f[0] = 0 /\ Cut(f, <<>>, <<>>, <<>>)
  <1>1. /\ [i \in Nat |-> 0] \in [Nat -> Nat] /\ [i \in Nat |-> 0][0] = 0
    OBVIOUS
  <1>2. Len(<<>>) = 0
    OBVIOUS
  <1>3. Cut([i \in Nat |-> 0], <<>>, <<>>, <<>>)
    BY <1>1, <1>2 DEF Cut, IsPart
  <1> QED
    BY <1>1, <1>3

LEMMA StartKeeps ==
    ASSUME OutputTypes, NEW d \in Dispatches, DispatchInv(d), StartAgent(d)
    PROVE  DispatchInv(d)'
  <1>1. /\ dpc[d] = "slot" /\ dpc'[d] = "reading"
        /\ pipe'[d] = <<>> /\ pending'[d] = <<>> /\ shown'[d] = <<>>
        /\ lineCh'[d] = <<>> /\ written'[d] = 0
    BY DEF DispatchInv, StartAgent, DGoto, batch, browser, OutputTypes
  <1>2. SUFFICES ASSUME intact'[d] PROVE PiecesInOrder(d)' /\ ShownInOrder(d)'
    BY <1>1 DEF DispatchInv
  <1>4. SetLog(d, <<>>)
    BY <1>1, <1>2 DEF StartAgent, Spoils, SpoiledBy
  <1>5. Log(d)' = <<>>
    BY <1>4, PartsTyped DEF SetLog, Log, OutputTypes
  <1>6. Unsaved(d)' = <<>>
    BY <1>1 DEF Unsaved
  <1>7. Len(<<>>) = 0
    OBVIOUS
  <1>8. PiecesInOrder(d)'
    BY <1>1, <1>5, <1>6, <1>7 DEF PiecesInOrder, Numbered
  <1>9. ShownInOrder(d)'
    BY <1>1, <1>5, <1>7, EmptyCut DEF ShownInOrder
  <1> QED
    BY <1>8, <1>9

\* What is read, flushed at the tick or at the end is still in order.
LEMMA FlushKeeps ==
    ASSUME NEW d \in Dispatches, NEW p \in Seq(Piece), NEW flushing \in BOOLEAN,
           OutputTypes, FlushOrKeep(d, p, flushing), dpc[d] = "reading"
    PROVE  /\ dpc'[d] = (IF flushing THEN "flushing" ELSE "reading")
           /\ pending'[d] = (IF flushing THEN <<>> ELSE p)
           /\ Unsaved(d)' = (IF flushing THEN p ELSE <<>>)
           /\ Unsaved(d) = <<>>
  BY DEF FlushOrKeep, DGoto, Unsaved, OutputTypes, PieceSeqs

LEMMA PiecesFlushed ==
    ASSUME NEW d \in Dispatches, NEW p \in Seq(Piece), NEW flushing \in BOOLEAN,
           OutputTypes, FlushOrKeep(d, p, flushing), dpc[d] = "reading",
           UNCHANGED logs, UNCHANGED written, pipe'[d] \in Seq(Piece), Numbered(Log(d), d, 0),
           Numbered(p, d, Len(Log(d))), Numbered(pipe'[d], d, Len(Log(d)) + Len(p)),
           written[d] = Len(Log(d)) + Len(p) + Len(pipe'[d])
    PROVE  PiecesInOrder(d)'
  <1>1. Log(d)' = Log(d) /\ Log(d) \in Seq(Piece) /\ Len(<<>>) = 0 /\ written'[d] = written[d]
    BY PartsTyped DEF Log
  <1>2. /\ Len(Log(d)) \in Nat /\ Len(p) \in Nat /\ Len(pipe'[d]) \in Nat
        /\ Numbered(<<>>, d, Len(Log(d))) /\ Numbered(<<>>, d, Len(Log(d)) + Len(p))
        /\ Len(Log(d)) + 0 = Len(Log(d)) /\ Len(Log(d)) + Len(p) + 0 = Len(Log(d)) + Len(p)
    BY <1>1 DEF Numbered
  <1>3. CASE flushing
    <2>1. pending'[d] = <<>> /\ Unsaved(d)' = p
      BY <1>3, FlushKeeps
    <2> QED
      BY <1>1, <1>2, <2>1 DEF PiecesInOrder
  <1>4. CASE ~flushing
    <2>1. pending'[d] = p /\ Unsaved(d)' = <<>>
      BY <1>4, FlushKeeps
    <2> QED
      BY <1>1, <1>2, <2>1 DEF PiecesInOrder
  <1> QED
    BY <1>3, <1>4

LEMMA ShownFlushed ==
    ASSUME NEW d \in Dispatches, NEW p \in Seq(Piece), NEW flushing \in BOOLEAN,
           OutputTypes, FlushOrKeep(d, p, flushing), dpc[d] = "reading",
           UNCHANGED <<browser, logs>>, ShownInOrder(d), ~cancelled[d] \/ pending[d] # <<>>
    PROVE  ShownInOrder(d)'
  <1>1. /\ Log(d)' = Log(d) /\ shown'[d] = shown[d] /\ lineCh'[d] = lineCh[d]
        /\ dpc'[d] # "sending"
    BY FlushKeeps DEF Log, browser
  <1>2. PICK f \in [Nat -> Nat] : /\ Cut(f, Log(d), shown[d], lineCh[d])
                                  /\ f[Len(lineCh[d])] = Len(Log(d))
    BY DEF ShownInOrder
  <1> QED
    BY <1>1, <1>2 DEF ShownInOrder

LEMMA ReadInOrder ==
    ASSUME NEW L \in Seq(Piece), NEW a \in Seq(Piece), NEW b \in Seq(Piece), b # <<>>, NEW d,
           Numbered(a, d, Len(L)), Numbered(b, d, Len(L) + Len(a))
    PROVE  /\ Numbered(Append(a, Head(b)), d, Len(L))
           /\ Numbered(Tail(b), d, Len(L) + Len(Append(a, Head(b))))
           /\ Len(L) + Len(Append(a, Head(b))) + Len(Tail(b)) = Len(L) + Len(a) + Len(b)
  <1>1. Len(L) \in Nat /\ Len(a) \in Nat /\ Len(b) \in Nat
    OBVIOUS
  <1>2. /\ Len(Append(a, Head(b))) = Len(a) + 1 /\ Len(Tail(b)) = Len(b) - 1
        /\ Numbered(Append(a, Head(b)), d, Len(L))
        /\ Numbered(Tail(b), d, Len(L) + Len(a) + 1)
    BY <1>1, NumberedMoves
  <1>3. Len(L) + Len(Append(a, Head(b))) = Len(L) + Len(a) + 1
    BY <1>1, <1>2
  <1> QED
    BY <1>1, <1>2, <1>3

LEMMA SumType ==
    ASSUME NEW l \in Nat, NEW m \in Nat, NEW n \in Nat
    PROVE  l + m + n \in Nat
  OBVIOUS

LEMMA ReadKeeps ==
    ASSUME OutputTypes, NEW d \in Dispatches, DispatchInv(d), ReadPiece(d)
    PROVE  DispatchInv(d)'
  <1> DEFINE p == Append(pending[d], Head(pipe[d]))
             flushing == Head(pipe[d]).eol \/ Len(p) >= FlushBytes
  <1>1. /\ dpc[d] = "reading" /\ ~cancelled[d] /\ pipe[d] # <<>> /\ FlushOrKeep(d, p, flushing)
        /\ UNCHANGED <<browser, logs>> /\ UNCHANGED written /\ intact' = intact
        /\ pipe' = [pipe EXCEPT ![d] = Tail(@)]
    BY DEF ReadPiece
  <1>2. /\ pipe[d] \in Seq(Piece) /\ pending[d] \in Seq(Piece) /\ Log(d) \in Seq(Piece)
        /\ Head(pipe[d]) \in Piece /\ Tail(pipe[d]) \in Seq(Piece) /\ p \in Seq(Piece)
        /\ pipe'[d] = Tail(pipe[d]) /\ Len(Log(d)) \in Nat
    <2>1. pipe[d] \in Seq(Piece) /\ pending[d] \in Seq(Piece) /\ Log(d) \in Seq(Piece)
      BY PartsTyped
    <2>2. Head(pipe[d]) \in Piece /\ Tail(pipe[d]) \in Seq(Piece)
      BY <1>1, <2>1, SeqParts
    <2>3. pipe'[d] = Tail(pipe[d])
      BY <1>1 DEF OutputTypes, PieceSeqs
    <2> QED
      BY <2>1, <2>2, <2>3, SeqParts
  <1>3. flushing \in BOOLEAN
    BY <1>2, OutputAssumption DEF Piece
  <1>4. dpc'[d] \in {"reading", "flushing"} /\ (dpc'[d] = "flushing" => pending'[d] = <<>>)
    BY <1>1, <1>2, <1>3, FlushKeeps
  <1>5. SUFFICES ASSUME intact[d] PROVE PiecesInOrder(d)' /\ ShownInOrder(d)'
    BY <1>1, <1>4 DEF DispatchInv
  <1>6. PiecesInOrder(d) /\ ShownInOrder(d)
    BY <1>1, <1>5 DEF DispatchInv, Streaming, Reading
  <1>7. Unsaved(d) = <<>> /\ Len(<<>>) = 0
    BY <1>1 DEF Unsaved
  <1>8. /\ Numbered(Log(d), d, 0) /\ Numbered(pending[d], d, Len(Log(d)))
        /\ Numbered(pipe[d], d, Len(Log(d)) + Len(pending[d]))
        /\ written[d] = Len(Log(d)) + Len(pending[d]) + Len(pipe[d])
    BY <1>2, <1>6, <1>7 DEF PiecesInOrder
  <1>9. /\ Numbered(p, d, Len(Log(d)))
        /\ Numbered(Tail(pipe[d]), d, Len(Log(d)) + Len(p))
        /\ Len(Log(d)) + Len(p) + Len(Tail(pipe[d]))
              = Len(Log(d)) + Len(pending[d]) + Len(pipe[d])
    <2>1. Len(pending[d]) \in Nat /\ pipe[d] # <<>> /\ d \in Dispatches
      BY <1>1, <1>2
    <2> QED
      BY <1>2, <1>8, <2>1, ReadInOrder, ZenonT(60)
  <1>10. /\ Numbered(pipe'[d], d, Len(Log(d)) + Len(p))
         /\ written[d] = Len(Log(d)) + Len(p) + Len(pipe'[d])
    BY <1>2, <1>8, <1>9
  <1>11. PiecesInOrder(d)'
    BY <1>1, <1>2, <1>3, <1>8, <1>9, <1>10, PiecesFlushed
  <1>12. ShownInOrder(d)'
    BY <1>1, <1>2, <1>3, <1>6, ShownFlushed
  <1> QED
    BY <1>11, <1>12

\* What is pending when the timer fires or the pipe ends is flushed.
LEMMA PendingFlushed ==
    ASSUME OutputTypes, NEW d \in Dispatches, PiecesInOrder(d), ShownInOrder(d),
           dpc[d] = "reading", pending[d] # <<>>, FlushOrKeep(d, pending[d], TRUE),
           UNCHANGED <<process, browser, logs>>
    PROVE  PiecesInOrder(d)' /\ ShownInOrder(d)'
  <1>1. /\ pending[d] \in Seq(Piece) /\ pipe[d] \in Seq(Piece) /\ Log(d) \in Seq(Piece)
        /\ pipe'[d] = pipe[d] /\ UNCHANGED written /\ UNCHANGED logs
        /\ UNCHANGED <<browser, logs>> /\ TRUE \in BOOLEAN
    BY PartsTyped DEF process
  <1>2. Unsaved(d) = <<>> /\ Len(<<>>) = 0 /\ Len(Log(d)) + 0 = Len(Log(d))
    BY <1>1 DEF Unsaved
  <1>3. /\ Numbered(Log(d), d, 0) /\ Numbered(pending[d], d, Len(Log(d)))
        /\ Numbered(pipe[d], d, Len(Log(d)) + Len(pending[d]))
        /\ written[d] = Len(Log(d)) + Len(pending[d]) + Len(pipe[d])
    BY <1>1, <1>2 DEF PiecesInOrder
  <1>4. PiecesInOrder(d)'
    BY <1>1, <1>3, PiecesFlushed
  <1>5. ShownInOrder(d)'
    BY <1>1, ShownFlushed
  <1> QED
    BY <1>4, <1>5

LEMMA TickKeeps ==
    ASSUME OutputTypes, NEW d \in Dispatches, DispatchInv(d), Tick(d)
    PROVE  DispatchInv(d)'
  <1>1. /\ dpc[d] = "reading" /\ pending[d] # <<>> /\ FlushOrKeep(d, pending[d], TRUE)
        /\ UNCHANGED <<process, browser, logs>> /\ intact' = intact
        /\ pending[d] \in Seq(Piece) /\ TRUE \in BOOLEAN
    BY PartsTyped DEF Tick
  <1>2. dpc'[d] = "flushing" /\ pending'[d] = <<>>
    BY <1>1, FlushKeeps
  <1>3. intact[d] => PiecesInOrder(d) /\ ShownInOrder(d)
    BY <1>1 DEF DispatchInv, Streaming, Reading
  <1>4. intact[d] => PiecesInOrder(d)' /\ ShownInOrder(d)'
    BY <1>1, <1>3, PendingFlushed
  <1> QED
    BY <1>1, <1>2, <1>4 DEF DispatchInv

LEMMA EndKeeps ==
    ASSUME OutputTypes, NEW d \in Dispatches, DispatchInv(d), StreamEnds(d)
    PROVE  DispatchInv(d)'
  <1>1. /\ dpc[d] = "reading" /\ UNCHANGED <<process, browser, logs>>
        /\ UNCHANGED cancelled
        /\ pending[d] \in Seq(Piece) /\ TRUE \in BOOLEAN
        /\ intact'[d] => /\ intact[d] /\ ~cancelled[d]
                         /\ pipe[d] = <<>> /\ agent[d] = "exited"
    BY PartsTyped DEF StreamEnds, StreamAtEnd, OutputTypes
  <1>2. intact'[d] => PiecesInOrder(d) /\ ShownInOrder(d)
    BY <1>1 DEF DispatchInv, Streaming, Reading
  <1>3. CASE pending[d] # <<>>
    <2>1. FlushOrKeep(d, pending[d], TRUE)
      BY <1>3 DEF StreamEnds
    <2>2. dpc'[d] = "flushing" /\ pending'[d] = <<>>
      BY <1>1, <2>1, FlushKeeps
    <2>3. intact'[d] => PiecesInOrder(d)' /\ ShownInOrder(d)'
      BY <1>1, <1>2, <1>3, <2>1, PendingFlushed
    <2> QED
      BY <1>1, <2>2, <2>3 DEF DispatchInv
  <1>4. CASE pending[d] = <<>>
    <2>1. /\ dpc'[d] = "exiting" /\ pending'[d] = <<>> /\ pipe'[d] = pipe[d]
          /\ agent'[d] = agent[d] /\ written'[d] = written[d] /\ Log(d)' = Log(d)
          /\ shown'[d] = shown[d] /\ lineCh'[d] = lineCh[d]
          /\ Unsaved(d) = <<>> /\ Unsaved(d)' = <<>> /\ pending' = pending
      BY <1>1, <1>4 DEF StreamEnds, DGoto, process, browser, OutputTypes, Log, Unsaved
    <2>2. ASSUME intact'[d] PROVE PiecesInOrder(d)'
      BY <1>2, <1>4, <2>1, <2>2 DEF PiecesInOrder
    <2>3. ASSUME intact'[d] PROVE ShownInOrder(d)'
      <3>1. PICK f \in [Nat -> Nat] : /\ Cut(f, Log(d), shown[d], lineCh[d])
                                      /\ f[Len(lineCh[d])] = Len(Log(d))
        BY <1>1, <1>2, <2>3 DEF ShownInOrder
      <3> QED
        BY <2>1, <3>1 DEF ShownInOrder
    <2> QED
      BY <1>1, <2>1, <2>2, <2>3 DEF DispatchInv
  <1> QED
    BY <1>3, <1>4

\* The parts that a step leaves in place keep their order.
LEMMA Unmoved ==
    ASSUME NEW d \in Dispatches, DispatchInv(d),
           UNCHANGED <<pipe[d], pending[d], chunk[d], shown[d], lineCh[d], written[d], logs>>,
           dpc'[d] = dpc[d] \/ (dpc[d] = "exiting" /\ dpc'[d] = "returned"),
           agent'[d] = agent[d] \/ agent'[d] = "exited",
           cancelled[d] => cancelled'[d], intact'[d] = intact[d]
    PROVE  DispatchInv(d)'
  <1>1. /\ pipe'[d] = pipe[d] /\ pending'[d] = pending[d] /\ chunk'[d] = chunk[d]
        /\ shown'[d] = shown[d] /\ lineCh'[d] = lineCh[d] /\ written'[d] = written[d]
        /\ Log(d)' = Log(d) /\ Unsaved(d)' = Unsaved(d)
    BY DEF Log, Unsaved
  <1>2. (dpc'[d] = "sending") = (dpc[d] = "sending")
        /\ (dpc'[d] = "flushing") = (dpc[d] = "flushing")
    OBVIOUS
  <1>3. PiecesInOrder(d) => PiecesInOrder(d)'
    BY <1>1 DEF PiecesInOrder
  <1>4. ShownInOrder(d) => ShownInOrder(d)'
    BY <1>1, <1>2 DEF ShownInOrder
  <1>5. Streaming(d)' => Streaming(d)
    BY DEF Streaming, Reading
  <1> QED
    BY <1>1, <1>3, <1>4, <1>5 DEF DispatchInv

LEMMA QuietKeeps ==
    ASSUME OutputTypes, NEW d \in Dispatches, DispatchInv(d),
           DispatchReturns(d) \/ AgentExits(d) \/ ClientLeaves(d)
    PROVE  DispatchInv(d)'
  <1>1. CASE DispatchReturns(d)
    BY <1>1, Unmoved DEF DispatchReturns, DGoto, process, batch, browser, OutputTypes
  <1>2. CASE AgentExits(d) \/ ClientLeaves(d)
    BY <1>2, Unmoved DEF AgentExits, ClientLeaves, process, batch, browser, OutputTypes
  <1> QED
    BY <1>1, <1>2

LEMMA WaitKeeps ==
    ASSUME OutputTypes, NEW d \in Dispatches, DispatchInv(d),
           \/ DispatchBegins(d) \/ AcquireAgentSlot(d)
           \/ DispatchFailsToStart(d) \/ ProcessSavesOutput(d)
    PROVE  DispatchInv(d)'
  <1>1. CASE DispatchBegins(d) \/ AcquireAgentSlot(d)
    <2>1. /\ dpc[d] \in {"new", "waiting"} /\ dpc'[d] \in {"waiting", "slot"}
          /\ UNCHANGED <<process, batch, browser>>
      BY <1>1 DEF DispatchBegins, AcquireAgentSlot, DGoto, OutputTypes
    <2> QED
      BY <2>1 DEF DispatchInv, Streaming, Reading, process, batch, browser
  <1>2. CASE DispatchFailsToStart(d) \/ ProcessSavesOutput(d)
    <2>1. dpc'[d] = "processed"
      BY <1>2 DEF DispatchFailsToStart, ProcessSavesOutput, DGoto, OutputTypes
    <2> QED
      BY <2>1 DEF DispatchInv, Streaming, Reading
  <1> QED
    BY <1>1, <1>2

LEMMA WriteKeeps ==
    ASSUME OutputTypes, RunsRead, NEW d \in Dispatches, DispatchInv(d), AgentWrites(d)
    PROVE  DispatchInv(d)'
  <1>1. /\ agent[d] = "running" /\ dpc[d] \in Reading /\ written[d] \in Nat
        /\ written'[d] = written[d] + 1 /\ written[d] + 1 \in 1..MaxPieces
        /\ UNCHANGED <<dpc, agent, batch, browser, logs, cancelled, intact>>
    BY OutputAssumption DEF AgentWrites, RunsRead, OutputTypes
  <1>2. PICK nl \in BOOLEAN : pipe' = [pipe EXCEPT ![d] =
            Append(@, [of |-> d, n |-> written[d] + 1, eol |-> nl])]
    BY DEF AgentWrites
  <1> DEFINE e == [of |-> d, n |-> written[d] + 1, eol |-> nl]
  <1>3. pipe'[d] = Append(pipe[d], e)
    BY <1>2 DEF OutputTypes, PieceSeqs
  <1>4. e \in Piece /\ e.of = d /\ e.n = written[d] + 1
    BY <1>1 DEF Piece
  <1> HIDE DEF e
  <1>5. /\ dpc'[d] = dpc[d] /\ pending'[d] = pending[d] /\ Log(d)' = Log(d)
        /\ Unsaved(d)' = Unsaved(d) /\ shown'[d] = shown[d] /\ lineCh'[d] = lineCh[d]
        /\ chunk'[d] = chunk[d] /\ cancelled'[d] = cancelled[d] /\ intact'[d] = intact[d]
    BY <1>1 DEF batch, browser, Log, Unsaved
  <1>6. ASSUME intact[d] PROVE PiecesInOrder(d)'
    <2>1. PiecesInOrder(d)
      BY <1>1, <1>6 DEF DispatchInv, Streaming
    <2>2. /\ pipe[d] \in Seq(Piece) /\ pending[d] \in Seq(Piece) /\ Log(d) \in Seq(Piece)
          /\ Unsaved(d) \in Seq(Piece)
      BY PartsTyped
    <2>3. /\ Len(Log(d)) \in Nat /\ Len(Unsaved(d)) \in Nat /\ Len(pending[d]) \in Nat
          /\ Len(pipe[d]) \in Nat
      BY <2>2
    <2> DEFINE n == Len(Log(d)) + Len(Unsaved(d)) + Len(pending[d])
    <2>4. n \in Nat /\ Numbered(pipe[d], d, n) /\ written[d] = n + Len(pipe[d])
      <3>1. n \in Nat
        BY <2>3, SumType
      <3>2. Numbered(pipe[d], d, n) /\ written[d] = n + Len(pipe[d])
        BY <2>1 DEF PiecesInOrder
      <3> QED
        BY <3>1, <3>2
    <2>5. Numbered(pipe'[d], d, n) /\ Len(pipe'[d]) = Len(pipe[d]) + 1
      <3> HIDE DEF n
      <3> QED
        BY <1>3, <1>4, <2>2, <2>4, NumberedAppend
    <2>6. written'[d] = n + Len(pipe'[d])
      <3> HIDE DEF n
      <3> QED
        BY <1>1, <2>3, <2>4, <2>5
    <2> QED
      BY <1>5, <2>1, <2>5, <2>6 DEF PiecesInOrder
  <1>7. ASSUME intact[d] PROVE ShownInOrder(d)'
    BY <1>1, <1>5, <1>7 DEF ShownInOrder, DispatchInv, Streaming
  <1> QED
    BY <1>1, <1>5, <1>6, <1>7 DEF DispatchInv, Reading

LEMMA PersistKeeps ==
    ASSUME OutputTypes, NEW d \in Dispatches, DispatchInv(d), Persist(d)
    PROVE  DispatchInv(d)'
  <1>1. /\ dpc[d] = "flushing" /\ dpc'[d] = "sending"
        /\ pipe'[d] = pipe[d] /\ pending'[d] = pending[d] /\ chunk'[d] = chunk[d]
        /\ shown'[d] = shown[d] /\ lineCh'[d] = lineCh[d] /\ written'[d] = written[d]
        /\ Unsaved(d) = chunk[d] /\ Unsaved(d)' = <<>>
        /\ pending[d] = <<>>
    BY DEF DispatchInv, Persist, DGoto, Unsaved, OutputTypes, process, batch, browser
  <1>2. SUFFICES ASSUME intact'[d] PROVE PiecesInOrder(d)' /\ ShownInOrder(d)'
    BY <1>1 DEF DispatchInv
  <1>4. SetLog(d, Log(d) \o chunk[d]) /\ intact[d]
    BY <1>1, <1>2 DEF Persist, Spoils, SpoiledBy, Log
  <1>5. Log(d)' = Log(d) \o chunk[d]
    BY <1>4, PartsTyped DEF SetLog, Log, OutputTypes
  <1>6. PiecesInOrder(d) /\ ShownInOrder(d)
    BY <1>1, <1>4 DEF DispatchInv, Streaming, Reading
  <1>7. /\ Log(d) \in Seq(Piece) /\ chunk[d] \in Seq(Piece) /\ shown[d] \in Seq(Piece)
        /\ Len(Log(d)) \in Nat /\ Len(chunk[d]) \in Nat /\ Len(<<>>) = 0
        /\ Len(pipe[d]) \in Nat
    BY PartsTyped
  <1>8. PiecesInOrder(d)'
    <2>1. /\ Numbered(Log(d), d, 0) /\ Numbered(chunk[d], d, Len(Log(d)))
          /\ Numbered(pipe[d], d, Len(Log(d)) + Len(chunk[d]))
          /\ written[d] = Len(Log(d)) + Len(chunk[d]) + Len(pipe[d])
      BY <1>1, <1>6, <1>7 DEF PiecesInOrder
    <2>2. Numbered(Log(d)', d, 0) /\ Len(Log(d)') = Len(Log(d)) + Len(chunk[d])
      <3>1. Numbered(chunk[d], d, 0 + Len(Log(d))) /\ 0 \in Nat
        BY <1>7, <2>1
      <3> QED
        BY <1>5, <1>7, <2>1, <3>1, NumberedJoins
    <2>3. /\ Len(Log(d)') + 0 = Len(Log(d)) + Len(chunk[d])
          /\ Len(Log(d)') + 0 + 0 = Len(Log(d)) + Len(chunk[d])
          /\ \A n : Numbered(<<>>, d, n)
      BY <1>7, <2>2 DEF Numbered
    <2> QED
      BY <1>1, <1>7, <2>1, <2>2, <2>3 DEF PiecesInOrder
  <1>9. ShownInOrder(d)'
    <2>1. PICK f \in [Nat -> Nat] : /\ Cut(f, Log(d), shown[d], lineCh[d])
                                    /\ f[Len(lineCh[d])] = Len(Log(d))
      BY <1>1, <1>6 DEF ShownInOrder
    <2>2. lineCh[d] \in Seq(Seq(Piece))
      BY DEF OutputTypes
    <2>3. Cut(f, Log(d)', shown'[d], lineCh'[d])
      BY <1>1, <1>5, <1>7, <2>1, <2>2, CutGrows
    <2>4. IsPart(chunk'[d], Log(d)', f[Len(lineCh'[d])], Len(Log(d)'))
      BY <1>1, <1>5, <1>7, <2>1, PartAdded
    <2> QED
      BY <1>1, <2>3, <2>4 DEF ShownInOrder
  <1> QED
    BY <1>8, <1>9

LEMMA PushKeeps ==
    ASSUME OutputTypes, NEW d \in Dispatches, DispatchInv(d), Push(d)
    PROVE  DispatchInv(d)'
  <1>1. /\ dpc[d] = "sending" /\ dpc'[d] = "reading"
        /\ pipe'[d] = pipe[d] /\ pending'[d] = pending[d] /\ shown'[d] = shown[d]
        /\ written'[d] = written[d] /\ intact'[d] = intact[d] /\ cancelled'[d] = cancelled[d]
        /\ Unsaved(d) = <<>> /\ Unsaved(d)' = <<>> /\ Log(d)' = Log(d) /\ pending[d] = <<>>
    BY DEF DispatchInv, Push, DGoto, Unsaved, Log, OutputTypes, process
  <1>2. SUFFICES ASSUME intact[d] PROVE PiecesInOrder(d)' /\ ShownInOrder(d)'
    BY <1>1 DEF DispatchInv
  <1>3. PiecesInOrder(d) /\ ShownInOrder(d)
    BY <1>1, <1>2 DEF DispatchInv, Streaming, Reading
  <1>4. PiecesInOrder(d)'
    BY <1>1, <1>3 DEF PiecesInOrder
  <1>5. PICK f \in [Nat -> Nat] :
            /\ Cut(f, Log(d), shown[d], lineCh[d])
            /\ IsPart(chunk[d], Log(d), f[Len(lineCh[d])], Len(Log(d)))
    BY <1>1, <1>3 DEF ShownInOrder
  <1>6. ShownInOrder(d)'
    <2>1. CASE lineCh' = [lineCh EXCEPT ![d] = Append(@, chunk[d])]
      <3>1. lineCh'[d] = Append(lineCh[d], chunk[d]) /\ lineCh[d] \in Seq(Seq(Piece))
        BY <2>1 DEF OutputTypes
      <3>2. /\ Log(d) \in Seq(Piece) /\ chunk[d] \in Seq(Piece) /\ shown[d] \in Seq(Piece)
            /\ Len(Log(d)) \in Nat
        BY PartsTyped
      <3>3. CutTo(Log(d), shown[d], lineCh'[d], Len(Log(d)))
        BY <1>5, <3>1, <3>2, CutPush
      <3> QED
        BY <1>1, <3>3 DEF ShownInOrder, CutTo
    <2>2. CASE cancelled[d] /\ UNCHANGED lineCh
      BY <1>1, <1>5, <2>2 DEF ShownInOrder
    <2> QED
      BY <2>1, <2>2 DEF Push
  <1> QED
    BY <1>4, <1>6

LEMMA BroadcastKeeps ==
    ASSUME OutputTypes, NEW d \in Dispatches, DispatchInv(d), Broadcast(d)
    PROVE  DispatchInv(d)'
  <1>1. /\ dpc'[d] = dpc[d] /\ agent'[d] = agent[d] /\ chunk'[d] = chunk[d]
        /\ pipe'[d] = pipe[d] /\ pending'[d] = pending[d]
        /\ written'[d] = written[d] /\ intact'[d] = intact[d] /\ cancelled'[d] = cancelled[d]
        /\ Unsaved(d)' = Unsaved(d) /\ Log(d)' = Log(d) /\ lineCh[d] # <<>>
        /\ dpc[d] \notin {"new", "waiting", "slot"}
    BY DEF DispatchInv, Broadcast, Unsaved, Log, process, batch
  <1>2. ASSUME PiecesInOrder(d) PROVE PiecesInOrder(d)'
    BY <1>1, <1>2 DEF PiecesInOrder
  <1>3. ASSUME ShownInOrder(d) PROVE ShownInOrder(d)'
    <2>1. PICK f \in [Nat -> Nat] :
            /\ Cut(f, Log(d), shown[d], lineCh[d])
            /\ IF dpc[d] = "sending"
               THEN IsPart(chunk[d], Log(d), f[Len(lineCh[d])], Len(Log(d)))
               ELSE \/ f[Len(lineCh[d])] = Len(Log(d))
                    \/ cancelled[d] /\ dpc[d] # "flushing" /\ pending[d] = <<>>
      BY <1>3 DEF ShownInOrder
    <2>2. /\ lineCh'[d] = Tail(lineCh[d]) /\ shown'[d] = shown[d] \o Head(lineCh[d])
          /\ lineCh[d] \in Seq(Seq(Piece))
      BY DEF Broadcast, OutputTypes, PieceSeqs
    <2>3. Log(d) \in Seq(Piece) /\ shown[d] \in Seq(Piece)
      BY PartsTyped
    <2>4. PICK g \in [Nat -> Nat] :
            /\ Cut(g, Log(d), shown[d] \o Head(lineCh[d]), Tail(lineCh[d]))
            /\ g[Len(Tail(lineCh[d]))] = f[Len(lineCh[d])]
      BY <1>1, <2>1, <2>2, <2>3, CutShow
    <2> QED
      BY <1>1, <2>1, <2>2, <2>4 DEF ShownInOrder
  <1>4. Streaming(d)' = Streaming(d)
    BY <1>1 DEF Streaming
  <1> QED
    BY <1>1, <1>2, <1>3, <1>4 DEF DispatchInv

LEMMA OutputStep ==
    ASSUME OutputTypes, RunsRead, OutputInv, [OutputNext]_outputVars
    PROVE  OutputInv'
  <1> SUFFICES ASSUME NEW d \in Dispatches PROVE DispatchInv(d)'
    BY DEF OutputInv
  <1>1. DispatchInv(d)
    BY DEF OutputInv
  <1>2. CASE UNCHANGED outputVars
    BY <1>1, <1>2, Unmoved DEF outputVars, process, batch, browser
  <1>3. ASSUME NEW e \in Dispatches, e # d,
               \/ DispatchBegins(e) \/ DispatchStep(e) \/ Broadcast(e)
               \/ AgentWrites(e) \/ AgentExits(e) \/ ClientLeaves(e)
        PROVE  DispatchInv(d)'
    BY <1>1, <1>3, OthersStep, OthersKeepInv
  <1>4. ASSUME \/ DispatchBegins(d) \/ DispatchStep(d) \/ Broadcast(d)
               \/ AgentWrites(d) \/ AgentExits(d) \/ ClientLeaves(d)
        PROVE  DispatchInv(d)'
    <2>1. CASE \/ DispatchBegins(d) \/ AcquireAgentSlot(d)
               \/ DispatchFailsToStart(d) \/ ProcessSavesOutput(d)
      BY <1>1, <2>1, WaitKeeps
    <2>2. CASE StartAgent(d)
      BY <1>1, <2>2, StartKeeps
    <2>3. CASE ReadPiece(d)
      BY <1>1, <2>3, ReadKeeps
    <2>4. CASE Tick(d)
      BY <1>1, <2>4, TickKeeps
    <2>5. CASE StreamEnds(d)
      BY <1>1, <2>5, EndKeeps
    <2>6. CASE Persist(d)
      BY <1>1, <2>6, PersistKeeps
    <2>7. CASE Push(d)
      BY <1>1, <2>7, PushKeeps
    <2>8. CASE Broadcast(d)
      BY <1>1, <2>8, BroadcastKeeps
    <2>9. CASE AgentWrites(d)
      BY <1>1, <2>9, WriteKeeps
    <2>10. CASE DispatchReturns(d) \/ AgentExits(d) \/ ClientLeaves(d)
      BY <1>1, <2>10, QuietKeeps
    <2> QED
      BY <1>4, <2>1, <2>2, <2>3, <2>4, <2>5, <2>6, <2>7, <2>8, <2>9, <2>10 DEF DispatchStep
  <1> QED
    BY <1>2, <1>3, <1>4 DEF OutputNext

-----------------------------------------------------------------------------
(* The Output.  What the batcher has read it keeps, so that the save of the *)
(* Output over the log loses nothing that the log had.                      *)

\* The pieces of s are some of the first k of d.
Among(s, d, k) == \A j \in 1..Len(s) : s[j].of = d /\ s[j].n \in 1..k

\* What was read is in the buffer, and what was not is in the pipe.
BufferKeeps(d) == \E k \in Nat :
    /\ written[d] = k + Len(pipe[d]) /\ Numbered(pipe[d], d, k)
    /\ HoldsFirst(buffer[d], d, k) /\ Among(pending[d], d, k)

BufferInv(d) ==
    /\ dpc[d] # "processed" => BufferKeeps(d)
    /\ dpc[d] \in {"exiting", "returned"} /\ ~cancelled[d] =>
          pipe[d] = <<>> /\ agent[d] = "exited"
    /\ dpc[d] = "processed" /\ intact[d] => HoldsFirst(Log(d), d, written[d])
BuffersInv == \A d \in Dispatches : BufferInv(d)
BufferVars(d) ==
    <<dpc[d], agent[d], pipe[d], written[d], pending[d], cancelled[d], buffer[d]>>

LEMMA NumberedAreKept ==
    ASSUME NEW s \in Seq(Piece), NEW d, Numbered(s, d, 0)
    PROVE  HoldsFirst(s, d, Len(s))
  <1>1. Len(s) \in Nat /\ \A j \in 1..Len(s) : s[j].of = d /\ s[j].n = j
    BY DEF Numbered
  <1>2. ASSUME NEW j \in 1..Len(s)
        PROVE  s[j].n = 1 \/ \E i \in 1..(j - 1) : s[i].n = s[j].n - 1
    <2>1. CASE j = 1
      BY <1>1, <2>1
    <2>2. CASE j # 1
      <3>1. j - 1 \in 1..(j - 1) /\ j - 1 \in 1..Len(s)
        BY <1>1, <2>2
      <3> QED
        BY <1>1, <3>1
    <2> QED
      BY <2>1, <2>2
  <1> QED
    BY <1>1, <1>2 DEF HoldsFirst

LEMMA KeptAppend ==
    ASSUME NEW s \in Seq(Piece), NEW e \in Piece, NEW d, NEW k \in Nat,
           HoldsFirst(s, d, k), e.of = d, e.n = k + 1
    PROVE  HoldsFirst(Append(s, e), d, k + 1)
  <1> DEFINE t == Append(s, e)
  <1>1. /\ Len(s) \in Nat /\ Len(t) = Len(s) + 1 /\ t[Len(s) + 1] = e
        /\ \A i \in 1..Len(s) : t[i] = s[i]
    OBVIOUS
  <1> HIDE DEF t
  <1>2. ASSUME NEW j \in 1..Len(t)
        PROVE  /\ t[j].of = d /\ t[j].n \in 1..(k + 1)
               /\ t[j].n = 1 \/ \E i \in 1..(j - 1) : t[i].n = t[j].n - 1
    <2>1. CASE j \in 1..Len(s)
      <3>1. /\ s[j].of = d /\ s[j].n \in 1..k
            /\ s[j].n = 1 \/ \E i \in 1..(j - 1) : s[i].n = s[j].n - 1
        BY <2>1 DEF HoldsFirst
      <3>2. \A i \in 1..(j - 1) : i \in 1..Len(s)
        BY <1>1, <2>1
      <3> QED
        BY <1>1, <2>1, <3>1, <3>2
    <2>2. CASE j \notin 1..Len(s)
      <3>1. j = Len(s) + 1 /\ t[j] = e
        BY <1>1, <2>2
      <3>2. t[j].of = d /\ t[j].n = k + 1
        BY <3>1
      <3>3. t[j].n \in 1..(k + 1) /\ t[j].n - 1 = k
        BY <3>2
      <3>4. CASE k = 0
        BY <3>2, <3>3, <3>4
      <3>5. CASE k # 0
        <4>1. k \in 1..k
          BY <3>5
        <4>2. PICK i \in 1..Len(s) : s[i].n = k
          BY <4>1 DEF HoldsFirst
        <4>3. i \in 1..(j - 1)
          BY <1>1, <3>1, <4>2
        <4>4. t[i].n = t[j].n - 1
          BY <1>1, <3>3, <4>2
        <4> QED
          BY <3>2, <3>3, <4>3, <4>4
      <3> QED
        BY <3>4, <3>5
    <2> QED
      BY <2>1, <2>2
  <1>3. ASSUME NEW n \in 1..(k + 1) PROVE \E j \in 1..Len(t) : t[j].n = n
    <2>1. CASE n = k + 1
      <3>1. Len(s) + 1 \in 1..Len(t)
        BY <1>1
      <3> QED
        BY <1>1, <2>1, <3>1
    <2>2. CASE n # k + 1
      <3>1. n \in 1..k
        BY <2>2
      <3>2. PICK j \in 1..Len(s) : s[j].n = n
        BY <3>1 DEF HoldsFirst
      <3>3. j \in 1..Len(t) /\ t[j] = s[j]
        BY <1>1
      <3> QED
        BY <3>2, <3>3
    <2> QED
      BY <2>1, <2>2
  <1>4. HoldsFirst(t, d, k + 1)
    BY <1>2, <1>3 DEF HoldsFirst
  <1> QED
    BY <1>4 DEF t

LEMMA KeptAgain ==
    ASSUME NEW s \in Seq(Piece), NEW p \in Seq(Piece), NEW d, NEW k \in Nat,
           HoldsFirst(s, d, k), Among(p, d, k)
    PROVE  HoldsFirst(s \o p, d, k)
  <1> DEFINE t == s \o p
  <1>1. /\ Len(s) \in Nat /\ Len(p) \in Nat /\ Len(t) = Len(s) + Len(p)
        /\ \A i \in 1..Len(s) : t[i] = s[i]
        /\ \A i \in 1..Len(t) : i \notin 1..Len(s) =>
              i - Len(s) \in 1..Len(p) /\ t[i] = p[i - Len(s)]
    OBVIOUS
  <1> HIDE DEF t
  <1>2. ASSUME NEW j \in 1..Len(t)
        PROVE  /\ t[j].of = d /\ t[j].n \in 1..k
               /\ t[j].n = 1 \/ \E i \in 1..(j - 1) : t[i].n = t[j].n - 1
    <2>1. CASE j \in 1..Len(s)
      <3>1. /\ s[j].of = d /\ s[j].n \in 1..k
            /\ s[j].n = 1 \/ \E i \in 1..(j - 1) : s[i].n = s[j].n - 1
        BY <2>1 DEF HoldsFirst
      <3>2. \A i \in 1..(j - 1) : i \in 1..Len(s)
        BY <1>1, <2>1
      <3> QED
        BY <1>1, <2>1, <3>1, <3>2
    <2>2. CASE j \notin 1..Len(s)
      <3>1. t[j].of = d /\ t[j].n \in 1..k
        BY <1>1, <2>2 DEF Among
      <3>2. CASE t[j].n # 1
        <4>1. t[j].n - 1 \in 1..k
          BY <3>1, <3>2
        <4>2. PICK i \in 1..Len(s) : s[i].n = t[j].n - 1
          BY <4>1 DEF HoldsFirst
        <4>3. i \in 1..(j - 1) /\ t[i] = s[i]
          BY <1>1, <2>2
        <4> QED
          BY <3>1, <4>2, <4>3
      <3> QED
        BY <3>1, <3>2
    <2> QED
      BY <2>1, <2>2
  <1>3. ASSUME NEW n \in 1..k PROVE \E j \in 1..Len(t) : t[j].n = n
    <2>1. PICK j \in 1..Len(s) : s[j].n = n
      BY DEF HoldsFirst
    <2>2. j \in 1..Len(t) /\ t[j] = s[j]
      BY <1>1
    <2> QED
      BY <2>1, <2>2
  <1>4. HoldsFirst(t, d, k)
    BY <1>2, <1>3 DEF HoldsFirst
  <1> QED
    BY <1>4 DEF t

\* A dispatch that goes on, with what it has read and what is in its pipe.
LEMMA BufferUnmoved ==
    ASSUME NEW d \in Dispatches, BufferInv(d), dpc[d] # "processed", dpc'[d] # "processed",
           pipe'[d] = pipe[d], written'[d] = written[d], buffer'[d] = buffer[d],
           pending'[d] \in {pending[d], <<>>}, cancelled[d] => cancelled'[d],
           dpc'[d] \in {"exiting", "returned"} =>
              \/ dpc[d] \in {"exiting", "returned"} /\ agent'[d] \in {agent[d], "exited"}
              \/ cancelled'[d] \/ (pipe[d] = <<>> /\ agent'[d] = "exited")
    PROVE  BufferInv(d)'
  <1>1. PICK k \in Nat : /\ written[d] = k + Len(pipe[d]) /\ Numbered(pipe[d], d, k)
                         /\ HoldsFirst(buffer[d], d, k) /\ Among(pending[d], d, k)
    BY DEF BufferInv, BufferKeeps
  <1>2. Among(pending'[d], d, k)
    <2>1. Among(<<>>, d, k)
      BY DEF Among
    <2> QED
      BY <1>1, <2>1
  <1>3. BufferKeeps(d)'
    BY <1>1, <1>2 DEF BufferKeeps
  <1> QED
    BY <1>3 DEF BufferInv

LEMMA OneRead ==
    ASSUME NEW k \in Nat, NEW n \in Nat
    PROVE  k + n = (k + 1) + (n - 1)
  OBVIOUS

LEMMA BufferReads ==
    ASSUME OutputTypes, NEW d \in Dispatches, BufferInv(d), ReadPiece(d)
    PROVE  BufferInv(d)'
  <1> DEFINE p == Append(pending[d], Head(pipe[d]))
             e == Head(pipe[d])
  <1>1. /\ dpc[d] = "reading" /\ pipe[d] # <<>> /\ written' = written
        /\ FlushOrKeep(d, p, e.eol \/ Len(p) >= FlushBytes)
        /\ pipe' = [pipe EXCEPT ![d] = Tail(@)] /\ buffer' = [buffer EXCEPT ![d] = Append(@, e)]
    BY DEF ReadPiece
  <1>2. /\ pipe[d] \in Seq(Piece) /\ pending[d] \in Seq(Piece) /\ buffer[d] \in Seq(Piece)
        /\ pipe'[d] = Tail(pipe[d]) /\ buffer'[d] = Append(buffer[d], e)
        /\ pending'[d] \in {p, <<>>} /\ dpc'[d] \in {"reading", "flushing"}
    BY <1>1 DEF OutputTypes, PieceSeqs, FlushOrKeep, DGoto
  <1>3. e \in Piece /\ e = pipe[d][1] /\ Len(pipe[d]) \in Nat /\ Len(pipe[d]) >= 1
    BY <1>1, <1>2, SeqParts
  <1>4. PICK k \in Nat : /\ written[d] = k + Len(pipe[d]) /\ Numbered(pipe[d], d, k)
                         /\ HoldsFirst(buffer[d], d, k) /\ Among(pending[d], d, k)
    BY <1>1 DEF BufferInv, BufferKeeps
  <1>5. e.of = d /\ e.n = k + 1
    BY <1>3, <1>4 DEF Numbered
  <1>6. HoldsFirst(buffer'[d], d, k + 1)
    <2> HIDE DEF e
    <2> QED
      BY <1>2, <1>3, <1>4, <1>5, KeptAppend
  <1>7. Among(pending'[d], d, k + 1)
    <2>1. /\ Len(pending[d]) \in Nat /\ Len(p) = Len(pending[d]) + 1 /\ p[Len(pending[d]) + 1] = e
          /\ \A j \in 1..Len(pending[d]) : p[j] = pending[d][j]
      BY <1>2, <1>3, SeqParts
    <2> HIDE DEF p, e
    <2>2. ASSUME NEW j \in 1..Len(p) PROVE p[j].of = d /\ p[j].n \in 1..(k + 1)
      <3>1. CASE j = Len(pending[d]) + 1
        BY <1>5, <2>1, <3>1
      <3>2. CASE j # Len(pending[d]) + 1
        <4>1. j \in 1..Len(pending[d])
          BY <2>1, <3>2
        <4>2. p[j].of = d /\ p[j].n \in 1..k
          BY <1>4, <2>1, <4>1 DEF Among
        <4> QED
          BY <4>2
      <3> QED
        BY <3>1, <3>2
    <2>3. Among(p, d, k + 1) /\ Among(<<>>, d, k + 1)
      BY <2>2 DEF Among
    <2> QED
      BY <1>2, <2>3
  <1>8. /\ written'[d] = (k + 1) + Len(pipe'[d]) /\ Numbered(pipe'[d], d, k + 1)
    <2>1. /\ Len(Tail(pipe[d])) = Len(pipe[d]) - 1
          /\ \A i \in 1..Len(pipe[d]) - 1 : Tail(pipe[d])[i] = pipe[d][i + 1]
      BY <1>1, <1>2, SeqParts
    <2>2. ASSUME NEW i \in 1..Len(pipe'[d])
          PROVE  pipe'[d][i].of = d /\ pipe'[d][i].n = (k + 1) + i
      <3>1. i + 1 \in 1..Len(pipe[d]) /\ pipe'[d][i] = pipe[d][i + 1]
        BY <1>2, <1>3, <2>1
      <3> QED
        BY <1>4, <3>1 DEF Numbered
    <2>3. written'[d] = (k + 1) + Len(pipe'[d])
      <3>1. /\ written'[d] = written[d] /\ Len(pipe'[d]) = Len(pipe[d]) - 1
            /\ written[d] = k + Len(pipe[d]) /\ Len(pipe[d]) \in Nat
        BY <1>1, <1>2, <1>3, <1>4, <2>1
      <3> QED
        BY <3>1, OneRead
    <2> QED
      BY <2>2, <2>3 DEF Numbered
  <1>9. BufferKeeps(d)'
    <2>1. k + 1 \in Nat
      OBVIOUS
    <2> QED
      BY <1>6, <1>7, <1>8, <2>1 DEF BufferKeeps
  <1> QED
    BY <1>2, <1>9 DEF BufferInv

LEMMA BufferTicks ==
    ASSUME OutputTypes, NEW d \in Dispatches, BufferInv(d), Tick(d)
    PROVE  BufferInv(d)'
  <1>1. /\ dpc[d] = "reading" /\ dpc'[d] = "flushing" /\ pipe'[d] = pipe[d]
        /\ written'[d] = written[d] /\ pending'[d] = <<>>
        /\ buffer'[d] = buffer[d] \o pending[d]
        /\ buffer[d] \in Seq(Piece) /\ pending[d] \in Seq(Piece)
    BY DEF Tick, FlushOrKeep, DGoto, process, OutputTypes, PieceSeqs
  <1>2. PICK k \in Nat : /\ written[d] = k + Len(pipe[d]) /\ Numbered(pipe[d], d, k)
                         /\ HoldsFirst(buffer[d], d, k) /\ Among(pending[d], d, k)
    BY <1>1 DEF BufferInv, BufferKeeps
  <1>3. HoldsFirst(buffer'[d], d, k)
    BY <1>1, <1>2, KeptAgain
  <1>4. Among(<<>>, d, k)
    BY DEF Among
  <1>5. BufferKeeps(d)'
    BY <1>1, <1>2, <1>3, <1>4 DEF BufferKeeps
  <1> QED
    BY <1>1, <1>5 DEF BufferInv

LEMMA BufferWrites ==
    ASSUME OutputTypes, RunsRead, NEW d \in Dispatches, BufferInv(d), AgentWrites(d)
    PROVE  BufferInv(d)'
  <1>1. /\ agent[d] = "running" /\ dpc[d] \in Reading /\ written[d] \in Nat
        /\ written'[d] = written[d] + 1 /\ written[d] + 1 \in 1..MaxPieces
        /\ UNCHANGED <<dpc, agent, pending, buffer, cancelled>>
    BY OutputAssumption DEF AgentWrites, RunsRead, OutputTypes, batch
  <1>2. PICK nl \in BOOLEAN : pipe' = [pipe EXCEPT ![d] =
            Append(@, [of |-> d, n |-> written[d] + 1, eol |-> nl])]
    BY DEF AgentWrites
  <1> DEFINE e == [of |-> d, n |-> written[d] + 1, eol |-> nl]
  <1>3. pipe'[d] = Append(pipe[d], e) /\ pipe[d] \in Seq(Piece) /\ Len(pipe[d]) \in Nat
    BY <1>2 DEF OutputTypes, PieceSeqs
  <1>4. e \in Piece /\ e.of = d /\ e.n = written[d] + 1
    BY <1>1 DEF Piece
  <1> HIDE DEF e
  <1>5. PICK k \in Nat : /\ written[d] = k + Len(pipe[d]) /\ Numbered(pipe[d], d, k)
                         /\ HoldsFirst(buffer[d], d, k) /\ Among(pending[d], d, k)
    BY <1>1 DEF BufferInv, BufferKeeps, Reading
  <1>6. Numbered(pipe'[d], d, k) /\ Len(pipe'[d]) = Len(pipe[d]) + 1
    BY <1>3, <1>4, <1>5, NumberedAppend
  <1>7. written'[d] = k + Len(pipe'[d])
    BY <1>1, <1>3, <1>5, <1>6
  <1>8. BufferKeeps(d)'
    BY <1>1, <1>5, <1>6, <1>7 DEF BufferKeeps
  <1> QED
    BY <1>1, <1>8 DEF BufferInv, Reading

\* The save of the whole Output: nothing is left in the pipe, if the log was
\* complete until then, or if nobody cancelled the dispatch.
LEMMA BufferSaved ==
    ASSUME OutputTypes, NEW d \in Dispatches, DispatchInv(d), BufferInv(d),
           ProcessSavesOutput(d)
    PROVE  BufferInv(d)'
  <1>1. /\ dpc[d] = "returned" /\ dpc'[d] = "processed" /\ written'[d] = written[d]
        /\ buffer[d] \in Seq(Piece) /\ Len(<<>>) = 0
    BY DEF ProcessSavesOutput, DGoto, OutputTypes, PieceSeqs
  <1>2. SUFFICES ASSUME intact'[d] PROVE HoldsFirst(Log(d)', d, written[d])
    BY <1>1 DEF BufferInv
  <1>3. CASE SetLog(d, buffer[d]) /\ (intact'[d] => intact[d] \/ ~cancelled[d])
    <2>1. pipe[d] = <<>>
      BY <1>1, <1>2, <1>3 DEF DispatchInv, BufferInv
    <2>2. HoldsFirst(buffer[d], d, written[d])
      BY <1>1, <2>1 DEF BufferInv, BufferKeeps
    <2>3. Log(d)' = buffer[d]
      BY <1>3, PartsTyped DEF SetLog, Log, OutputTypes
    <2> QED
      BY <2>2, <2>3
  <1>4. CASE UNCHANGED <<logs, intact>>
    <2>1. /\ pending[d] = <<>> /\ pipe[d] = <<>> /\ Unsaved(d) = <<>> /\ PiecesInOrder(d)
      BY <1>1, <1>2, <1>4 DEF DispatchInv, Streaming, Unsaved
    <2>2. Log(d) \in Seq(Piece) /\ Len(Log(d)) \in Nat /\ Log(d)' = Log(d)
      BY <1>4, PartsTyped DEF Log
    <2>3. Numbered(Log(d), d, 0) /\ written[d] = Len(Log(d))
      BY <1>1, <2>1, <2>2 DEF PiecesInOrder
    <2> QED
      BY <2>2, <2>3, NumberedAreKept
  <1>5. \/ SetLog(d, buffer[d]) /\ (intact'[d] => intact[d] \/ ~cancelled[d])
        \/ UNCHANGED <<logs, intact>>
    <2>1. SpoiledBy(Sharing(d))[d] => intact[d]
      BY DEF SpoiledBy
    <2>2. SpoiledBy(Sharing(d)) = [e \in Dispatches |-> SpoiledBy(Sharing(d))[e]]
      BY DEF SpoiledBy
    <2> QED
      BY <2>1, <2>2 DEF ProcessSavesOutput
  <1> QED
    BY <1>3, <1>4, <1>5

LEMMA BufferStep ==
    ASSUME OutputTypes, RunsRead, OutputInv, BuffersInv, [OutputNext]_outputVars
    PROVE  BuffersInv'
  <1> SUFFICES ASSUME NEW d \in Dispatches PROVE BufferInv(d)'
    BY DEF BuffersInv
  <1>1. BufferInv(d) /\ DispatchInv(d)
    BY DEF BuffersInv, OutputInv
  <1>2. ASSUME BufferVars(d)' = BufferVars(d),
               HadSlot(d) /\ intact'[d] => intact[d] /\ Log(d)' = Log(d)
        PROVE  BufferInv(d)'
    <2>1. /\ dpc'[d] = dpc[d] /\ agent'[d] = agent[d] /\ pipe'[d] = pipe[d]
          /\ written'[d] = written[d] /\ pending'[d] = pending[d]
          /\ cancelled'[d] = cancelled[d] /\ buffer'[d] = buffer[d]
      BY <1>2 DEF BufferVars
    <2>2. BufferKeeps(d)' = BufferKeeps(d)
      BY <2>1 DEF BufferKeeps
    <2> QED
      BY <1>1, <1>2, <2>1, <2>2 DEF BufferInv, HadSlot
  <1>3. CASE UNCHANGED outputVars
    BY <1>2, <1>3 DEF outputVars, process, batch, BufferVars, Log
  <1>4. ASSUME NEW e \in Dispatches, e # d,
               \/ DispatchBegins(e) \/ DispatchStep(e) \/ Broadcast(e)
               \/ AgentWrites(e) \/ AgentExits(e) \/ ClientLeaves(e)
        PROVE  BufferInv(d)'
    <2>1. /\ OwnVars(d)' = OwnVars(d)
          /\ HadSlot(d) /\ intact'[d] => intact[d] /\ Log(d)' = Log(d)
      BY <1>4, OthersStep
    <2> QED
      BY <1>2, <2>1 DEF OwnVars, BufferVars
  <1>5. ASSUME \/ DispatchBegins(d) \/ DispatchStep(d) \/ Broadcast(d)
               \/ AgentWrites(d) \/ AgentExits(d) \/ ClientLeaves(d)
        PROVE  BufferInv(d)'
    <2>1. CASE \/ DispatchBegins(d) \/ AcquireAgentSlot(d) \/ StartAgent(d)
               \/ DispatchReturns(d)
      BY <1>1, <2>1, BufferUnmoved
         DEF DispatchBegins, AcquireAgentSlot, StartAgent, DispatchReturns, DGoto,
             process, batch, OutputTypes
    <2>2. CASE DispatchFailsToStart(d)
      <3>1. dpc'[d] = "processed" /\ ~intact'[d]
        BY <2>2 DEF DispatchFailsToStart, DGoto, Spoils, SpoiledBy, OutputTypes
      <3> QED
        BY <3>1 DEF BufferInv
    <2>3. CASE StreamEnds(d)
      <3>1. /\ dpc[d] = "reading" /\ dpc'[d] \in {"flushing", "exiting"}
            /\ pending'[d] \in {pending[d], <<>>}
            /\ cancelled[d] \/ (pipe[d] = <<>> /\ agent[d] = "exited")
            /\ UNCHANGED <<process, buffer, cancelled>>
        BY <2>3 DEF StreamEnds, StreamAtEnd, FlushOrKeep, DGoto, OutputTypes, PieceSeqs
      <3> QED
        BY <1>1, <3>1, BufferUnmoved DEF process
    <2>4. CASE Persist(d) \/ Push(d)
      BY <1>1, <2>4, BufferUnmoved
         DEF Persist, Push, DGoto, process, batch, OutputTypes
    <2>5. CASE Broadcast(d)
      BY <1>2, <2>5 DEF Broadcast, process, batch, BufferVars, Log
    <2>6. CASE AgentExits(d) \/ ClientLeaves(d)
      <3>1. dpc'[d] = dpc[d] /\ dpc[d] # "processed"
        BY <2>6 DEF AgentExits, ClientLeaves, RunsRead, Reading, HasSlot
      <3>2. agent'[d] \in {agent[d], "exited"} /\ (cancelled[d] => cancelled'[d])
            /\ UNCHANGED <<pipe, written, batch>>
        BY <2>6 DEF AgentExits, ClientLeaves, process, OutputTypes
      <3> QED
        BY <1>1, <3>1, <3>2, BufferUnmoved DEF batch
    <2>7. CASE ReadPiece(d)
      BY <1>1, <2>7, BufferReads
    <2>8. CASE Tick(d)
      BY <1>1, <2>8, BufferTicks
    <2>9. CASE AgentWrites(d)
      BY <1>1, <2>9, BufferWrites
    <2>10. CASE ProcessSavesOutput(d)
      BY <1>1, <2>10, BufferSaved
    <2> QED
      BY <1>5, <2>1, <2>2, <2>3, <2>4, <2>5, <2>6, <2>7, <2>8, <2>9, <2>10 DEF DispatchStep
  <1> QED
    BY <1>3, <1>4, <1>5 DEF OutputNext

LEMMA BuffersInit == OutputInit => BuffersInv
  <1> SUFFICES ASSUME OutputInit, NEW d \in Dispatches PROVE BufferInv(d)
    BY DEF BuffersInv
  <1>1. /\ dpc[d] = "new" /\ written[d] = 0 /\ pipe[d] = <<>> /\ buffer[d] = <<>>
        /\ pending[d] = <<>>
    BY DEF OutputInit
  <1>2. Len(<<>>) = 0 /\ 0 \in Nat
    OBVIOUS
  <1>3. Numbered(<<>>, d, 0) /\ HoldsFirst(<<>>, d, 0) /\ Among(<<>>, d, 0)
    BY <1>2 DEF Numbered, HoldsFirst, Among
  <1> QED
    BY <1>1, <1>2, <1>3 DEF BufferInv, BufferKeeps

LEMMA OutputInvInit == OutputInit => OutputInv
  BY DEF OutputInit, OutputInv, DispatchInv, Streaming, Reading

LEMMA OutputInvAlways == OutputSpec => [](OutputTypes /\ OutputInv /\ BuffersInv)
  <1>1. SlotInv => RunsRead
    BY DEF SlotInv
  <1> QED
    BY <1>1, SlotInvAlways, OutputTypesAlways, OutputInvInit, OutputStep, BuffersInit,
       BufferStep, PTL DEF OutputSpec

\* The log of a dispatch that has returned is all its agent wrote, in order and
\* once, unless an append failed, its client left or another dispatch wrote to
\* the row; and when ProcessStageResult has saved the Output over it, everything
\* is there still, and each piece first after the one before it (streamer.go,
\* StreamOutput; state_machine.go, ProcessStageResult).
THEOREM LogsComplete == OutputSpec => []LogComplete
  <1>1. OutputTypes /\ OutputInv /\ BuffersInv => LogComplete
    <2> SUFFICES ASSUME OutputTypes, OutputInv, BuffersInv, NEW d \in Dispatches, intact[d]
                 PROVE  /\ dpc[d] = "returned" => LogIsOutput(d)
                        /\ dpc[d] = "processed" => HoldsFirst(logs[LogRow[d]], d, written[d])
      BY DEF LogComplete
    <2>1. ASSUME dpc[d] = "returned" PROVE LogIsOutput(d)
      <3>1. /\ pending[d] = <<>> /\ pipe[d] = <<>> /\ Unsaved(d) = <<>> /\ PiecesInOrder(d)
        BY <2>1 DEF OutputInv, DispatchInv, Streaming, Unsaved
      <3>2. Log(d) \in Seq(Piece) /\ Len(Log(d)) \in Nat /\ Len(<<>>) = 0
        BY PartsTyped
      <3>3. Numbered(Log(d), d, 0) /\ written[d] = Len(Log(d))
        BY <3>1, <3>2 DEF PiecesInOrder
      <3>4. \A i \in 1..Len(Log(d)) : Log(d)[i].of = d /\ Log(d)[i].n = i
        BY <3>2, <3>3 DEF Numbered
      <3> QED
        BY <3>3, <3>4 DEF LogIsOutput, Numbers, AllPieces, Log
    <2>2. dpc[d] = "processed" => HoldsFirst(logs[LogRow[d]], d, written[d])
      BY DEF BuffersInv, BufferInv, Log
    <2> QED
      BY <2>1, <2>2
  <1> QED
    BY <1>1, OutputInvAlways, PTL

\* "Persist-then-push": until the result is processed, what the browser was
\* shown of a dispatch that nothing disturbed is the start of its log, whatever
\* chunks are on their way and whether or not the client is still there.
THEOREM ShownAlwaysLogged == OutputSpec => []ShownIsLogged
  <1>1. OutputTypes /\ OutputInv => ShownIsLogged
    <2> SUFFICES ASSUME OutputTypes, OutputInv, NEW d \in Dispatches,
                        intact[d], dpc[d] # "processed"
                 PROVE  Len(shown[d]) <= Len(Log(d)) /\ shown[d] = SubSeq(Log(d), 1, Len(shown[d]))
      BY DEF ShownIsLogged, Log
    <2>1. Log(d) \in Seq(Piece) /\ shown[d] \in Seq(Piece) /\ 0 \in Nat
      BY PartsTyped
    <2>2. \E a \in Nat : IsPart(shown[d], Log(d), 0, a)
      <3>1. CASE Streaming(d)
        <4>1. PICK f \in [Nat -> Nat] : Cut(f, Log(d), shown[d], lineCh[d])
          BY <3>1 DEF OutputInv, DispatchInv, ShownInOrder
        <4> QED
          BY <4>1 DEF Cut
      <3>2. CASE ~Streaming(d)
        <4>1. shown[d] = <<>>
          BY <3>2 DEF OutputInv, DispatchInv, Streaming, Reading, OutputTypes, DispatchPCs
        <4> QED
          BY <2>1, <4>1 DEF IsPart
      <3> QED
        BY <3>1, <3>2
    <2> QED
      BY <2>1, <2>2, PartIsPrefix
  <1> QED
    BY <1>1, OutputInvAlways, PTL

-----------------------------------------------------------------------------
(* The server-sent events: the types of the hub's variables, who is in its  *)
(* list, and what a client that connects has yet to get.                    *)

Doing == [at : {"idle", "listing", "send"}, event : 0..MaxEvents, i : Nat, n : Nat,
          shares : BOOLEAN, own : Seq(Clients)]
StreamTypes ==
    /\ eventCount \in 0..MaxEvents
    /\ sseBuffer \in Seq(Events) /\ Len(sseBuffer) <= EventBuffer
    /\ array \in Seq(Clients) /\ count \in Nat /\ count <= Len(array)
    /\ cpc \in [Clients -> {"away", "registered", "streaming", "gone"}]
    /\ channel \in [Clients -> Seq(Events)]
    /\ \A c \in Clients : Len(channel[c]) <= EventChannel
    /\ got \in [Clients -> SUBSET Events]
    /\ sender \in [Senders -> Doing]
    /\ dropped \in [Clients -> SUBSET Events]

Connected == {c \in Clients : cpc[c] \in {"registered", "streaming"}}

\* The list holds each client that is connected, once.
Listed ==
    /\ \A k \in 1..count : array[k] \in Connected
    /\ \A c \in Connected : \E k \in 1..count : array[k] = c
    /\ \A j, k \in 1..count : array[j] = array[k] => j = k

\* What a sender walks over is what it listed, as long as nobody left.
Walked(s) == IF sender[s].shares THEN array ELSE sender[s].own
CopyOK(s) ==
    /\ sender[s].at # "idle" => sender[s].event \in 1..eventCount
    /\ sender[s].at = "send" =>
          /\ sender[s].i >= 1 /\ sender[s].n <= Len(Walked(s))
          /\ sender[s].shares /\ sender[s].event \notin raced => sender[s].n <= count
SenderCopies == \A s \in Senders : CopyOK(s)

\* A client has an event, or a sender has yet to come to it.
Has(c, e) == e \in got[c] \cup InChannel(c) \cup dropped[c]
Comes(s, c) == \/ sender[s].at = "listing"
               \/ sender[s].at = "send" /\ \E j \in sender[s].i..sender[s].n : Walked(s)[j] = c
Reached ==
    \A c \in Clients : cpc[c] = "streaming" => \A k \in 1..Len(sseBuffer) :
        \/ Has(c, sseBuffer[k]) \/ sseBuffer[k] \in raced
        \/ \E s \in Senders : sender[s].event = sseBuffer[k] /\ Comes(s, c)

StreamInv == Listed /\ SenderCopies /\ Reached

\* The events kept are the last ones.
FromOrNew(k, s, e) == \A i \in 1..Len(k) : k[i] = e \/ \E j \in 1..Len(s) : k[i] = s[j]

LEMMA KeptParts ==
    ASSUME NEW s \in Seq(Events), NEW e \in Events, Len(s) <= EventBuffer,
           NEW k, k = Kept(Append(s, e))
    PROVE  k \in Seq(Events) /\ Len(k) <= EventBuffer /\ FromOrNew(k, s, e)
  <1>1. PICK a \in Seq(Events) :
            /\ k = Kept(a) /\ Len(a) = Len(s) + 1
            /\ \A i \in 1..Len(a) : a[i] = e \/ (i \in 1..Len(s) /\ a[i] = s[i])
    <2>1. /\ Append(s, e) \in Seq(Events) /\ Len(Append(s, e)) = Len(s) + 1
          /\ \A i \in 1..Len(s) : Append(s, e)[i] = s[i]
          /\ Append(s, e)[Len(s) + 1] = e
      OBVIOUS
    <2>2. \A i \in 1..Len(s) + 1 : i = Len(s) + 1 \/ i \in 1..Len(s)
      OBVIOUS
    <2>3. \A i \in 1..Len(Append(s, e)) : \/ Append(s, e)[i] = e
                                          \/ i \in 1..Len(s) /\ Append(s, e)[i] = s[i]
      BY <2>1, <2>2
    <2> QED
      BY <2>1, <2>3
  <1>2. EventBuffer \in Nat /\ EventBuffer >= 1 /\ Len(s) \in Nat
    BY EventAssumption
  <1>3. CASE Len(a) > EventBuffer
    <2>1. k = SubSeq(a, Len(a) - EventBuffer + 1, Len(a))
      BY <1>1, <1>3 DEF Kept
    <2>2. /\ k \in Seq(Events) /\ Len(k) = EventBuffer
          /\ \A i \in 1..EventBuffer : /\ k[i] = a[Len(a) - EventBuffer + i]
                                      /\ Len(a) - EventBuffer + i \in 1..Len(a)
      BY <1>1, <1>2, <1>3, <2>1
    <2>3. ASSUME NEW i \in 1..Len(k) PROVE k[i] = e \/ \E j \in 1..Len(s) : k[i] = s[j]
      <3>1. k[i] = a[Len(a) - EventBuffer + i] /\ Len(a) - EventBuffer + i \in 1..Len(a)
        BY <2>2
      <3> QED
        BY <1>1, <3>1
    <2> QED
      BY <1>2, <2>2, <2>3 DEF FromOrNew
  <1>4. CASE ~(Len(a) > EventBuffer)
    <2>1. k = a /\ Len(a) <= EventBuffer
      BY <1>1, <1>2, <1>4 DEF Kept
    <2> QED
      BY <1>1, <2>1 DEF FromOrNew
  <1> QED
    BY <1>3, <1>4

LEMMA StreamTypesInit == StreamInit => StreamTypes /\ StreamInv
  <1> SUFFICES ASSUME StreamInit PROVE StreamTypes /\ StreamInv
    OBVIOUS
  <1>1. <<>> \in Seq(Events) /\ <<>> \in Seq(Clients) /\ Len(<<>>) = 0 /\ 0 \in 0..MaxEvents
        /\ EventBuffer \in Nat /\ EventChannel \in Nat
    BY EventAssumption
  <1>2. Idle \in Doing
    BY <1>1 DEF Idle, Doing
  <1>3. StreamTypes
    BY <1>1, <1>2 DEF StreamInit, StreamTypes
  <1>4. Listed /\ Reached
    BY <1>1 DEF StreamInit, Listed, Reached, Connected
  <1>5. SenderCopies
    BY DEF StreamInit, SenderCopies, CopyOK, Idle
  <1> QED
    BY <1>3, <1>4, <1>5 DEF StreamInv

-----------------------------------------------------------------------------
(* Clients come and go.                                                     *)

\* A new client has the place after the others; what a sender walks over is
\* the same up to its end.
LEMMA ArrayGrows ==
    ASSUME StreamTypes, SenderCopies, NEW c \in Clients, AddClient(c)
    PROVE  /\ array' \in Seq(Clients) /\ count' = count + 1 /\ count' <= Len(array')
           /\ array'[count + 1] = c /\ \A k \in 1..count : array'[k] = array[k]
           /\ sender' \in [Senders -> Doing]
           /\ \A s \in Senders :
                 /\ sender'[s].at = sender[s].at /\ sender'[s].event = sender[s].event
                 /\ sender'[s].i = sender[s].i /\ sender'[s].n = sender[s].n
                 /\ sender'[s].shares => sender[s].shares
                 /\ sender[s].at = "send" => Len(Walked(s)') >= Len(Walked(s))
                 /\ sender[s].at = "send" /\ sender[s].event \notin raced =>
                       \A j \in 1..sender[s].n : Walked(s)'[j] = Walked(s)[j]
  <1>1. /\ array \in Seq(Clients) /\ count \in Nat /\ count <= Len(array) /\ Len(array) \in Nat
        /\ sender \in [Senders -> Doing] /\ count' = count + 1
    <2>1. /\ array \in Seq(Clients) /\ count \in Nat /\ count <= Len(array)
          /\ sender \in [Senders -> Doing] /\ count' = count + 1
      BY DEF StreamTypes, AddClient
    <2> QED
      BY <2>1
  <1>2. CASE count < Len(array)
    <2>1. array' = [array EXCEPT ![count + 1] = c] /\ sender' = sender
      BY <1>2 DEF AddClient
    <2>2. /\ array' \in Seq(Clients) /\ Len(array') = Len(array) /\ array'[count + 1] = c
          /\ \A k \in 1..count : array'[k] = array[k]
      BY <1>1, <1>2, <2>1
    <2>3. ASSUME NEW s \in Senders, sender[s].at = "send"
          PROVE  /\ Len(Walked(s)') >= Len(Walked(s))
                 /\ sender[s].event \notin raced =>
                       \A j \in 1..sender[s].n : Walked(s)'[j] = Walked(s)[j]
      <3>1. CASE sender[s].shares
        <4>1. Walked(s)' = array' /\ Walked(s) = array
          BY <2>1, <3>1 DEF Walked
        <4>2. sender[s].event \notin raced => sender[s].n <= count /\ sender[s].n \in Nat
          BY <1>1, <2>3, <3>1 DEF SenderCopies, CopyOK, Doing
        <4>3. sender[s].event \notin raced => \A j \in 1..sender[s].n : j \in 1..count
          BY <1>1, <4>2
        <4> QED
          BY <1>1, <2>2, <4>1, <4>3
      <3>2. CASE ~sender[s].shares
        <4>1. Walked(s)' = Walked(s) /\ Walked(s) \in Seq(Clients)
          BY <1>1, <2>1, <3>2 DEF Walked, Doing
        <4> QED
          BY <4>1
      <3> QED
        BY <3>1, <3>2
    <2> QED
      BY <1>1, <1>2, <2>1, <2>2, <2>3
  <1>3. CASE ~(count < Len(array))
    <2>1. /\ array' = Append(array, c)
          /\ sender' = [s \in Senders |->
                IF sender[s].shares THEN [sender[s] EXCEPT !.shares = FALSE, !.own = array]
                ELSE sender[s]]
      BY <1>3 DEF AddClient
    <2>2. /\ array' \in Seq(Clients) /\ Len(array') = count + 1 /\ array'[count + 1] = c
          /\ \A k \in 1..count : array'[k] = array[k]
      <3>1. array' = Append(array, c)
        BY <2>1
      <3>2. count = Len(array)
        BY <1>1, <1>3
      <3> QED
        BY <1>1, <3>1, <3>2, SeqParts
    <2>3. ASSUME NEW s \in Senders
          PROVE  /\ sender'[s] \in Doing /\ ~sender'[s].shares
                 /\ sender'[s].at = sender[s].at /\ sender'[s].event = sender[s].event
                 /\ sender'[s].i = sender[s].i /\ sender'[s].n = sender[s].n
                 /\ Walked(s)' = Walked(s) /\ Walked(s) \in Seq(Clients)
      <3>1. sender[s] \in Doing
        BY <1>1
      <3>2. CASE sender[s].shares
        <4>1. sender'[s] = [sender[s] EXCEPT !.shares = FALSE, !.own = array]
          BY <2>1, <3>2
        <4>2. array \in Seq(Clients)
          BY <1>1
        <4>3. sender'[s] \in Doing /\ ~sender'[s].shares /\ sender'[s].own = array
          BY <3>1, <4>1, <4>2 DEF Doing
        <4>4. /\ sender'[s].at = sender[s].at /\ sender'[s].event = sender[s].event
              /\ sender'[s].i = sender[s].i /\ sender'[s].n = sender[s].n
          BY <3>1, <4>1 DEF Doing
        <4>5. Walked(s)' = Walked(s) /\ Walked(s) \in Seq(Clients)
          BY <3>2, <4>2, <4>3 DEF Walked
        <4> QED
          BY <4>3, <4>4, <4>5
      <3>3. CASE ~sender[s].shares
        <4>1. sender'[s] = sender[s]
          BY <2>1, <3>3
        <4> QED
          BY <3>1, <3>3, <4>1 DEF Doing, Walked
      <3> QED
        BY <3>2, <3>3
    <2>4. sender' \in [Senders -> Doing]
      BY <2>1, <2>3
    <2> QED
      BY <1>1, <2>2, <2>3, <2>4
  <1> QED
    BY <1>2, <1>3

LEMMA AddKeeps ==
    ASSUME StreamTypes, StreamInv, NEW c \in Clients, AddClient(c)
    PROVE  StreamTypes' /\ StreamInv'
  <1>1. /\ cpc[c] = "away" /\ cpc' = [cpc EXCEPT ![c] = "registered"]
        /\ UNCHANGED <<eventCount, sseBuffer, channel, got, dropped, raced>>
        /\ count \in Nat
    BY DEF StreamTypes, AddClient
  <1>2. /\ array' \in Seq(Clients) /\ count' = count + 1 /\ count' <= Len(array')
        /\ array'[count + 1] = c /\ \A k \in 1..count : array'[k] = array[k]
        /\ sender' \in [Senders -> Doing]
    BY ArrayGrows DEF StreamInv
  <1>3. \A s \in Senders :
                 /\ sender'[s].at = sender[s].at /\ sender'[s].event = sender[s].event
                 /\ sender'[s].i = sender[s].i /\ sender'[s].n = sender[s].n
                 /\ sender'[s].shares => sender[s].shares
                 /\ sender[s].at = "send" => Len(Walked(s)') >= Len(Walked(s))
                 /\ sender[s].at = "send" /\ sender[s].event \notin raced =>
                       \A j \in 1..sender[s].n : Walked(s)'[j] = Walked(s)[j]
    BY ArrayGrows DEF StreamInv
  <1>4. StreamTypes'
    BY <1>1, <1>2 DEF StreamTypes
  <1>5. Listed'
    <2>1. Connected' = Connected \cup {c} /\ c \notin Connected
      BY <1>1 DEF Connected, StreamTypes
    <2>2. \A k \in 1..count + 1 : k \in 1..count \/ k = count + 1
      BY <1>1
    <2>3. \A k \in 1..count : k \in 1..count + 1
      BY <1>1
    <2>4. count + 1 \in 1..count + 1
      BY <1>1
    <2>5. Listed
      BY DEF StreamInv
    <2>6. \A k \in 1..count' : array'[k] \in Connected'
      BY <1>2, <2>1, <2>2, <2>5 DEF Listed
    <2>7. ASSUME NEW e \in Connected' PROVE \E k \in 1..count' : array'[k] = e
      <3>1. CASE e = c
        BY <1>2, <2>4, <3>1
      <3>2. CASE e \in Connected
        <4>1. PICK k \in 1..count : array[k] = e
          BY <2>5, <3>2 DEF Listed
        <4> QED
          BY <1>2, <2>3, <4>1
      <3> QED
        BY <2>1, <2>7, <3>1, <3>2
    <2>8. ASSUME NEW j \in 1..count', NEW k \in 1..count', array'[j] = array'[k] PROVE j = k
      <3>1. CASE j = count + 1 /\ k \in 1..count
        BY <1>2, <2>1, <2>5, <2>8, <3>1 DEF Listed
      <3>2. CASE k = count + 1 /\ j \in 1..count
        BY <1>2, <2>1, <2>5, <2>8, <3>2 DEF Listed
      <3>3. CASE j \in 1..count /\ k \in 1..count
        BY <1>2, <2>5, <2>8, <3>3 DEF Listed
      <3> QED
        BY <1>2, <2>2, <3>1, <3>2, <3>3
    <2> QED
      BY <2>6, <2>7, <2>8 DEF Listed
  <1>6. SenderCopies'
    <2> SUFFICES ASSUME NEW s \in Senders PROVE CopyOK(s)'
      BY DEF SenderCopies
    <2>1. /\ sender[s].at # "idle" => sender[s].event \in 1..eventCount
          /\ sender[s].at = "send" =>
              /\ sender[s].i >= 1 /\ sender[s].n <= Len(Walked(s))
              /\ sender[s].shares /\ sender[s].event \notin raced => sender[s].n <= count
      BY DEF StreamInv, SenderCopies, CopyOK
    <2>2. sender[s].n \in Nat
      BY DEF StreamTypes, Doing
    <2>3. sender[s].at = "send" => Len(Walked(s)) \in Nat /\ Len(Walked(s)') \in Nat
      <3>1. Walked(s) \in Seq(Clients)
        BY DEF StreamTypes, Doing, Walked
      <3>2. Walked(s)' \in Seq(Clients)
        BY <1>2 DEF Doing, Walked
      <3> QED
        BY <3>1, <3>2
    <2> QED
      BY <1>1, <1>2, <1>3, <2>1, <2>2, <2>3 DEF CopyOK
  <1>7. Reached'
    <2> SUFFICES ASSUME NEW e \in Clients, cpc'[e] = "streaming", NEW k \in 1..Len(sseBuffer)
                 PROVE  \/ Has(e, sseBuffer[k])' \/ sseBuffer[k] \in raced
                        \/ \E s \in Senders : sender'[s].event = sseBuffer[k] /\ Comes(s, e)'
      BY <1>1 DEF Reached
    <2>1. cpc[e] = "streaming"
      BY <1>1 DEF StreamTypes
    <2>2. CASE Has(e, sseBuffer[k]) \/ sseBuffer[k] \in raced
      BY <1>1, <2>2 DEF Has, InChannel
    <2>3. CASE /\ sseBuffer[k] \notin raced
               /\ \E s \in Senders : sender[s].event = sseBuffer[k] /\ Comes(s, e)
      <3>1. PICK s \in Senders : sender[s].event = sseBuffer[k] /\ Comes(s, e)
        BY <2>3
      <3>2. CASE sender[s].at = "listing"
        BY <1>3, <3>1, <3>2 DEF Comes
      <3>3. CASE sender[s].at = "send"
        <4>1. PICK j \in sender[s].i..sender[s].n : Walked(s)[j] = e
          BY <3>1, <3>3 DEF Comes
        <4>2. j \in 1..sender[s].n
          BY <3>3 DEF StreamInv, SenderCopies, CopyOK, StreamTypes, Doing
        <4>3. Walked(s)'[j] = e
          BY <1>3, <2>3, <3>1, <3>3, <4>1, <4>2
        <4> QED
          BY <1>3, <3>1, <3>3, <4>3 DEF Comes
      <3> QED
        BY <3>1, <3>2, <3>3 DEF Comes
    <2> QED
      BY <2>1, <2>2, <2>3 DEF StreamInv, Reached
  <1> QED
    BY <1>4, <1>5, <1>6, <1>7 DEF StreamInv

\* The others move down into the place of the one that leaves.
LEMMA ArrayCut ==
    ASSUME StreamTypes, NEW k \in 1..count,
           array' = [j \in DOMAIN array |->
                        IF j \in k..(count - 1) THEN array[j + 1] ELSE array[j]]
    PROVE  /\ array' \in Seq(Clients) /\ Len(array') = Len(array)
           /\ \A j \in 1..count - 1 : array'[j] = (IF j >= k THEN array[j + 1] ELSE array[j])
  <1>1. array \in Seq(Clients) /\ count \in Nat /\ count <= Len(array)
    BY DEF StreamTypes
  <1>2. Len(array) \in Nat /\ DOMAIN array = 1..Len(array)
        /\ \A j \in 1..Len(array) : array[j] \in Clients
    BY <1>1
  <1>3. \A j \in k..(count - 1) : j + 1 \in 1..Len(array)
    BY <1>1, <1>2
  <1>4. array' \in [1..Len(array) -> Clients]
    BY <1>2, <1>3
  <1>5. array' \in Seq(Clients) /\ Len(array') = Len(array)
    BY <1>2, <1>4
  <1>6. ASSUME NEW j \in 1..count - 1
        PROVE  array'[j] = (IF j >= k THEN array[j + 1] ELSE array[j])
    <2>1. j \in DOMAIN array /\ (j \in k..(count - 1) <=> j >= k)
      BY <1>1, <1>2
    <2> QED
      BY <2>1
  <1> QED
    BY <1>5, <1>6

LEMMA RemoveKeeps ==
    ASSUME StreamTypes, StreamInv, NEW c \in Clients, RemoveClient(c)
    PROVE  StreamTypes' /\ StreamInv'
  <1>1. /\ cpc[c] \in {"registered", "streaming"} /\ cpc' = [cpc EXCEPT ![c] = "gone"]
        /\ channel' = [channel EXCEPT ![c] = <<>>] /\ got' = [got EXCEPT ![c] = {}]
        /\ raced' = raced \cup {sender[s].event : s \in {t \in Senders : sender[t].at = "send"}}
        /\ count' = count - 1 /\ UNCHANGED <<eventCount, sseBuffer, sender, dropped>>
        /\ count \in Nat
    BY DEF StreamTypes, RemoveClient
  <1>2. PICK k \in 1..count :
            /\ array[k] = c
            /\ array' = [j \in DOMAIN array |->
                            IF j \in k..(count - 1) THEN array[j + 1] ELSE array[j]]
    BY DEF RemoveClient
  <1>3. /\ array' \in Seq(Clients) /\ Len(array') = Len(array)
        /\ \A j \in 1..count - 1 : array'[j] = (IF j >= k THEN array[j + 1] ELSE array[j])
    BY <1>2, ArrayCut
  <1>4. StreamTypes'
    <2>1. channel' \in [Clients -> Seq(Events)] /\ got' \in [Clients -> SUBSET Events]
          /\ cpc' \in [Clients -> {"away", "registered", "streaming", "gone"}]
      BY <1>1 DEF StreamTypes
    <2>2. \A e \in Clients : Len(channel'[e]) <= EventChannel
      <3>1. Len(<<>>) = 0 /\ EventChannel >= 0
        BY EventAssumption
      <3> QED
        BY <1>1, <3>1 DEF StreamTypes
    <2>3. count' \in Nat /\ count' <= Len(array')
      <3>1. count - 1 \in Nat /\ count <= Len(array)
        BY <1>1, <1>2 DEF StreamTypes
      <3>2. Len(array) \in Nat
        BY DEF StreamTypes
      <3> QED
        BY <1>1, <1>3, <3>1, <3>2
    <2> QED
      BY <1>1, <1>3, <2>1, <2>2, <2>3 DEF StreamTypes
  <1>5. Listed'
    <2>1. Connected' = Connected \ {c} /\ c \in Connected
      BY <1>1 DEF Connected, StreamTypes
    <2>2. Listed
      BY DEF StreamInv
    <2>3. ASSUME NEW j \in 1..count - 1
          PROVE  \E i \in 1..count : /\ array'[j] = array[i] /\ i # k
                                     /\ (j >= k /\ i = j + 1) \/ (j < k /\ i = j)
      <3>1. CASE j >= k
        <4>1. array'[j] = array[j + 1] /\ j + 1 \in 1..count /\ j + 1 # k
          BY <1>1, <1>3, <2>3, <3>1
        <4> QED
          BY <3>1, <4>1
      <3>2. CASE ~(j >= k)
        <4>1. array'[j] = array[j] /\ j \in 1..count /\ j # k /\ j < k
          BY <1>1, <1>3, <2>3, <3>2
        <4> QED
          BY <4>1
      <3> QED
        BY <3>1, <3>2
    <2>4. ASSUME NEW j \in 1..count' PROVE array'[j] \in Connected'
      <3>1. j \in 1..count - 1
        BY <1>1
      <3>2. PICK i \in 1..count : array'[j] = array[i] /\ i # k
        BY <2>3, <3>1
      <3> QED
        BY <1>2, <2>1, <2>2, <3>2 DEF Listed
    <2>5. ASSUME NEW e \in Connected' PROVE \E j \in 1..count' : array'[j] = e
      <3>1. PICK i \in 1..count : array[i] = e
        BY <2>1, <2>2 DEF Listed
      <3>2. i # k
        BY <1>2, <2>1, <3>1
      <3>3. CASE i < k
        <4>1. i \in 1..count - 1 /\ ~(i >= k)
          BY <1>1, <3>3
        <4> QED
          BY <1>1, <1>3, <3>1, <4>1
      <3>4. CASE i > k
        <4>1. i - 1 \in 1..count - 1 /\ i - 1 >= k /\ (i - 1) + 1 = i
          BY <1>1, <3>4
        <4> QED
          BY <1>1, <1>3, <3>1, <4>1
      <3> QED
        BY <3>2, <3>3, <3>4
    <2>6. ASSUME NEW j1 \in 1..count', NEW j2 \in 1..count', array'[j1] = array'[j2]
          PROVE  j1 = j2
      <3>1. j1 \in 1..count - 1 /\ j2 \in 1..count - 1
        BY <1>1
      <3>2. PICK i1 \in 1..count : /\ array'[j1] = array[i1] /\ i1 # k
                                   /\ (j1 >= k /\ i1 = j1 + 1) \/ (j1 < k /\ i1 = j1)
        BY <2>3, <3>1
      <3>3. PICK i2 \in 1..count : /\ array'[j2] = array[i2] /\ i2 # k
                                   /\ (j2 >= k /\ i2 = j2 + 1) \/ (j2 < k /\ i2 = j2)
        BY <2>3, <3>1
      <3>4. i1 = i2
        BY <2>2, <2>6, <3>2, <3>3 DEF Listed
      <3> QED
        BY <3>1, <3>2, <3>3, <3>4
    <2> QED
      BY <2>4, <2>5, <2>6 DEF Listed
  <1>6. SenderCopies'
    <2> SUFFICES ASSUME NEW s \in Senders
                 PROVE  /\ sender[s].at # "idle" => sender[s].event \in 1..eventCount
                        /\ sender[s].at = "send" =>
                              /\ sender[s].i >= 1 /\ sender[s].n <= Len(Walked(s)')
                              /\ sender[s].event \in raced'
      BY <1>1 DEF SenderCopies, CopyOK
    <2>1. Len(Walked(s)') = Len(Walked(s))
      BY <1>1, <1>3 DEF Walked
    <2> QED
      BY <1>1, <2>1 DEF StreamInv, SenderCopies, CopyOK
  <1>7. Reached'
    <2> SUFFICES ASSUME NEW e \in Clients, cpc'[e] = "streaming", NEW n \in 1..Len(sseBuffer)
                 PROVE  \/ Has(e, sseBuffer[n])' \/ sseBuffer[n] \in raced'
                        \/ \E s \in Senders : sender[s].event = sseBuffer[n] /\ Comes(s, e)'
      BY <1>1 DEF Reached
    <2>1. cpc[e] = "streaming" /\ e # c
      BY <1>1 DEF StreamTypes
    <2>2. Has(e, sseBuffer[n])' <=> Has(e, sseBuffer[n])
      BY <1>1, <2>1 DEF Has, InChannel, StreamTypes
    <2>3. ASSUME NEW s \in Senders, sender[s].event = sseBuffer[n], Comes(s, e)
          PROVE  sseBuffer[n] \in raced' \/ Comes(s, e)'
      BY <1>1, <2>3 DEF Comes
    <2> QED
      BY <1>1, <2>1, <2>2, <2>3 DEF StreamInv, Reached
  <1> QED
    BY <1>4, <1>5, <1>6, <1>7 DEF StreamInv

\* What a client has, it keeps; so what it has or gets is kept up by a step in
\* which the senders stand still.
LEMMA StillReached ==
    ASSUME StreamInv, UNCHANGED <<eventCount, sseBuffer, array, count, sender, raced>>,
           NEW c \in Clients, cpc'[c] = "streaming",
           \A k \in 1..Len(sseBuffer) :
              Has(c, sseBuffer[k])' \/ (cpc[c] = "streaming" /\ ~Has(c, sseBuffer[k]))
    PROVE  \A k \in 1..Len(sseBuffer) :
              \/ Has(c, sseBuffer[k])' \/ sseBuffer[k] \in raced
              \/ \E s \in Senders : sender'[s].event = sseBuffer[k] /\ Comes(s, c)'
  BY DEF StreamInv, Reached, Comes, Walked

LEMMA ReplayKeeps ==
    ASSUME StreamTypes, StreamInv, NEW c \in Clients, Replay(c)
    PROVE  StreamTypes' /\ StreamInv'
  <1>1. /\ cpc[c] = "registered" /\ cpc' = [cpc EXCEPT ![c] = "streaming"]
        /\ got' = [got EXCEPT ![c] = @ \cup {sseBuffer[k] : k \in 1..Len(sseBuffer)}]
        /\ UNCHANGED <<eventCount, sseBuffer, array, count, sender, raced>>
        /\ UNCHANGED <<channel, dropped>>
    BY DEF Replay
  <1>2. StreamTypes'
    <2>1. \A k \in 1..Len(sseBuffer) : sseBuffer[k] \in Events
      <3>1. sseBuffer \in Seq(Events)
        BY DEF StreamTypes
      <3> QED
        BY <3>1
    <2>2. got' \in [Clients -> SUBSET Events]
      BY <1>1, <2>1 DEF StreamTypes
    <2> QED
      BY <1>1, <2>2 DEF StreamTypes
  <1>3. Connected' = Connected
    BY <1>1 DEF Connected, StreamTypes
  <1>4. Listed' /\ SenderCopies'
    BY <1>1, <1>3 DEF StreamInv, Listed, SenderCopies, CopyOK, Walked
  <1>5. ASSUME NEW e \in Clients, cpc'[e] = "streaming", NEW k \in 1..Len(sseBuffer)
        PROVE  Has(e, sseBuffer[k])' \/ (cpc[e] = "streaming" /\ ~Has(e, sseBuffer[k]))
    <2>1. CASE e = c
      <3>1. sseBuffer[k] \in got'[c]
        BY <1>1 DEF StreamTypes
      <3> QED
        BY <1>1, <2>1, <3>1 DEF Has
    <2>2. CASE e # c
      BY <1>1, <1>5, <2>2 DEF Has, InChannel, StreamTypes
    <2> QED
      BY <2>1, <2>2
  <1>6. Reached'
    BY <1>1, <1>5, StillReached DEF Reached
  <1> QED
    BY <1>2, <1>4, <1>6 DEF StreamInv

LEMMA ForwardKeeps ==
    ASSUME StreamTypes, StreamInv, NEW c \in Clients, Forward(c)
    PROVE  StreamTypes' /\ StreamInv'
  <1>1. /\ cpc' = cpc /\ channel[c] # <<>>
        /\ got' = [got EXCEPT ![c] = @ \cup {Head(channel[c])}]
        /\ channel' = [channel EXCEPT ![c] = Tail(@)]
        /\ UNCHANGED <<eventCount, sseBuffer, array, count, sender, raced>>
        /\ UNCHANGED dropped
    BY DEF Forward
  <1>2. /\ channel[c] \in Seq(Events) /\ Head(channel[c]) \in Events
        /\ Tail(channel[c]) \in Seq(Events) /\ Len(Tail(channel[c])) = Len(channel[c]) - 1
        /\ Head(channel[c]) = channel[c][1] /\ Len(channel[c]) \in Nat
        /\ \A k \in 1..Len(channel[c]) - 1 : Tail(channel[c])[k] = channel[c][k + 1]
    <2>1. channel[c] \in Seq(Events)
      BY DEF StreamTypes
    <2> QED
      BY <1>1, <2>1, SeqParts
  <1>3. channel'[c] = Tail(channel[c]) /\ got'[c] = got[c] \cup {Head(channel[c])}
        /\ \A e \in Clients \ {c} : channel'[e] = channel[e] /\ got'[e] = got[e]
    BY <1>1 DEF StreamTypes
  <1>4. StreamTypes'
    <2>1. channel' \in [Clients -> Seq(Events)] /\ got' \in [Clients -> SUBSET Events]
      BY <1>1, <1>2 DEF StreamTypes
    <2>2. ASSUME NEW e \in Clients PROVE Len(channel'[e]) <= EventChannel
      <3>1. Len(channel[e]) <= EventChannel /\ EventChannel \in Nat
        BY EventAssumption DEF StreamTypes
      <3>2. CASE e = c
        <4>1. channel'[e] = Tail(channel[c])
          BY <1>3, <3>2
        <4> QED
          BY <1>2, <3>1, <3>2, <4>1
      <3>3. CASE e # c
        BY <1>3, <3>1, <3>3
      <3> QED
        BY <3>2, <3>3
    <2> QED
      BY <1>1, <2>1, <2>2 DEF StreamTypes
  <1>5. Listed' /\ SenderCopies'
    BY <1>1 DEF StreamInv, Listed, SenderCopies, CopyOK, Walked, Connected
  <1>6. ASSUME NEW e \in Clients, NEW x, Has(e, x) PROVE Has(e, x)'
    <2>1. CASE e # c
      BY <1>1, <1>3, <1>6, <2>1 DEF Has, InChannel
    <2>2. CASE e = c /\ x \in InChannel(c)
      <3>1. PICK k \in 1..Len(channel[c]) : x = channel[c][k]
        BY <2>2 DEF InChannel
      <3>2. CASE k = 1
        BY <1>2, <1>3, <2>2, <3>1, <3>2 DEF Has
      <3>3. CASE k # 1
        <4>1. k - 1 \in 1..Len(channel[c]) - 1 /\ (k - 1) + 1 = k
          BY <1>2, <3>3
        <4>2. x = channel'[c][k - 1] /\ k - 1 \in 1..Len(channel'[c])
          BY <1>2, <1>3, <3>1, <4>1
        <4> QED
          BY <2>2, <4>2 DEF Has, InChannel
      <3> QED
        BY <3>2, <3>3
    <2>3. CASE e = c /\ x \in got[c] \cup dropped[c]
      BY <1>1, <1>3, <2>3 DEF Has
    <2> QED
      BY <1>6, <2>1, <2>2, <2>3 DEF Has
  <1>7. ASSUME NEW e \in Clients, cpc'[e] = "streaming", NEW k \in 1..Len(sseBuffer)
        PROVE  Has(e, sseBuffer[k])' \/ (cpc[e] = "streaming" /\ ~Has(e, sseBuffer[k]))
    <2>1. PICK x : x = sseBuffer[k]
      OBVIOUS
    <2>2. Has(e, x) => Has(e, x)'
      BY <1>6
    <2> QED
      BY <1>1, <1>7, <2>1, <2>2 DEF Has
  <1>8. Reached'
    BY <1>1, <1>7, StillReached DEF Reached
  <1> QED
    BY <1>4, <1>5, <1>8 DEF StreamInv

-----------------------------------------------------------------------------
(* A broadcast.                                                             *)

LEMMA CopyKept ==
    ASSUME NEW s \in Senders, CopyOK(s), sender'[s] = sender[s], Walked(s)' = Walked(s),
           UNCHANGED <<count, raced>>, 1..eventCount \subseteq 1..eventCount'
    PROVE  CopyOK(s)'
  BY DEF CopyOK

\* A step of the senders that leaves out no client.
LEMMA ComesKept ==
    ASSUME Reached, UNCHANGED <<cpc, channel, got, dropped, raced>>, UNCHANGED sseBuffer,
           \A c \in Clients, s \in Senders : cpc[c] = "streaming" /\ Comes(s, c) =>
                Comes(s, c)' /\ sender'[s].event = sender[s].event
    PROVE  Reached'
  BY DEF Reached, Has, InChannel

LEMMA EventBroadcastKeeps ==
    ASSUME StreamTypes, StreamInv, NEW s \in Senders, BroadcastEvent(s)
    PROVE  StreamTypes' /\ StreamInv'
  <1>1. /\ sender[s].at = "idle" /\ eventCount < MaxEvents /\ eventCount' = eventCount + 1
        /\ sender' = [sender EXCEPT ![s].at = "listing", ![s].event = eventCount + 1]
        /\ UNCHANGED <<array, count, cpc, channel, got, dropped, raced>>
    BY DEF BroadcastEvent
  <1>2. /\ eventCount \in Nat /\ MaxEvents \in Nat /\ eventCount + 1 \in Events
        /\ eventCount' \in 0..MaxEvents
    BY <1>1, EventAssumption DEF StreamTypes, Events
  <1>3. /\ sender'[s] \in Doing /\ sender'[s].at = "listing"
        /\ sender'[s].event = eventCount + 1
        /\ \A t \in Senders \ {s} : sender'[t] = sender[t] /\ Walked(t)' = Walked(t)
        /\ sender' \in [Senders -> Doing]
    <2>1. sender[s] \in Doing /\ eventCount + 1 \in 0..MaxEvents
      BY <1>2 DEF StreamTypes, Events
    <2>2. sender'[s] = [sender[s] EXCEPT !.at = "listing", !.event = eventCount + 1]
      BY <1>1 DEF StreamTypes
    <2>3. \A t \in Senders \ {s} : sender'[t] = sender[t] /\ Walked(t)' = Walked(t)
      BY <1>1 DEF StreamTypes, Walked
    <2>4. /\ sender'[s] \in Doing /\ sender'[s].at = "listing"
          /\ sender'[s].event = eventCount + 1
      BY <2>1, <2>2 DEF Doing
    <2>5. sender' \in [Senders -> Doing]
      BY <1>1, <2>2, <2>4 DEF StreamTypes
    <2> QED
      BY <2>3, <2>4, <2>5
  <1>4. /\ sseBuffer' \in Seq(Events) /\ Len(sseBuffer') <= EventBuffer
        /\ \A k \in 1..Len(sseBuffer') : \/ sseBuffer'[k] = eventCount + 1
                                         \/ \E j \in 1..Len(sseBuffer) :
                                                sseBuffer'[k] = sseBuffer[j]
    <2>1. sseBuffer \in Seq(Events) /\ Len(sseBuffer) <= EventBuffer
      BY DEF StreamTypes
    <2>2. CASE eventCount + 1 \in Lifecycle
      <3>1. sseBuffer' = Kept(Append(sseBuffer, eventCount + 1))
        BY <2>2 DEF BroadcastEvent
      <3>2. eventCount + 1 \in Events
        BY <1>2
      <3>3. /\ sseBuffer' \in Seq(Events) /\ Len(sseBuffer') <= EventBuffer
            /\ FromOrNew(sseBuffer', sseBuffer, eventCount + 1)
        BY <2>1, <3>1, <3>2, KeptParts
      <3> QED
        BY <3>3 DEF FromOrNew
    <2>3. CASE eventCount + 1 \notin Lifecycle
      BY <2>1, <2>3 DEF BroadcastEvent
    <2> QED
      BY <2>2, <2>3
  <1>5. StreamTypes'
    BY <1>1, <1>2, <1>3, <1>4 DEF StreamTypes
  <1>6. Listed'
    BY <1>1 DEF StreamInv, Listed, Connected
  <1>7. SenderCopies'
    <2> SUFFICES ASSUME NEW t \in Senders PROVE CopyOK(t)'
      BY DEF SenderCopies
    <2>1. CASE t = s
      BY <1>1, <1>2, <1>3, <2>1 DEF CopyOK, Events
    <2>2. CASE t # s
      <3>1. sender'[t] = sender[t] /\ Walked(t)' = Walked(t)
        BY <1>3, <2>2
      <3>2. 1..eventCount \subseteq 1..eventCount'
        BY <1>1, <1>2
      <3> QED
        BY <1>1, <3>1, <3>2, CopyKept DEF StreamInv, SenderCopies
    <2> QED
      BY <2>1, <2>2
  <1>8. Reached'
    <2> SUFFICES ASSUME NEW c \in Clients, cpc[c] = "streaming", NEW k \in 1..Len(sseBuffer')
                 PROVE  \/ Has(c, sseBuffer'[k]) \/ sseBuffer'[k] \in raced
                        \/ \E t \in Senders : sender'[t].event = sseBuffer'[k] /\ Comes(t, c)'
      BY <1>1, ZenonT(60) DEF Reached, Has, InChannel
    <2>1. CASE sseBuffer'[k] = eventCount + 1
      <3>1. sender'[s].event = sseBuffer'[k] /\ Comes(s, c)'
        BY <1>3, <2>1 DEF Comes
      <3> QED
        BY <3>1
    <2>2. ASSUME NEW j \in 1..Len(sseBuffer), sseBuffer'[k] = sseBuffer[j]
          PROVE  \/ Has(c, sseBuffer'[k]) \/ sseBuffer'[k] \in raced
                 \/ \E t \in Senders : sender'[t].event = sseBuffer'[k] /\ Comes(t, c)'
      <3>1. ASSUME NEW t \in Senders, sender[t].event = sseBuffer[j], Comes(t, c)
            PROVE  sender'[t].event = sseBuffer'[k] /\ Comes(t, c)'
        <4>1. t # s
          BY <1>1, <3>1 DEF Comes
        <4> QED
          BY <1>3, <2>2, <3>1, <4>1 DEF Comes
      <3> QED
        BY <2>2, <3>1 DEF StreamInv, Reached
    <2>3. \/ sseBuffer'[k] = eventCount + 1
          \/ \E j \in 1..Len(sseBuffer) : sseBuffer'[k] = sseBuffer[j]
      BY <1>4
    <2> QED
      BY <2>1, <2>2, <2>3
  <1> QED
    BY <1>5, <1>6, <1>7, <1>8 DEF StreamInv

LEMMA ListKeeps ==
    ASSUME StreamTypes, StreamInv, NEW s \in Senders, ListClients(s)
    PROVE  StreamTypes' /\ StreamInv'
  <1>1. /\ sender[s].at = "listing"
        /\ sender' = [sender EXCEPT ![s].at = "send", ![s].i = 1, ![s].n = count,
                                    ![s].shares = TRUE, ![s].own = <<>>]
        /\ UNCHANGED <<eventCount, sseBuffer, array, count, cpc, channel, got, dropped, raced>>
        /\ count \in Nat /\ count <= Len(array)
    BY DEF ListClients, StreamTypes
  <1>2. /\ sender'[s] \in Doing /\ sender'[s].at = "send" /\ sender'[s].i = 1
        /\ sender'[s].n = count /\ sender'[s].shares /\ sender'[s].event = sender[s].event
        /\ Walked(s)' = array
        /\ \A t \in Senders \ {s} : sender'[t] = sender[t] /\ Walked(t)' = Walked(t)
        /\ sender' \in [Senders -> Doing]
    <2>1. sender[s] \in Doing /\ <<>> \in Seq(Clients)
      BY DEF StreamTypes
    <2>2. sender'[s] = [sender[s] EXCEPT !.at = "send", !.i = 1, !.n = count,
                                         !.shares = TRUE, !.own = <<>>]
      BY <1>1 DEF StreamTypes
    <2>3. \A t \in Senders \ {s} : sender'[t] = sender[t] /\ Walked(t)' = Walked(t)
      BY <1>1 DEF StreamTypes, Walked
    <2>4. /\ sender'[s] \in Doing /\ sender'[s].at = "send" /\ sender'[s].i = 1
          /\ sender'[s].n = count /\ sender'[s].shares /\ sender'[s].event = sender[s].event
      <3>1. /\ sender'[s].at = "send" /\ sender'[s].i = 1 /\ sender'[s].n = count
            /\ sender'[s].shares = TRUE /\ sender'[s].event = sender[s].event
            /\ sender'[s].own = <<>>
        BY <2>1, <2>2 DEF Doing
      <3>2. sender'[s] = [at |-> "send", event |-> sender[s].event, i |-> 1, n |-> count,
                          shares |-> TRUE, own |-> <<>>]
        BY <2>1, <2>2 DEF Doing
      <3>3. sender'[s] \in Doing
        <4>1. sender[s].event \in 0..MaxEvents
          BY <2>1 DEF Doing
        <4>2. PICK own \in Seq(Clients) : own = <<>>
          BY <2>1
        <4>3. [at |-> "send", event |-> sender[s].event, i |-> 1, n |-> count,
               shares |-> TRUE, own |-> own] \in Doing
          BY <1>1, <4>1 DEF Doing
        <4> QED
          BY <3>2, <4>2, <4>3
      <3> QED
        BY <3>1, <3>3
    <2>5. sender' \in [Senders -> Doing]
      BY <1>1, <2>2, <2>4 DEF StreamTypes
    <2>6. Walked(s)' = array
      BY <1>1, <2>4 DEF Walked
    <2> QED
      BY <2>3, <2>4, <2>5, <2>6
  <1>3. StreamTypes'
    BY <1>1, <1>2 DEF StreamTypes
  <1>4. Listed'
    BY <1>1 DEF StreamInv, Listed, Connected
  <1>5. SenderCopies'
    <2> SUFFICES ASSUME NEW t \in Senders PROVE CopyOK(t)'
      BY DEF SenderCopies
    <2>1. CASE t = s
      <3>1. CopyOK(s)
        BY DEF StreamInv, SenderCopies
      <3> QED
        BY <1>1, <1>2, <2>1, <3>1 DEF CopyOK
    <2>2. CASE t # s
      <3>1. sender'[t] = sender[t] /\ Walked(t)' = Walked(t)
        BY <1>2, <2>2
      <3> QED
        BY <1>1, <3>1, CopyKept DEF StreamInv, SenderCopies
    <2> QED
      BY <2>1, <2>2
  <1>6. ASSUME NEW c \in Clients, NEW t \in Senders, cpc[c] = "streaming", Comes(t, c)
        PROVE  Comes(t, c)' /\ sender'[t].event = sender[t].event
    <2>1. CASE t = s
      <3>1. PICK j \in 1..count : array[j] = c
        BY <1>6 DEF StreamInv, Listed, Connected
      <3>2. j \in sender'[s].i..sender'[s].n
        BY <1>2
      <3> QED
        BY <1>2, <2>1, <3>1, <3>2 DEF Comes
    <2>2. CASE t # s
      BY <1>2, <1>6, <2>2 DEF Comes
    <2> QED
      BY <2>1, <2>2
  <1>7. Reached'
    BY <1>1, <1>6, ComesKept DEF StreamInv
  <1> QED
    BY <1>3, <1>4, <1>5, <1>7 DEF StreamInv

LEMMA BroadcastEndKeeps ==
    ASSUME StreamTypes, StreamInv, NEW s \in Senders, BroadcastEnds(s)
    PROVE  StreamTypes' /\ StreamInv'
  <1>1. /\ sender[s].at = "send" /\ sender[s].i > sender[s].n
        /\ sender' = [sender EXCEPT ![s] = Idle]
        /\ UNCHANGED <<eventCount, sseBuffer, array, count, cpc, channel, got, dropped, raced>>
    BY DEF BroadcastEnds
  <1>2. /\ sender'[s].at = "idle" /\ sender' \in [Senders -> Doing]
        /\ \A t \in Senders \ {s} : sender'[t] = sender[t] /\ Walked(t)' = Walked(t)
    <2>1. Idle \in Doing /\ Idle.at = "idle"
      BY EventAssumption DEF Idle, Doing
    <2> QED
      BY <1>1, <2>1 DEF StreamTypes, Walked
  <1>3. StreamTypes'
    BY <1>1, <1>2 DEF StreamTypes
  <1>4. Listed'
    BY <1>1 DEF StreamInv, Listed, Connected
  <1>5. SenderCopies'
    <2> SUFFICES ASSUME NEW t \in Senders PROVE CopyOK(t)'
      BY DEF SenderCopies
    <2>1. CASE t # s
      <3>1. sender'[t] = sender[t] /\ Walked(t)' = Walked(t)
        BY <1>2, <2>1
      <3> QED
        BY <1>1, <3>1, CopyKept DEF StreamInv, SenderCopies
    <2>2. CASE t = s
      BY <1>2, <2>2 DEF CopyOK
    <2> QED
      BY <2>1, <2>2
  <1>6. ASSUME NEW c \in Clients, NEW t \in Senders, cpc[c] = "streaming", Comes(t, c)
        PROVE  Comes(t, c)' /\ sender'[t].event = sender[t].event
    <2>1. t # s
      BY <1>1, <1>6 DEF Comes, StreamTypes, Doing
    <2> QED
      BY <1>2, <1>6, <2>1 DEF Comes
  <1>7. Reached'
    BY <1>1, <1>6, ComesKept DEF StreamInv
  <1> QED
    BY <1>3, <1>4, <1>5, <1>7 DEF StreamInv

LEMMA SendKeeps ==
    ASSUME StreamTypes, StreamInv, NEW s \in Senders, SendEvent(s)
    PROVE  StreamTypes' /\ StreamInv'
  <1>1. PICK c, e : c = Walked(s)[sender[s].i] /\ e = sender[s].event
    OBVIOUS
  <1>2. /\ sender[s].at = "send" /\ sender[s].i <= sender[s].n
        /\ sender' = [sender EXCEPT ![s].i = @ + 1]
        /\ UNCHANGED <<eventCount, sseBuffer, array, count, cpc, got, raced>>
        /\ sender[s] \in Doing /\ CopyOK(s)
    BY DEF SendEvent, StreamTypes, StreamInv, SenderCopies
  <1>3. /\ sender[s].i \in Nat /\ sender[s].n \in Nat /\ Len(Walked(s)) \in Nat
        /\ Walked(s) \in Seq(Clients)
    <2>1. Walked(s) \in Seq(Clients)
      BY <1>2 DEF StreamTypes, Walked, Doing
    <2> QED
      BY <1>2, <2>1 DEF Doing
  <1>4. c \in Clients /\ e \in Events
    <2>1. sender[s].i \in 1..Len(Walked(s))
      BY <1>2, <1>3 DEF CopyOK
    <2>2. c \in Clients
      BY <1>1, <1>3, <2>1
    <2>3. e \in 1..eventCount /\ eventCount \in 0..MaxEvents /\ MaxEvents \in Nat
      BY <1>1, <1>2, EventAssumption DEF CopyOK, StreamTypes
    <2> QED
      BY <2>2, <2>3 DEF Events
  <1>5. \/ cpc[c] = "gone" /\ UNCHANGED <<channel, dropped>>
        \/ /\ cpc[c] # "gone" /\ Len(channel[c]) < EventChannel
           /\ channel' = [channel EXCEPT ![c] = Append(@, e)] /\ UNCHANGED dropped
        \/ /\ cpc[c] # "gone" /\ dropped' = [dropped EXCEPT ![c] = @ \cup {e}]
           /\ UNCHANGED channel
    BY <1>1 DEF SendEvent, Walked
  <1>6. /\ channel[c] \in Seq(Events) /\ Append(channel[c], e) \in Seq(Events)
        /\ Len(channel[c]) \in Nat /\ Len(Append(channel[c], e)) = Len(channel[c]) + 1
        /\ \A k \in 1..Len(channel[c]) : Append(channel[c], e)[k] = channel[c][k]
        /\ Append(channel[c], e)[Len(channel[c]) + 1] = e
    <2>1. channel[c] \in Seq(Events)
      BY <1>4 DEF StreamTypes
    <2> QED
      BY <1>4, <2>1, SeqParts
  <1>7. /\ sender'[s].at = "send" /\ sender'[s].i = sender[s].i + 1
        /\ sender'[s].n = sender[s].n /\ sender'[s].event = sender[s].event
        /\ sender'[s].shares = sender[s].shares /\ sender'[s] \in Doing
        /\ \A t \in Senders : Walked(t)' = Walked(t) /\ sender'[t].event = sender[t].event
        /\ \A t \in Senders \ {s} : sender'[t] = sender[t]
        /\ sender' \in [Senders -> Doing]
    <2>1. sender'[s] = [sender[s] EXCEPT !.i = sender[s].i + 1]
      BY <1>2 DEF StreamTypes
    <2>2. /\ sender'[s].at = "send" /\ sender'[s].i = sender[s].i + 1
          /\ sender'[s].n = sender[s].n /\ sender'[s].event = sender[s].event
          /\ sender'[s].shares = sender[s].shares /\ sender'[s].own = sender[s].own
          /\ sender'[s] \in Doing
      BY <1>2, <1>3, <2>1 DEF Doing
    <2>3. \A t \in Senders \ {s} : sender'[t] = sender[t]
      BY <1>2 DEF StreamTypes
    <2>4. \A t \in Senders : Walked(t)' = Walked(t) /\ sender'[t].event = sender[t].event
      BY <1>2, <2>2, <2>3 DEF Walked
    <2>5. sender' \in [Senders -> Doing]
      BY <1>2, <2>1, <2>2 DEF StreamTypes
    <2> QED
      BY <2>2, <2>3, <2>4, <2>5
  <1>8. /\ channel' \in [Clients -> Seq(Events)] /\ dropped' \in [Clients -> SUBSET Events]
        /\ \A d \in Clients : Len(channel'[d]) <= EventChannel
    <2>1. CASE channel' = [channel EXCEPT ![c] = Append(@, e)] /\ UNCHANGED dropped
               /\ Len(channel[c]) < EventChannel
      <3>1. channel' \in [Clients -> Seq(Events)] /\ dropped' \in [Clients -> SUBSET Events]
        BY <1>6, <2>1 DEF StreamTypes
      <3>2. ASSUME NEW d \in Clients PROVE Len(channel'[d]) <= EventChannel
        <4>1. CASE d = c
          <5>1. channel'[d] = Append(channel[c], e) /\ EventChannel \in Nat
            BY <2>1, <4>1, EventAssumption DEF StreamTypes
          <5> QED
            BY <1>6, <2>1, <5>1
        <4>2. CASE d # c
          BY <2>1, <4>2 DEF StreamTypes
        <4> QED
          BY <4>1, <4>2
      <3> QED
        BY <3>1, <3>2
    <2>2. CASE UNCHANGED channel
      BY <1>4, <1>5, <2>2 DEF StreamTypes
    <2> QED
      BY <1>5, <2>1, <2>2
  <1>9. StreamTypes'
    BY <1>2, <1>7, <1>8 DEF StreamTypes
  <1>10. Listed'
    BY <1>2 DEF StreamInv, Listed, Connected
  <1>11. SenderCopies'
    <2> SUFFICES ASSUME NEW t \in Senders PROVE CopyOK(t)'
      BY DEF SenderCopies
    <2>1. CASE t = s
      BY <1>2, <1>3, <1>7, <2>1 DEF CopyOK
    <2>2. CASE t # s
      <3>1. sender'[t] = sender[t] /\ Walked(t)' = Walked(t)
        BY <1>7, <2>2
      <3> QED
        BY <1>2, <3>1, CopyKept DEF StreamInv, SenderCopies
    <2> QED
      BY <2>1, <2>2
  <1>12. ASSUME NEW d \in Clients, NEW x, Has(d, x) PROVE Has(d, x)'
    <2>1. CASE /\ channel' = [channel EXCEPT ![c] = Append(@, e)] /\ UNCHANGED dropped
               /\ d = c /\ x \in InChannel(c)
      <3>1. PICK k \in 1..Len(channel[c]) : x = channel[c][k]
        BY <2>1 DEF InChannel
      <3>2. channel'[c] = Append(channel[c], e)
        BY <2>1 DEF StreamTypes
      <3>3. x = channel'[c][k] /\ k \in 1..Len(channel'[c])
        BY <1>6, <3>1, <3>2
      <3> QED
        BY <2>1, <3>3 DEF Has, InChannel
    <2>2. CASE d # c \/ x \notin InChannel(c) \/ UNCHANGED channel
      BY <1>2, <1>5, <1>12, <2>2 DEF Has, InChannel, StreamTypes
    <2> QED
      BY <1>5, <2>1, <2>2
  <1>13. cpc[c] = "streaming" => Has(c, e)'
    <2>1. CASE channel' = [channel EXCEPT ![c] = Append(@, e)]
      <3>1. channel'[c] = Append(channel[c], e)
        BY <1>4, <2>1 DEF StreamTypes
      <3>2. e = channel'[c][Len(channel[c]) + 1] /\ Len(channel[c]) + 1 \in 1..Len(channel'[c])
        BY <1>6, <3>1
      <3> QED
        BY <3>2 DEF Has, InChannel
    <2>2. CASE dropped' = [dropped EXCEPT ![c] = @ \cup {e}]
      BY <1>4, <2>2 DEF Has, StreamTypes
    <2> QED
      BY <1>5, <2>1, <2>2
  <1>14. ASSUME NEW d \in Clients, NEW t \in Senders, cpc[d] = "streaming", Comes(t, d)
         PROVE  Comes(t, d)' \/ (d = c /\ sender[t].event = e)
    <2>1. CASE t # s
      BY <1>7, <1>14, <2>1 DEF Comes
    <2>2. CASE t = s
      <3>1. PICK j \in sender[s].i..sender[s].n : Walked(s)[j] = d
        BY <1>2, <1>14, <2>2 DEF Comes
      <3>2. CASE j = sender[s].i
        BY <1>1, <2>2, <3>1, <3>2
      <3>3. CASE j # sender[s].i
        <4>1. j \in sender'[s].i..sender'[s].n
          BY <1>3, <1>7, <3>3
        <4> QED
          BY <1>7, <2>2, <3>1, <4>1 DEF Comes
      <3> QED
        BY <3>2, <3>3
    <2> QED
      BY <2>1, <2>2
  <1>15. Reached'
    <2> SUFFICES ASSUME NEW d \in Clients, cpc[d] = "streaming", NEW k \in 1..Len(sseBuffer)
                 PROVE  \/ Has(d, sseBuffer[k])' \/ sseBuffer[k] \in raced
                        \/ \E t \in Senders : sender'[t].event = sseBuffer[k] /\ Comes(t, d)'
      BY <1>2 DEF Reached
    <2>1. PICK x : x = sseBuffer[k] /\ x = sseBuffer'[k]
      BY <1>2
    <2>2. Has(d, x)' => Has(d, sseBuffer[k])'
      BY <2>1 DEF Has
    <2>3. CASE Has(d, x)
      BY <1>12, <2>2, <2>3
    <2>4. ASSUME NEW t \in Senders, sender[t].event = x, Comes(t, d)
          PROVE  Has(d, x)' \/ (sender'[t].event = sseBuffer[k] /\ Comes(t, d)')
      <3>1. CASE Comes(t, d)'
        BY <1>7, <2>1, <2>4, <3>1
      <3>2. CASE d = c /\ x = e
        BY <1>13, <3>2
      <3> QED
        BY <1>14, <2>4, <3>1, <3>2
    <2> QED
      BY <2>1, <2>2, <2>3, <2>4 DEF StreamInv, Reached
  <1> QED
    BY <1>9, <1>10, <1>11, <1>15 DEF StreamInv

-----------------------------------------------------------------------------

LEMMA StreamAlways == StreamSpec => [](StreamTypes /\ StreamInv)
  <1>1. StreamTypes /\ StreamInv /\ [StreamNext]_streamVars => StreamTypes' /\ StreamInv'
    <2> SUFFICES ASSUME StreamTypes, StreamInv, [StreamNext]_streamVars
                 PROVE  StreamTypes' /\ StreamInv'
      OBVIOUS
    <2>1. CASE UNCHANGED streamVars
      <3>1. StreamTypes' /\ Listed' /\ Connected' = Connected
        BY <2>1 DEF streamVars, StreamTypes, StreamInv, Listed, Connected
      <3>2. SenderCopies'
        BY <2>1 DEF streamVars, StreamInv, SenderCopies, CopyOK, Walked
      <3>3. Reached'
        BY <2>1 DEF streamVars, StreamInv, Reached, Has, InChannel, Comes, Walked
      <3> QED
        BY <3>1, <3>2, <3>3 DEF StreamInv
    <2>2. ASSUME NEW c \in Clients, AddClient(c) \/ Replay(c) \/ Forward(c) \/ RemoveClient(c)
          PROVE  StreamTypes' /\ StreamInv'
      BY <2>2, AddKeeps, ReplayKeeps, ForwardKeeps, RemoveKeeps
    <2>3. ASSUME NEW s \in Senders,
                 BroadcastEvent(s) \/ ListClients(s) \/ SendEvent(s) \/ BroadcastEnds(s)
          PROVE  StreamTypes' /\ StreamInv'
      BY <2>3, EventBroadcastKeeps, ListKeeps, SendKeeps, BroadcastEndKeeps
    <2> QED
      BY <2>1, <2>2, <2>3 DEF StreamNext
  <1> QED
    BY <1>1, StreamTypesInit, PTL DEF StreamSpec

\* The hub's variables keep their types, and the list in its array is that of
\* the clients connected, though a client that leaves is cut out of the array
\* that senders walk over.
THEOREM StreamTypeCorrect == StreamSpec => []StreamTypeOK
  <1>1. StreamTypes /\ StreamInv => StreamTypeOK
    <2> SUFFICES ASSUME StreamTypes, StreamInv PROVE StreamTypeOK
      OBVIOUS
    <2>1. array \in Seq(Clients) /\ count \in Nat /\ count <= Len(array) /\ Listed
      BY DEF StreamTypes, StreamInv
    <2>2. count \in 0..Len(array)
      BY <2>1
    <2>3. {array[k] : k \in 1..count} = Connected
      BY <2>1 DEF Listed
    <2> QED
      BY <2>2, <2>3 DEF StreamTypes, StreamTypeOK, Connected
  <1> QED
    BY <1>1, StreamAlways, PTL

\* "Replay buffered lifecycle events for late joiners": a client that streams
\* has, has in its channel or is about to get every lifecycle event that is
\* kept, for any number of clients that join and goroutines that broadcast, but
\* for one dropped at a full channel or broadcast while a client left.
THEOREM StreamHasNoGap == StreamSpec => []NoGap
  <1>1. StreamInv => NoGap
    <2> SUFFICES ASSUME StreamInv, NEW c \in Clients, cpc[c] = "streaming",
                        NEW k \in 1..Len(sseBuffer)
                 PROVE  sseBuffer[k] \in got[c] \cup InChannel(c) \cup Underway
                                             \cup dropped[c] \cup raced
      BY DEF NoGap
    <2> QED
      BY DEF StreamInv, Reached, Has, Underway
  <1> QED
    BY <1>1, StreamAlways, PTL
=============================================================================
