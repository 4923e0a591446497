----------------------------- MODULE ChatProofs -----------------------------
(* Theorems about Chat, for any messages, answers and outputs of the expert *)
(* that the parser and the allowlist are applied to.                        *)
EXTENDS Chat, SequenceTheorems, TLAPS
LOCAL INSTANCE SequencesExt

\* Where a writer is once the chunk it is sending, if any, is sent.
Place(w) == IF wpc[w] = "writing" THEN sending[w].next ELSE wpc[w]
WriterPlaces == {"idle", "storing", "asking", "calls", "running", "auditing", "returned", "dead"}

Positive == Nat \ {0}
Calls == ChatRequests \X Positive
ChunkKinds == {"none", "token", "error", "tool-call", "tool", "done"}
Chunks == [type : ChunkKinds, of : {NoToolCall} \cup (ChatRequests \X Nat)]
Sendings == [chunk : Chunks, i : Nat, n : Nat, shares : BOOLEAN, own : Seq(ChatRequests),
             next : WriterPlaces]

Streamed == {r \in ChatRequests : hpc[r] \in {"open", "draining"}}

SomeSeq(s) == \E T : s \in Seq(T)

RowTypes ==
    /\ chatSession \in BOOLEAN
    /\ replies = [r \in ChatRequests |-> replies[r]]
    /\ \A r \in ChatRequests : SomeSeq(replies[r])
    /\ audits = [x \in Proposal |-> audits[x]]

SubscriberTypes ==
    /\ streamCtx \in {"none", "live", "cancelled"}
    /\ subs \in Seq(ChatRequests) /\ subCount \in Nat /\ subCount <= Len(subs)

HandlerTypes ==
    /\ hpc \in [ChatRequests -> {"away", "open", "draining", "gone"}]
    /\ subCh \in [ChatRequests -> Seq(Chunks)]

WriterTypes ==
    /\ wpc \in [ChatWriters -> WriterPlaces \cup {"writing"}]
    /\ sending \in [ChatWriters -> Sendings]
    /\ ctxOf \in [ChatRequests -> {"none", "session", "cancelled", "background"}]
    /\ expert = [r \in ChatRequests |-> expert[r]]

CallTypes ==
    /\ call = [w \in ChatWriters |-> call[w]]
    /\ \A r \in ChatRequests : call[r] = NoToolCall \/ \E k \in Positive : call[r] = <<r, k>>
    /\ \A c \in Confirmations : call[c] = NoToolCall \/ call[c] \in Proposal

OperationTypes ==
    /\ decided \in [Proposal -> SUBSET BOOLEAN]
    /\ ran \in [Proposal -> Nat]

ChatTypes ==
    RowTypes /\ SubscriberTypes /\ HandlerTypes /\ WriterTypes /\ CallTypes /\ OperationTypes

\* What a writer's place says of the call that it is at.
PlaceInv ==
    /\ \A r \in ChatRequests :
          /\ hpc[r] = "away" => wpc[r] = "idle"
          /\ Place(r) \in {"idle", "storing", "asking"} => call[r] = NoToolCall
          /\ Place(r) \in {"calls", "running", "auditing"} => call[r] # NoToolCall
    /\ \A c \in Confirmations :
          /\ Place(c) \in {"idle", "running", "auditing", "returned", "dead"}
          /\ Place(c) = "idle" => call[c] = NoToolCall
          /\ Place(c) \in {"running", "auditing"} => call[c] # NoToolCall
    /\ \A w \in ChatWriters : wpc[w] = "writing" => sending[w].next # "auditing"

LEMMA WriterKinds ==
    /\ \A r \in ChatRequests : r \in ChatWriters /\ r \notin Confirmations
    /\ \A c \in Confirmations : c \in ChatWriters /\ c \notin ChatRequests
    /\ \A w \in ChatWriters : w \in ChatRequests \/ w \in Confirmations
  BY ChatAssumption DEF ChatWriters

LEMMA CallParts ==
    ASSUME NEW x \in Proposal
    PROVE  /\ x \in Calls /\ x[1] \in ChatRequests /\ x[2] \in Positive /\ x = <<x[1], x[2]>>
           /\ x # NoToolCall
  <1>1. PICK r \in ChatRequests, k \in 1..MaxCalls : x = <<r, k>>
    BY DEF Proposal
  <1>2. k \in Nat /\ k # 0
    BY CallsAssumption
  <1> QED
    BY <1>1, <1>2 DEF Calls, Positive, NoToolCall

LEMMA ChunkTypes ==
    /\ \A t \in ChunkKinds : Chunk(t, NoToolCall) \in Chunks
    /\ \A t \in ChunkKinds, r \in ChatRequests, k \in Nat : Chunk(t, <<r, k>>) \in Chunks
    /\ NoSending \in Sendings /\ NoSending.next = "idle"
    /\ NoSending.chunk = Chunk("none", NoToolCall)
  <1>1. <<>> \in Seq(ChatRequests)
    OBVIOUS
  <1>2. /\ \A t \in ChunkKinds : Chunk(t, NoToolCall) \in Chunks
        /\ \A t \in ChunkKinds, r \in ChatRequests, k \in Nat : Chunk(t, <<r, k>>) \in Chunks
    BY DEF Chunk, Chunks
  <1>3. "none" \in ChunkKinds
    BY DEF ChunkKinds
  <1>4. Chunk("none", NoToolCall) \in Chunks
    BY <1>2, <1>3
  <1> HIDE DEF Chunk
  <1> QED
    BY <1>1, <1>2, <1>4 DEF NoSending, Sendings, WriterPlaces

\* A step takes the writer to its next place, sending a chunk before or not.
Moved(w, next) ==
    /\ sending' \in [ChatWriters -> Sendings]
    /\ wpc' \in [ChatWriters -> WriterPlaces \cup {"writing"}]
    /\ Place(w)' = next
    /\ \A v \in ChatWriters : v # w => /\ Place(v)' = Place(v) /\ wpc'[v] = wpc[v]
                                       /\ sending'[v] = sending[v]
    /\ wpc'[w] = next \/ (wpc'[w] = "writing" /\ sending'[w].next = next)

LEMMA WriterGoes ==
    ASSUME ChatTypes, NEW w \in ChatWriters, NEW next \in WriterPlaces,
           WGoto(w, next), UNCHANGED sending
    PROVE  Moved(w, next) /\ wpc'[w] = next
  <1>1. wpc' = [wpc EXCEPT ![w] = next] /\ sending' = sending /\ next # "writing"
    BY DEF WGoto, WriterPlaces
  <1> QED
    BY <1>1 DEF ChatTypes, WriterTypes, Place, Moved

LEMMA Writes ==
    ASSUME ChatTypes, NEW w \in ChatWriters, NEW line \in Chunks, NEW next \in WriterPlaces,
           WriteChunk(w, line, next)
    PROVE  /\ Moved(w, next)
           /\ sending'[w] = sending[w] \/ sending'[w].chunk = line
  <1>1. CASE subCount = 0
    <2>1. WGoto(w, next) /\ UNCHANGED sending
      BY <1>1 DEF WriteChunk
    <2> QED
      BY <2>1, WriterGoes
  <1>2. CASE subCount # 0
    <2>1. /\ wpc' = [wpc EXCEPT ![w] = "writing"]
          /\ sending' = [sending EXCEPT ![w] = [chunk |-> line, i |-> 1, n |-> subCount,
                            shares |-> TRUE, own |-> <<>>, next |-> next]]
      BY <1>2 DEF WriteChunk, WGoto
    <2>2. [chunk |-> line, i |-> 1, n |-> subCount, shares |-> TRUE, own |-> <<>>,
           next |-> next] \in Sendings
      <3>1. <<>> \in Seq(ChatRequests) /\ subCount \in Nat
        BY DEF ChatTypes, SubscriberTypes
      <3> QED
        BY <3>1 DEF Sendings
    <2>3. /\ sending' \in [ChatWriters -> Sendings]
          /\ wpc' \in [ChatWriters -> WriterPlaces \cup {"writing"}]
      BY <2>1, <2>2 DEF ChatTypes, WriterTypes
    <2>4. wpc'[w] = "writing" /\ sending'[w].chunk = line /\ sending'[w].next = next
      BY <2>1 DEF ChatTypes, WriterTypes
    <2>5. \A v \in ChatWriters : v # w => wpc'[v] = wpc[v] /\ sending'[v] = sending[v]
      BY <2>1 DEF ChatTypes, WriterTypes
    <2> QED
      BY <2>3, <2>4, <2>5 DEF Place, Moved
  <1> QED
    BY <1>1, <1>2

\* What the call of a writer is to be at each place.
CallFits(w, next, of) ==
    IF w \in ChatRequests
    THEN /\ next \in {"storing", "asking"} => of = NoToolCall
         /\ next \in {"calls", "running", "auditing"} => of # NoToolCall
         /\ next # "idle"
    ELSE /\ next \in {"running", "auditing", "returned", "dead"}
         /\ next \in {"running", "auditing"} => of # NoToolCall

LEMMA PlaceMoved ==
    ASSUME PlaceInv, NEW w \in ChatWriters, NEW next \in WriterPlaces, Moved(w, next),
           \A v \in ChatWriters : v # w => call'[v] = call[v],
           CallFits(w, next, call'[w]), next # "auditing" \/ wpc'[w] = "auditing",
           \A r \in ChatRequests : hpc'[r] = "away" => hpc[r] = "away" /\ r # w
    PROVE  PlaceInv'
  <1>1. ASSUME NEW v \in ChatWriters
        PROVE  v # w => Place(v)' = Place(v) /\ call'[v] = call[v] /\ wpc'[v] = wpc[v]
                        /\ sending'[v] = sending[v]
    BY DEF Moved
  <1>2. Place(w)' = next
    BY DEF Moved
  <1>3. ASSUME NEW r \in ChatRequests
        PROVE  /\ hpc'[r] = "away" => wpc'[r] = "idle"
               /\ Place(r)' \in {"idle", "storing", "asking"} => call'[r] = NoToolCall
               /\ Place(r)' \in {"calls", "running", "auditing"} => call'[r] # NoToolCall
    <2>1. CASE r = w
      BY <1>2, <2>1 DEF CallFits
    <2>2. CASE r # w
      BY <1>1, <2>2, WriterKinds DEF PlaceInv
    <2> QED
      BY <2>1, <2>2
  <1>4. ASSUME NEW c \in Confirmations
        PROVE  /\ Place(c)' \in {"idle", "running", "auditing", "returned", "dead"}
               /\ Place(c)' = "idle" => call'[c] = NoToolCall
               /\ Place(c)' \in {"running", "auditing"} => call'[c] # NoToolCall
    <2>1. CASE c = w
      BY <1>2, <2>1, WriterKinds DEF CallFits
    <2>2. CASE c # w
      BY <1>1, <2>2, WriterKinds DEF PlaceInv
    <2> QED
      BY <2>1, <2>2
  <1>5. ASSUME NEW v \in ChatWriters, wpc'[v] = "writing"
        PROVE  sending'[v].next # "auditing"
    <2>1. CASE v = w
      BY <1>5, <2>1 DEF Moved, WriterPlaces
    <2>2. CASE v # w
      BY <1>1, <1>5, <2>2 DEF PlaceInv
    <2> QED
      BY <2>1, <2>2
  <1> QED
    BY <1>3, <1>4, <1>5 DEF PlaceInv

LEMMA TypesUnchanged ==
    /\ UNCHANGED chatRows /\ RowTypes => RowTypes'
    /\ UNCHANGED stream /\ SubscriberTypes => SubscriberTypes'
    /\ UNCHANGED handlers /\ HandlerTypes => HandlerTypes'
    /\ UNCHANGED <<wpc, sending, ctxOf, expert>> /\ WriterTypes => WriterTypes'
    /\ UNCHANGED call /\ CallTypes => CallTypes'
    /\ UNCHANGED <<decided, ran>> /\ OperationTypes => OperationTypes'
  BY DEF chatRows, RowTypes, stream, SubscriberTypes, handlers, HandlerTypes, WriterTypes,
         CallTypes, OperationTypes

\* What happens to the array of a subscriber that opens the stream.
LEMMA PutInPlace ==
    ASSUME NEW S, NEW s \in Seq(S), NEW n \in Nat, n \in 1..(Len(s) - 1), NEW e \in S
    PROVE  /\ [s EXCEPT ![n + 1] = e] \in Seq(S)
           /\ Len([s EXCEPT ![n + 1] = e]) = Len(s) /\ n + 1 <= Len(s)
           /\ \A j \in 1..n : [s EXCEPT ![n + 1] = e][j] = s[j]
           /\ [s EXCEPT ![n + 1] = e][n + 1] = e
  <1>1. Len(s) \in Nat
    OBVIOUS
  <1>2. n + 1 \in 1..Len(s) /\ \A j \in 1..n : j \in 1..Len(s) /\ j # n + 1
    BY <1>1
  <1> QED
    BY <1>1, <1>2, ExceptSeq

LEMMA PutAtEnd ==
    ASSUME NEW S, NEW s \in Seq(S), NEW n \in Nat, n <= Len(s), NEW e \in S
    PROVE  /\ Append(SubSeq(s, 1, n), e) \in Seq(S)
           /\ Len(Append(SubSeq(s, 1, n), e)) = n + 1
           /\ \A j \in 1..n : Append(SubSeq(s, 1, n), e)[j] = s[j]
           /\ Append(SubSeq(s, 1, n), e)[n + 1] = e
  <1>1. Len(s) \in Nat
    OBVIOUS
  <1>2. /\ SubSeq(s, 1, n) \in Seq(S) /\ Len(SubSeq(s, 1, n)) = n
        /\ \A j \in 1..n : SubSeq(s, 1, n)[j] = s[j]
    BY <1>1
  <1> QED
    BY <1>2, AppendProperties

LEMMA ChatTypesInit == ChatInit => ChatTypes /\ PlaceInv
  <1> SUFFICES ASSUME ChatInit PROVE ChatTypes /\ PlaceInv
    OBVIOUS
  <1>1. <<>> \in Seq(ChatRequests) /\ <<>> \in Seq(Chunks) /\ Len(<<>>) = 0
    OBVIOUS
  <1>2. NoSending \in Sendings
    BY ChunkTypes
  <1>3. ChatTypes
    <2>1. RowTypes
      BY <1>1 DEF ChatInit, RowTypes, SomeSeq
    <2>2. SubscriberTypes /\ HandlerTypes /\ CallTypes /\ OperationTypes
      BY <1>1, WriterKinds
      DEF ChatInit, SubscriberTypes, HandlerTypes, CallTypes, OperationTypes
    <2>3. WriterTypes
      BY <1>2 DEF ChatInit, WriterTypes, WriterPlaces
    <2> QED
      BY <2>1, <2>2, <2>3 DEF ChatTypes
  <1>4. PlaceInv
    BY WriterKinds DEF ChatInit, PlaceInv, Place
  <1> QED
    BY <1>3, <1>4

-----------------------------------------------------------------------------
(* Types and places are kept by each action.                               *)

LEMMA OpenKeeps ==
    ASSUME ChatTypes, PlaceInv, NEW r \in ChatRequests, Open(r)
    PROVE  /\ ChatTypes' /\ PlaceInv'
           /\ \A v \in ChatWriters : v # r => Place(v)' = Place(v) /\ wpc'[v] = wpc[v]
           /\ \A v \in ChatWriters : sending'[v].chunk = sending[v].chunk
           /\ Place(r)' = "storing" /\ wpc[r] = "idle"
  <1>1. /\ hpc[r] = "away" /\ hpc' = [hpc EXCEPT ![r] = "open"]
        /\ streamCtx' = (IF streamCtx = "none" THEN "live" ELSE streamCtx)
        /\ subCount' = subCount + 1 /\ wpc' = [wpc EXCEPT ![r] = "storing"]
        /\ UNCHANGED <<chatRows, subCh, seen, ctxOf, expert, call, operations>>
    BY DEF Open, WGoto
  <1>2. r \in ChatWriters /\ wpc[r] = "idle"
    BY <1>1, WriterKinds DEF PlaceInv
  <1>3. subs \in Seq(ChatRequests) /\ subCount \in Nat /\ subCount <= Len(subs)
        /\ Len(subs) \in Nat
    BY DEF ChatTypes, SubscriberTypes
  <1>4. /\ subs' \in Seq(ChatRequests) /\ subCount' \in Nat /\ subCount' <= Len(subs')
        /\ sending' \in [ChatWriters -> Sendings]
        /\ \A v \in ChatWriters : /\ sending'[v].chunk = sending[v].chunk
                                  /\ sending'[v].next = sending[v].next
    <2>1. CASE subCount \in 1..(Len(subs) - 1)
      <3>1. subs' = [subs EXCEPT ![subCount + 1] = r] /\ sending' = sending
        BY <2>1 DEF Open
      <3>2. subs' \in Seq(ChatRequests) /\ Len(subs') = Len(subs) /\ subCount + 1 <= Len(subs)
        BY <1>3, <2>1, <3>1, PutInPlace
      <3> QED
        BY <1>1, <1>3, <3>1, <3>2 DEF ChatTypes, WriterTypes
    <2>2. CASE ~(subCount \in 1..(Len(subs) - 1))
      <3>1. /\ subs' = Append(SubSeq(subs, 1, subCount), r)
            /\ sending' = [w \in ChatWriters |->
                   IF wpc[w] = "writing" /\ sending[w].shares
                   THEN [sending[w] EXCEPT !.shares = FALSE, !.own = subs]
                   ELSE sending[w]]
        BY <2>2 DEF Open
      <3>2. /\ Append(SubSeq(subs, 1, subCount), r) \in Seq(ChatRequests)
            /\ Len(Append(SubSeq(subs, 1, subCount), r)) = subCount + 1
        BY <1>3, PutAtEnd
      <3>3. subs' \in Seq(ChatRequests) /\ Len(subs') = subCount + 1
        BY <3>1, <3>2
      <3>4. ASSUME NEW v \in ChatWriters
            PROVE  /\ sending'[v] \in Sendings
                   /\ sending'[v].chunk = sending[v].chunk
                   /\ sending'[v].next = sending[v].next
        <4>1. sending[v] \in Sendings
          BY DEF ChatTypes, WriterTypes
        <4> QED
          BY <1>3, <3>1, <4>1 DEF Sendings
      <3>5. sending' \in [ChatWriters -> Sendings]
        BY <3>1, <3>4
      <3> QED
        BY <1>1, <1>3, <3>3, <3>4, <3>5
    <2> QED
      BY <2>1, <2>2
  <1>5. ChatTypes'
    <2>1. HandlerTypes'
      BY <1>1 DEF ChatTypes, HandlerTypes
    <2>2. WriterTypes'
      BY <1>1, <1>4 DEF ChatTypes, WriterTypes, WriterPlaces
    <2>3. SubscriberTypes'
      BY <1>1, <1>4 DEF ChatTypes, SubscriberTypes
    <2>4. UNCHANGED chatRows /\ UNCHANGED call /\ UNCHANGED <<decided, ran>>
      BY <1>1 DEF operations
    <2> QED
      BY <2>1, <2>2, <2>3, <2>4, TypesUnchanged DEF ChatTypes
  <1>6. \A v \in ChatWriters : v # r => Place(v)' = Place(v) /\ wpc'[v] = wpc[v]
    BY <1>1, <1>4 DEF ChatTypes, WriterTypes, Place
  <1>7. Place(r)' = "storing" /\ wpc'[r] = "storing"
    BY <1>1, <1>2 DEF ChatTypes, WriterTypes, Place
  <1>8. PlaceInv'
    <2>1. ASSUME NEW q \in ChatRequests
          PROVE  /\ hpc'[q] = "away" => wpc'[q] = "idle"
                 /\ Place(q)' \in {"idle", "storing", "asking"} => call'[q] = NoToolCall
                 /\ Place(q)' \in {"calls", "running", "auditing"} => call'[q] # NoToolCall
      <3>1. Place(r) = "idle"
        BY <1>2 DEF Place
      <3> QED
        BY <1>1, <1>2, <1>6, <1>7, <3>1, WriterKinds DEF ChatTypes, HandlerTypes, PlaceInv
    <2>2. ASSUME NEW c \in Confirmations
          PROVE  /\ Place(c)' \in {"idle", "running", "auditing", "returned", "dead"}
                 /\ Place(c)' = "idle" => call'[c] = NoToolCall
                 /\ Place(c)' \in {"running", "auditing"} => call'[c] # NoToolCall
      BY <1>1, <1>6, WriterKinds DEF PlaceInv
    <2>3. ASSUME NEW v \in ChatWriters, wpc'[v] = "writing"
          PROVE  sending'[v].next # "auditing"
      BY <1>4, <1>6, <1>7, <2>3 DEF PlaceInv
    <2> QED
      BY <2>1, <2>2, <2>3 DEF PlaceInv
  <1> QED
    BY <1>2, <1>4, <1>5, <1>6, <1>7, <1>8

\* The places after a chunk is sent to one subscriber.
LEMMA SendPlaces ==
    ASSUME ChatTypes, PlaceInv, NEW w \in ChatWriters, SendChunk(w)
    PROVE  /\ ChatTypes' /\ PlaceInv'
           /\ \A v \in ChatWriters :
                 /\ Place(v)' = Place(v) \/ Place(v)' = "dead"
                 /\ wpc'[v] = wpc[v] \/ wpc'[v] = "dead" \/ wpc[v] = "writing"
                 /\ sending'[v].chunk = sending[v].chunk \/ sending'[v] = NoSending
           /\ proposals' \subseteq proposals
           /\ UNCHANGED <<chatRows, expert, call, decided, ran, seen>>
  <1>1. wpc[w] = "writing" /\ UNCHANGED <<chatRows, expert, call, decided, ran>>
    BY DEF SendChunk
  <1>2. NoSending \in Sendings /\ sending[w] \in Sendings
    BY ChunkTypes DEF ChatTypes, WriterTypes
  <1>3. CASE ServerDies
    <2>1. /\ wpc' = [v \in ChatWriters |-> IF wpc[v] = "idle" THEN "idle" ELSE "dead"]
          /\ sending' = [v \in ChatWriters |-> NoSending] /\ proposals' = {}
          /\ hpc' = [r \in ChatRequests |-> IF hpc[r] = "away" THEN "away" ELSE "gone"]
          /\ subCh' = [r \in ChatRequests |-> <<>>] /\ seen' = seen
          /\ ctxOf' = [r \in ChatRequests |-> "none"]
          /\ streamCtx' = "none" /\ subs' = <<>> /\ subCount' = 0
      BY <1>3 DEF ServerDies
    <2>2. <<>> \in Seq(ChatRequests) /\ <<>> \in Seq(Chunks) /\ Len(<<>>) = 0
      OBVIOUS
    <2>3. ChatTypes'
      <3>1. SubscriberTypes' /\ HandlerTypes'
        BY <2>1, <2>2 DEF SubscriberTypes, HandlerTypes
      <3>2. WriterTypes'
        BY <1>1, <1>2, <2>1 DEF ChatTypes, WriterTypes, WriterPlaces
      <3> QED
        BY <1>1, <3>1, <3>2, TypesUnchanged DEF ChatTypes
    <2>4. \A v \in ChatWriters :
             /\ Place(v)' = (IF wpc[v] = "idle" THEN "idle" ELSE "dead")
             /\ wpc'[v] = Place(v)'
             /\ wpc[v] = "idle" => Place(v) = "idle"
      BY <2>1 DEF Place
    <2>5. PlaceInv'
      BY <1>1, <2>1, <2>4, WriterKinds DEF PlaceInv
    <2> QED
      BY <1>1, <2>1, <2>3, <2>4, <2>5
  <1>4. CASE /\ wpc' = [wpc EXCEPT ![w] = "dead"]
             /\ sending' = [sending EXCEPT ![w] = NoSending]
             /\ w \in Confirmations
             /\ UNCHANGED <<handlers, stream, ctxOf, proposals>>
    <2>1. ChatTypes'
      <3>1. WriterTypes'
        BY <1>1, <1>2, <1>4 DEF ChatTypes, WriterTypes, WriterPlaces
      <3> QED
        BY <1>1, <1>4, <3>1, TypesUnchanged DEF ChatTypes
    <2>2. Moved(w, "dead") /\ wpc'[w] = "dead"
      BY <1>2, <1>4 DEF ChatTypes, WriterTypes, Moved, Place, WriterPlaces
    <2>3. PlaceInv'
      <3>1. "dead" \in WriterPlaces /\ CallFits(w, "dead", call'[w])
        BY <1>4, WriterKinds DEF CallFits, WriterPlaces
      <3>2. \A r \in ChatRequests : hpc'[r] = "away" => hpc[r] = "away" /\ r # w
        BY <1>4, WriterKinds DEF handlers
      <3> QED
        BY <1>1, <2>2, <3>1, <3>2, PlaceMoved
    <2> QED
      BY <1>1, <1>2, <1>4, <2>1, <2>2, <2>3 DEF Moved, handlers, ChatTypes, WriterTypes
  <1>5. CASE /\ \E q : subCh' = IF Len(subCh[q]) < ChatBuffer
                                THEN [subCh EXCEPT ![q] = Append(@, sending[w].chunk)]
                                ELSE subCh
             /\ UNCHANGED <<hpc, seen, stream, ctxOf, proposals>>
             /\ \/ /\ wpc' = [wpc EXCEPT ![w] = sending[w].next]
                   /\ sending' = [sending EXCEPT ![w] = NoSending]
                \/ /\ sending' = [sending EXCEPT ![w].i = @ + 1] /\ UNCHANGED wpc
    <2>1. subCh' \in [ChatRequests -> Seq(Chunks)]
      <3>1. PICK q : subCh' = IF Len(subCh[q]) < ChatBuffer
                              THEN [subCh EXCEPT ![q] = Append(@, sending[w].chunk)]
                              ELSE subCh
        BY <1>5
      <3>2. sending[w].chunk \in Chunks /\ subCh \in [ChatRequests -> Seq(Chunks)]
        BY <1>2 DEF Sendings, ChatTypes, HandlerTypes
      <3>3. CASE q \in ChatRequests /\ subCh' # subCh
        <4>1. Append(subCh[q], sending[w].chunk) \in Seq(Chunks)
          BY <3>2, <3>3, AppendProperties
        <4>2. subCh' = [subCh EXCEPT ![q] = Append(subCh[q], sending[w].chunk)]
          BY <3>1, <3>3
        <4> QED
          BY <3>2, <4>1, <4>2
      <3>4. CASE q \notin ChatRequests
        BY <3>1, <3>2, <3>4
      <3> QED
        BY <3>2, <3>3, <3>4
    <2>2. /\ sending' \in [ChatWriters -> Sendings]
          /\ wpc' \in [ChatWriters -> WriterPlaces \cup {"writing"}]
      <3>1. [sending[w] EXCEPT !.i = @ + 1] \in Sendings /\ sending[w].next \in WriterPlaces
        BY <1>2 DEF Sendings
      <3> QED
        BY <1>2, <1>5, <3>1 DEF ChatTypes, WriterTypes
    <2>3. ChatTypes'
      <3>1. WriterTypes' /\ HandlerTypes'
        BY <1>1, <1>5, <2>1, <2>2 DEF ChatTypes, WriterTypes, HandlerTypes
      <3> QED
        BY <1>1, <1>5, <3>1, TypesUnchanged DEF ChatTypes
    <2>4. \A v \in ChatWriters :
             /\ Place(v)' = Place(v)
             /\ wpc'[v] = wpc[v] \/ wpc[v] = "writing"
             /\ sending'[v].chunk = sending[v].chunk \/ sending'[v] = NoSending
             /\ wpc'[v] = "writing" => wpc[v] = "writing" /\ sending'[v].next = sending[v].next
      <3>1. sending[w].next # "writing"
        BY <1>2 DEF Sendings, WriterPlaces
      <3>2. ASSUME NEW v \in ChatWriters, v # w
            PROVE  wpc'[v] = wpc[v] /\ sending'[v] = sending[v]
        BY <1>5, <3>2 DEF ChatTypes, WriterTypes
      <3>3. CASE /\ wpc' = [wpc EXCEPT ![w] = sending[w].next]
                 /\ sending' = [sending EXCEPT ![w] = NoSending]
        <4>1. wpc'[w] = sending[w].next /\ sending'[w] = NoSending
          BY <3>3 DEF ChatTypes, WriterTypes
        <4> QED
          BY <1>1, <3>1, <3>2, <4>1 DEF Place
      <3>4. CASE sending' = [sending EXCEPT ![w].i = @ + 1] /\ UNCHANGED wpc
        <4>1. sending'[w].next = sending[w].next /\ sending'[w].chunk = sending[w].chunk
          BY <1>2, <3>4 DEF ChatTypes, WriterTypes, Sendings
        <4> QED
          BY <3>2, <3>4, <4>1 DEF Place
      <3> QED
        BY <1>5, <3>3, <3>4
    <2>5. PlaceInv'
      <3>1. \A r \in ChatRequests : hpc'[r] = "away" => wpc[r] = "idle" /\ wpc'[r] = "idle"
        BY <1>5, <2>4, WriterKinds DEF PlaceInv
      <3> QED
        BY <1>1, <2>4, <3>1, WriterKinds DEF PlaceInv
    <2> QED
      BY <1>1, <1>5, <2>3, <2>4, <2>5
  <1> QED
    <2>1. CASE \E q : hpc[q] # "gone" /\ UNCHANGED <<hpc, seen, stream, ctxOf, proposals>>
      BY <1>3, <1>4, <1>5 DEF SendChunk, WGoto
    <2> QED
      BY <1>3, <1>4, <1>5 DEF SendChunk, WGoto

-----------------------------------------------------------------------------
(* The array that a closing subscriber is cut out of.                      *)

LEMMA RemovedAt ==
    ASSUME NEW S, NEW s \in Seq(S), NEW k \in 1..Len(s)
    PROVE  /\ RemoveAt(s, k) \in Seq(S) /\ Len(RemoveAt(s, k)) = Len(s) - 1
           /\ \A j \in 1..Len(s) - 1 :
                 RemoveAt(s, k)[j] = (IF j >= k THEN s[j + 1] ELSE s[j])
  <1>1. Len(s) \in Nat /\ k \in Nat /\ k >= 1 /\ k <= Len(s)
    OBVIOUS
  <1>2. /\ SubSeq(s, 1, k - 1) \in Seq(S) /\ Len(SubSeq(s, 1, k - 1)) = k - 1
        /\ \A j \in 1..k - 1 : SubSeq(s, 1, k - 1)[j] = s[j]
    BY <1>1
  <1>3. /\ SubSeq(s, k + 1, Len(s)) \in Seq(S) /\ Len(SubSeq(s, k + 1, Len(s))) = Len(s) - k
        /\ \A j \in 1..Len(s) - k : SubSeq(s, k + 1, Len(s))[j] = s[k + j]
    BY <1>1
  <1> DEFINE a == SubSeq(s, 1, k - 1)
             b == SubSeq(s, k + 1, Len(s))
  <1>4. RemoveAt(s, k) = a \o b
    BY DEF RemoveAt
  <1> HIDE DEF a, b
  <1>5. /\ a \in Seq(S) /\ Len(a) = k - 1 /\ b \in Seq(S) /\ Len(b) = Len(s) - k
        /\ \A j \in 1..k - 1 : a[j] = s[j]
        /\ \A j \in 1..Len(s) - k : b[j] = s[k + j]
    BY <1>2, <1>3 DEF a, b
  <1>6. /\ a \o b \in Seq(S) /\ Len(a \o b) = Len(a) + Len(b)
        /\ \A j \in 1..Len(a) + Len(b) :
              (a \o b)[j] = IF j <= Len(a) THEN a[j] ELSE b[j - Len(a)]
    BY <1>5, ConcatProperties
  <1>7. ASSUME NEW j \in 1..Len(s) - 1
        PROVE  (a \o b)[j] = (IF j >= k THEN s[j + 1] ELSE s[j])
    <2>1. (a \o b)[j] = IF j <= k - 1 THEN a[j] ELSE b[j - (k - 1)]
      BY <1>1, <1>5, <1>6
    <2>2. CASE j >= k
      <3>1. j - (k - 1) \in 1..Len(s) - k /\ k + (j - (k - 1)) = j + 1 /\ ~(j <= k - 1)
        BY <1>1, <2>2
      <3> QED
        BY <1>5, <2>1, <2>2, <3>1
    <2>3. CASE ~(j >= k)
      <3>1. j \in 1..k - 1
        BY <1>1, <2>3
      <3> QED
        BY <1>5, <2>1, <2>3, <3>1
    <2> QED
      BY <2>2, <2>3
  <1>8. a \o b \in Seq(S) /\ Len(a \o b) = Len(s) - 1
    BY <1>1, <1>5, <1>6
  <1> HIDE DEF RemoveAt
  <1> QED
    BY ONLY <1>4, <1>7, <1>8

LEMMA Overlaid ==
    ASSUME NEW S, NEW s \in Seq(S), NEW t \in Seq(S), Len(t) <= Len(s)
    PROVE  /\ [j \in DOMAIN s |-> IF j <= Len(t) THEN t[j] ELSE s[j]] \in Seq(S)
           /\ Len([j \in DOMAIN s |-> IF j <= Len(t) THEN t[j] ELSE s[j]]) = Len(s)
           /\ \A j \in 1..Len(t) :
                 [i \in DOMAIN s |-> IF i <= Len(t) THEN t[i] ELSE s[i]][j] = t[j]
  <1>1. Len(s) \in Nat /\ Len(t) \in Nat /\ DOMAIN s = 1..Len(s)
    OBVIOUS
  <1>2. (\A j \in 1..Len(s) : s[j] \in S) /\ (\A j \in 1..Len(t) : t[j] \in S)
    OBVIOUS
  <1>3. \A j \in 1..Len(s) : j <= Len(t) => j \in 1..Len(t)
    BY <1>1
  <1> DEFINE f == [j \in 1..Len(s) |-> IF j <= Len(t) THEN t[j] ELSE s[j]]
  <1>4. f \in [1..Len(s) -> S]
    BY <1>2, <1>3
  <1>5. f \in Seq(S) /\ Len(f) = Len(s)
    BY <1>1, <1>4
  <1>6. \A j \in 1..Len(t) : f[j] = t[j]
    BY <1>1
  <1> QED
    BY <1>1, <1>5, <1>6

\* The subscribers that are left are those but the one cut out, in their order.
LEMMA CutAway ==
    ASSUME SubscriberTypes, NEW k \in 1..subCount, subs' = CutOut(SubsBut(k)),
           subCount' = subCount - 1
    PROVE  /\ subs' \in Seq(ChatRequests) /\ subCount' \in Nat /\ subCount' <= Len(subs')
           /\ \A j \in 1..subCount' : subs'[j] = (IF j >= k THEN subs[j + 1] ELSE subs[j])
  <1>1. subs \in Seq(ChatRequests) /\ subCount \in Nat /\ subCount <= Len(subs)
        /\ Len(subs) \in Nat
    BY DEF SubscriberTypes
  <1> DEFINE s == SubSeq(subs, 1, subCount)
             t == SubsBut(k)
  <1>2. /\ s \in Seq(ChatRequests) /\ Len(s) = subCount
        /\ \A j \in 1..subCount : s[j] = subs[j]
    BY <1>1
  <1>3. t = RemoveAt(s, k)
    BY DEF SubsBut
  <1>4. subs' = IF \E w \in ChatWriters : wpc[w] = "writing" /\ sending[w].shares
                THEN [j \in DOMAIN subs |-> IF j <= Len(t) THEN t[j] ELSE subs[j]]
                ELSE t
    BY DEF CutOut
  <1> HIDE DEF s, t
  <1>5. /\ t \in Seq(ChatRequests) /\ Len(t) = subCount - 1
        /\ \A j \in 1..subCount - 1 : t[j] = (IF j >= k THEN s[j + 1] ELSE s[j])
    BY <1>2, <1>3, RemovedAt
  <1>6. \A j \in 1..subCount - 1 : t[j] = (IF j >= k THEN subs[j + 1] ELSE subs[j])
    <2>1. \A j \in 1..subCount - 1 : j \in 1..subCount /\ j + 1 \in 1..subCount
      BY <1>1
    <2> QED
      BY <1>2, <1>5, <2>1
  <1>7. /\ subs' \in Seq(ChatRequests) /\ Len(t) <= Len(subs')
        /\ \A j \in 1..Len(t) : subs'[j] = t[j]
    <2>1. CASE \E w \in ChatWriters : wpc[w] = "writing" /\ sending[w].shares
      <3>1. Len(t) <= Len(subs)
        BY <1>1, <1>5
      <3>2. subs' = [j \in 1..Len(subs) |-> IF j <= Len(t) THEN t[j] ELSE subs[j]]
        <4>1. DOMAIN subs = 1..Len(subs)
          BY <1>1
        <4>2. subs' = [j \in DOMAIN subs |-> IF j <= Len(t) THEN t[j] ELSE subs[j]]
          BY ONLY <1>4, <2>1
        <4> QED
          BY ONLY <4>1, <4>2
      <3>3. t \in Seq(ChatRequests)
        BY <1>5
      <3> QED
        BY <1>1, <3>1, <3>2, <3>3, Overlaid
    <2>2. CASE ~ \E w \in ChatWriters : wpc[w] = "writing" /\ sending[w].shares
      <3>1. subs' = t
        BY <1>4, <2>2
      <3> QED
        BY <1>1, <1>5, <3>1
    <2> QED
      BY <2>1, <2>2
  <1>8. subCount' \in Nat
    BY <1>1
  <1> QED
    BY <1>5, <1>6, <1>7, <1>8 DEF SubscriberTypes

-----------------------------------------------------------------------------
(* The steps that leave calls, decisions and runs alone, and move no writer *)
(* to a place where it has or runs a call.                                 *)

Quiet ==
    /\ UNCHANGED <<expert, call, decided, ran, audits>>
    /\ proposals' \subseteq proposals
    /\ \A v \in ChatWriters :
          /\ Place(v)' = Place(v) \/ Place(v)' \in {"storing", "asking", "returned", "dead"}
          /\ wpc[v] \in {"running", "auditing", "dead"} => wpc'[v] \in {wpc[v], "dead"}

LEMMA HandlerSteps ==
    ASSUME ChatTypes, PlaceInv, NEW r \in ChatRequests,
           ForwardChunk(r) \/ ClientGone(r) \/ HandlerReturns(r) \/ DeleteSession
    PROVE  ChatTypes' /\ PlaceInv' /\ Quiet /\ UNCHANGED <<wpc, sending>>
  <1>1. ASSUME UNCHANGED <<wpc, sending, expert, call, audits, operations>>,
               \A q \in ChatRequests : hpc'[q] = "away" => hpc[q] = "away"
        PROVE  /\ PlaceInv' /\ Quiet /\ UNCHANGED <<wpc, sending>>
               /\ OperationTypes' /\ CallTypes'
    <2>1. \A v \in ChatWriters : Place(v)' = Place(v) /\ wpc'[v] = wpc[v]
      BY <1>1 DEF Place
    <2>2. PlaceInv'
      BY <1>1, <2>1, WriterKinds DEF PlaceInv
    <2>3. Quiet
      BY <1>1, <2>1 DEF Quiet, operations
    <2> QED
      BY <1>1, <2>2, <2>3, TypesUnchanged DEF ChatTypes, operations
  <1>2. CASE ForwardChunk(r)
    <2>1. /\ UNCHANGED <<chatRows, stream, writers, operations>>
          /\ subCh' = [subCh EXCEPT ![r] = Tail(@)] /\ subCh[r] # <<>>
          /\ hpc' = [hpc EXCEPT ![r] =
                 IF Head(subCh[r]).type \in {"done", "error"} THEN "draining" ELSE @]
      BY <1>2 DEF ForwardChunk
    <2>2. HandlerTypes'
      <3>1. Tail(subCh[r]) \in Seq(Chunks)
        BY <2>1 DEF ChatTypes, HandlerTypes
      <3> QED
        BY <2>1, <3>1 DEF ChatTypes, HandlerTypes
    <2>3. \A q \in ChatRequests : hpc'[q] = "away" => hpc[q] = "away"
      BY <2>1 DEF ChatTypes, HandlerTypes
    <2> QED
      BY <1>1, <2>1, <2>2, <2>3, TypesUnchanged DEF ChatTypes, writers, chatRows
  <1>3. CASE ClientGone(r)
    <2>1. /\ UNCHANGED <<chatRows, subs, subCount, subCh, wpc, sending, expert, call, operations>>
          /\ hpc' = [hpc EXCEPT ![r] = "draining"]
          /\ streamCtx' = "cancelled" /\ ctxOf' = Cancelled
      BY <1>3 DEF ClientGone
    <2>2. HandlerTypes' /\ SubscriberTypes' /\ WriterTypes'
      BY <2>1 DEF ChatTypes, HandlerTypes, SubscriberTypes, WriterTypes, Cancelled
    <2>3. \A q \in ChatRequests : hpc'[q] = "away" => hpc[q] = "away"
      BY <2>1 DEF ChatTypes, HandlerTypes
    <2> QED
      BY <1>1, <2>1, <2>2, <2>3, TypesUnchanged DEF ChatTypes, chatRows
  <1>4. CASE HandlerReturns(r)
    <2>1. /\ UNCHANGED <<chatRows, wpc, sending, expert, call, operations>> /\ Close(r)
          /\ hpc' = [hpc EXCEPT ![r] = "gone"] /\ subCh' = [subCh EXCEPT ![r] = <<>>]
      BY <1>4 DEF HandlerReturns
    <2>2. PICK k \in 1..subCount : subs[k] = r /\ subs' = CutOut(SubsBut(k))
      BY <2>1 DEF Close
    <2>3. subCount' = subCount - 1
      BY <2>1 DEF Close
    <2>4. subs' \in Seq(ChatRequests) /\ subCount' \in Nat /\ subCount' <= Len(subs')
      BY <2>2, <2>3, CutAway DEF ChatTypes
    <2>5. streamCtx' \in {"none", streamCtx} /\ ctxOf' \in {Cancelled, ctxOf}
      BY <2>1 DEF Close
    <2>6. HandlerTypes' /\ SubscriberTypes' /\ WriterTypes'
      <3>1. <<>> \in Seq(Chunks)
        OBVIOUS
      <3>2. HandlerTypes'
        BY <2>1, <3>1 DEF ChatTypes, HandlerTypes
      <3>3. SubscriberTypes'
        BY <2>4, <2>5 DEF ChatTypes, SubscriberTypes
      <3> QED
        BY <2>1, <2>5, <3>2, <3>3 DEF ChatTypes, WriterTypes, Cancelled
    <2>7. \A q \in ChatRequests : hpc'[q] = "away" => hpc[q] = "away"
      BY <2>1 DEF ChatTypes, HandlerTypes
    <2> QED
      BY <1>1, <2>1, <2>6, <2>7, TypesUnchanged DEF ChatTypes, chatRows
  <1>5. CASE DeleteSession
    <2>1. /\ chatSession' = FALSE /\ replies' = [q \in ChatRequests |-> <<>>]
          /\ UNCHANGED <<audits, stream, handlers, writers, operations>>
      BY <1>5 DEF DeleteSession
    <2>2. RowTypes'
      <3>1. SomeSeq(<<>>)
        <4>1. <<>> \in Seq(Nat)
          OBVIOUS
        <4> QED
          BY <4>1 DEF SomeSeq
      <3> QED
        BY <2>1, <3>1 DEF ChatTypes, RowTypes
    <2> QED
      BY <1>1, <2>1, <2>2, TypesUnchanged DEF ChatTypes, handlers, writers
  <1> QED
    BY <1>2, <1>3, <1>4, <1>5

\* A writer that goes on, and nothing of the rest but what is said.
LEMMA WriterMoves ==
    ASSUME ChatTypes, PlaceInv, NEW w \in ChatWriters, NEW next \in WriterPlaces, Moved(w, next),
           UNCHANGED <<stream, handlers>>, RowTypes', CallTypes', OperationTypes',
           expert' = [r \in ChatRequests |-> expert'[r]],
           ctxOf' \in [ChatRequests -> {"none", "session", "cancelled", "background"}],
           \A v \in ChatWriters : v # w => call'[v] = call[v],
           CallFits(w, next, call'[w]), wpc[w] # "idle" \/ w \in Confirmations,
           next # "auditing" \/ wpc'[w] = "auditing"
    PROVE  ChatTypes' /\ PlaceInv'
  <1>1. WriterTypes'
    BY DEF Moved, WriterTypes
  <1>2. ChatTypes'
    BY <1>1, TypesUnchanged DEF ChatTypes
  <1>3. \A r \in ChatRequests : hpc'[r] = "away" => hpc[r] = "away" /\ r # w
    BY WriterKinds DEF handlers, PlaceInv
  <1> QED
    BY <1>2, <1>3, PlaceMoved

LEMMA QuietWriter ==
    ASSUME ChatTypes, PlaceInv, NEW r \in ChatRequests, StoreUserMessage(r) \/ Reply(r)
    PROVE  /\ ChatTypes' /\ PlaceInv' /\ Quiet /\ UNCHANGED <<stream, handlers, operations>>
           /\ \E next \in {"asking", "returned"} : Moved(r, next)
  <1>1. r \in ChatWriters /\ r \notin Confirmations
    BY WriterKinds
  <1>2. /\ "asking" \in WriterPlaces /\ "returned" \in WriterPlaces
        /\ WriterPlaces \ {"writing"} = WriterPlaces
    BY DEF WriterPlaces
  <1>3. ASSUME NEW next \in {"asking", "returned"}, Moved(r, next),
               UNCHANGED <<expert, call, audits, operations>>,
               wpc[r] \in {"storing", "calls"}
        PROVE  Quiet
    <2>1. Place(r)' = next
      BY <1>3 DEF Moved
    <2>2. \A v \in ChatWriters : v # r => Place(v)' = Place(v) /\ wpc'[v] = wpc[v]
      BY <1>3 DEF Moved
    <2> QED
      BY <1>3, <2>1, <2>2 DEF Quiet, operations
  <1>4. CASE StoreUserMessage(r)
    <2>1. /\ wpc[r] = "storing" /\ WGoto(r, IF chatSession THEN "asking" ELSE "returned")
          /\ UNCHANGED <<chatRows, stream, handlers, sending, expert, call, operations>>
      BY <1>4 DEF StoreUserMessage
    <2>2. ctxOf' \in [ChatRequests -> {"none", "session", "cancelled", "background"}]
      <3>1. PICK n \in {"session", "cancelled", "background", ctxOf[r]} :
                 ctxOf' = [ctxOf EXCEPT ![r] = n]
        BY <1>4 DEF StoreUserMessage, ChatTypes, SubscriberTypes
      <3> QED
        BY <3>1 DEF ChatTypes, WriterTypes
    <2>3. PICK next \in {"asking", "returned"} : WGoto(r, next)
      BY <2>1
    <2>4. Moved(r, next)
      BY <1>1, <1>2, <2>1, <2>3, WriterGoes
    <2>5. Place(r) = "storing" /\ call[r] = NoToolCall
      BY <2>1 DEF Place, PlaceInv
    <2>6. CallFits(r, next, call'[r])
      BY <2>1, <2>5 DEF CallFits
    <2>7. expert' = [q \in ChatRequests |-> expert'[q]] /\ RowTypes' /\ CallTypes'
          /\ OperationTypes'
      BY <2>1, TypesUnchanged DEF ChatTypes, WriterTypes, operations
    <2>8. ChatTypes' /\ PlaceInv'
      BY <1>1, <1>2, <2>1, <2>2, <2>4, <2>6, <2>7, WriterMoves
    <2> QED
      BY <1>3, <2>1, <2>4, <2>8 DEF chatRows
  <1>5. CASE Reply(r)
    <2>1. /\ wpc[r] = "calls" /\ UNCHANGED <<chatSession, audits, stream, handlers, ctxOf,
                                               expert, call, operations>>
      BY <1>5 DEF Reply
    <2>2. Chunk("done", <<r, 0>>) \in Chunks
      <3>1. "done" \in ChunkKinds /\ 0 \in Nat
        BY DEF ChunkKinds
      <3> QED
        BY <3>1, ChunkTypes
    <2>3. Moved(r, "returned")
      <3>1. \/ WriteChunk(r, Chunk("done", <<r, 0>>), "returned")
            \/ WGoto(r, "returned") /\ UNCHANGED sending
        BY <1>5 DEF Reply
      <3> QED
        BY <1>1, <1>2, <2>2, <3>1, WriterGoes, Writes
    <2>4. RowTypes'
      <3>1. replies' = replies \/ \E l : replies' = [replies EXCEPT ![r] = Append(@, l)]
        BY <1>5 DEF Reply, InsertReply
      <3>2. ASSUME NEW l, replies' = [replies EXCEPT ![r] = Append(@, l)]
            PROVE  RowTypes'
        <4>1. PICK T : replies[r] \in Seq(T)
          BY DEF ChatTypes, RowTypes, SomeSeq
        <4>2. replies[r] \in Seq(T \cup {l})
          BY <4>1, SeqMonotonic
        <4>3. Append(replies[r], l) \in Seq(T \cup {l})
          BY <4>2, AppendProperties
        <4>4. SomeSeq(Append(replies[r], l))
          BY <4>3 DEF SomeSeq
        <4> QED
          BY <2>1, <3>2, <4>4 DEF ChatTypes, RowTypes
      <3>3. CASE replies' = replies
        BY <2>1, <3>3 DEF ChatTypes, RowTypes
      <3> QED
        BY <3>1, <3>2, <3>3
    <2>5. CallFits(r, "returned", call'[r])
      BY DEF CallFits
    <2>6. expert' = [q \in ChatRequests |-> expert'[q]] /\ CallTypes' /\ OperationTypes'
          /\ ctxOf' \in [ChatRequests -> {"none", "session", "cancelled", "background"}]
      BY <2>1, TypesUnchanged DEF ChatTypes, WriterTypes, operations
    <2>7. ChatTypes' /\ PlaceInv'
      BY <1>1, <1>2, <2>1, <2>3, <2>4, <2>5, <2>6, WriterMoves
    <2> QED
      BY <1>3, <2>1, <2>3, <2>7
  <1> QED
    BY <1>4, <1>5

-----------------------------------------------------------------------------
(* The steps of the expert, of its calls and of a confirmation.            *)

LEMMA NextCallTypes ==
    ASSUME CallTypes, NEW r \in ChatRequests, NextCall(r), call[r] # NoToolCall
    PROVE  /\ CallTypes' /\ call'[r] # NoToolCall
           /\ call'[r] = <<r, call[r][2] + 1>> /\ call[r] = <<r, call[r][2]>>
           /\ call[r][2] \in Positive
           /\ \A v \in ChatWriters : v # r => call'[v] = call[v]
  <1>1. PICK k \in Positive : call[r] = <<r, k>>
    BY DEF CallTypes
  <1>2. k + 1 \in Positive
    BY DEF Positive
  <1>3. call' = [call EXCEPT ![r] = <<r, k + 1>>]
    BY <1>1 DEF NextCall
  <1>4. r \in ChatWriters /\ r \notin Confirmations
    BY WriterKinds
  <1>5. call'[r] = <<r, k + 1>> /\ \A v \in ChatWriters : v # r => call'[v] = call[v]
    BY <1>3, <1>4 DEF CallTypes
  <1>6. <<r, k + 1>> # NoToolCall
    <2>1. k + 1 # 0
      BY DEF Positive
    <2> QED
      BY <2>1 DEF NoToolCall
  <1>7. CallTypes'
    <2>1. call' = [w \in ChatWriters |-> call'[w]]
      BY <1>3 DEF CallTypes
    <2>2. ASSUME NEW q \in ChatRequests
          PROVE  call'[q] = NoToolCall \/ \E j \in Positive : call'[q] = <<q, j>>
      <3>1. CASE q = r
        BY <1>2, <1>5, <3>1
      <3>2. CASE q # r
        BY <1>5, <3>2, WriterKinds DEF CallTypes
      <3> QED
        BY <3>1, <3>2
    <2>3. ASSUME NEW c \in Confirmations
          PROVE  call'[c] = NoToolCall \/ call'[c] \in Proposal
      BY <1>4, <1>5, WriterKinds DEF CallTypes
    <2> QED
      BY <2>1, <2>2, <2>3 DEF CallTypes
  <1> QED
    BY <1>1, <1>5, <1>6, <1>7

LEMMA FirstCallTypes ==
    ASSUME CallTypes, NEW r \in ChatRequests, call' = [call EXCEPT ![r] = <<r, 1>>]
    PROVE  /\ CallTypes' /\ call'[r] # NoToolCall /\ call'[r] = <<r, 1>>
           /\ \A v \in ChatWriters : v # r => call'[v] = call[v]
  <1>1. r \in ChatWriters /\ r \notin Confirmations /\ 1 \in Positive
    BY WriterKinds DEF Positive
  <1>2. call'[r] = <<r, 1>> /\ \A v \in ChatWriters : v # r => call'[v] = call[v]
    BY <1>1 DEF CallTypes
  <1>3. <<r, 1>> # NoToolCall
    BY DEF NoToolCall
  <1>4. CallTypes'
    <2>1. call' = [w \in ChatWriters |-> call'[w]]
      BY DEF CallTypes
    <2>2. \A q \in ChatRequests : call'[q] = NoToolCall \/ \E j \in Positive : call'[q] = <<q, j>>
      BY <1>1, <1>2, WriterKinds DEF CallTypes
    <2>3. \A c \in Confirmations : call'[c] = NoToolCall \/ call'[c] \in Proposal
      BY <1>1, <1>2, WriterKinds DEF CallTypes
    <2> QED
      BY <2>1, <2>2, <2>3 DEF CallTypes
  <1> QED
    BY <1>2, <1>3, <1>4

LEMMA ToolChunks ==
    /\ Chunk("token", NoToolCall) \in Chunks /\ Chunk("error", NoToolCall) \in Chunks
    /\ Chunk("tool", NoToolCall) \in Chunks
    /\ \A r \in ChatRequests, k \in Positive : Chunk("tool-call", <<r, k>>) \in Chunks
  <1>1. /\ "token" \in ChunkKinds /\ "error" \in ChunkKinds /\ "tool" \in ChunkKinds
        /\ "tool-call" \in ChunkKinds
    BY DEF ChunkKinds
  <1>2. \A k \in Positive : k \in Nat
    BY DEF Positive
  <1> QED
    BY <1>1, <1>2, ChunkTypes

LEMMA PlaceNames ==
    /\ "asking" \in WriterPlaces /\ "calls" \in WriterPlaces /\ "running" \in WriterPlaces
    /\ "auditing" \in WriterPlaces /\ "returned" \in WriterPlaces
  BY DEF WriterPlaces

\* ExpertChunk: a chunk is read while the writer has no call.
LEMMA ExpertChunkMoves ==
    ASSUME ChatTypes, PlaceInv, NEW r \in ChatRequests, ExpertChunk(r)
    PROVE  /\ ChatTypes' /\ PlaceInv' /\ Moved(r, "asking") /\ call[r] = NoToolCall
           /\ sending'[r] = sending[r] \/ sending'[r].chunk = Chunk("token", NoToolCall)
           /\ \A q \in ChatRequests : q # r => expert'[q] = expert[q]
           /\ UNCHANGED <<chatRows, stream, handlers, ctxOf, call, operations>>
           /\ wpc[r] = "asking"
  <1>1. /\ wpc[r] = "asking" /\ WriteChunk(r, Chunk("token", NoToolCall), "asking")
        /\ UNCHANGED <<chatRows, stream, handlers, ctxOf, call, operations>>
    BY DEF ExpertChunk
  <1>2. PICK e : expert' = [expert EXCEPT ![r] = e]
    BY DEF ExpertChunk
  <1>3. r \in ChatWriters
    BY WriterKinds
  <1>4. /\ Moved(r, "asking")
        /\ sending'[r] = sending[r] \/ sending'[r].chunk = Chunk("token", NoToolCall)
    BY <1>1, <1>3, Writes, ToolChunks, PlaceNames
  <1>5. call[r] = NoToolCall
    BY <1>1 DEF Place, PlaceInv
  <1>6. expert' = [q \in ChatRequests |-> expert'[q]]
        /\ \A q \in ChatRequests : q # r => expert'[q] = expert[q]
    BY <1>2 DEF ChatTypes, WriterTypes
  <1>7. RowTypes' /\ CallTypes' /\ OperationTypes'
        /\ ctxOf' \in [ChatRequests -> {"none", "session", "cancelled", "background"}]
    BY <1>1, TypesUnchanged DEF ChatTypes, WriterTypes, operations
  <1>8. CallFits(r, "asking", call'[r])
    BY <1>1, <1>5 DEF CallFits
  <1> QED
    BY <1>1, <1>3, <1>4, <1>5, <1>6, <1>7, <1>8, WriterMoves, PlaceNames

\* ExpertEnds and ExpertFails: the writer comes to its first call.
LEMMA FirstCallMoves ==
    ASSUME ChatTypes, PlaceInv, NEW r \in ChatRequests, ExpertEnds(r) \/ ExpertFails(r)
    PROVE  /\ ChatTypes' /\ PlaceInv' /\ Moved(r, "calls") /\ call[r] = NoToolCall
           /\ sending'[r] = sending[r] \/ sending'[r].chunk = Chunk("error", NoToolCall)
           /\ \A q \in ChatRequests : q # r => expert'[q] = expert[q]
           /\ call'[r] = <<r, 1>> /\ \A v \in ChatWriters : v # r => call'[v] = call[v]
           /\ ctxOf' = [ctxOf EXCEPT ![r] = "none"]
           /\ UNCHANGED <<chatRows, stream, handlers, operations>>
           /\ wpc[r] = "asking"
  <1>1. /\ wpc[r] = "asking" /\ call' = [call EXCEPT ![r] = <<r, 1>>]
        /\ ctxOf' = [ctxOf EXCEPT ![r] = "none"]
        /\ UNCHANGED <<chatRows, stream, handlers, operations>>
    BY DEF ExpertEnds, ExpertFails
  <1>2. expert' = expert \/ \E e : expert' = [expert EXCEPT ![r] = e]
    BY DEF ExpertEnds, ExpertFails
  <1>3. r \in ChatWriters
    BY WriterKinds
  <1>4. /\ Moved(r, "calls")
        /\ sending'[r] = sending[r] \/ sending'[r].chunk = Chunk("error", NoToolCall)
    <2>1. CASE ExpertEnds(r)
      <3>1. WGoto(r, "calls") /\ UNCHANGED sending
        BY <2>1 DEF ExpertEnds
      <3> QED
        BY <1>3, <3>1, WriterGoes, PlaceNames
    <2>2. CASE ExpertFails(r)
      <3>1. WriteChunk(r, Chunk("error", NoToolCall), "calls")
        BY <2>2 DEF ExpertFails
      <3> QED
        BY <1>3, <3>1, Writes, ToolChunks, PlaceNames
    <2> QED
      BY <2>1, <2>2
  <1>5. call[r] = NoToolCall
    BY <1>1 DEF Place, PlaceInv
  <1>6. expert' = [q \in ChatRequests |-> expert'[q]]
        /\ \A q \in ChatRequests : q # r => expert'[q] = expert[q]
    BY <1>2 DEF ChatTypes, WriterTypes
  <1>7. RowTypes' /\ OperationTypes'
        /\ ctxOf' \in [ChatRequests -> {"none", "session", "cancelled", "background"}]
    BY <1>1, TypesUnchanged DEF ChatTypes, WriterTypes, operations
  <1>8. /\ CallTypes' /\ call'[r] # NoToolCall /\ call'[r] = <<r, 1>>
        /\ \A v \in ChatWriters : v # r => call'[v] = call[v]
    BY <1>1, FirstCallTypes DEF ChatTypes
  <1>9. CallFits(r, "calls", call'[r])
    BY <1>8 DEF CallFits
  <1> QED
    BY <1>1, <1>3, <1>4, <1>5, <1>6, <1>7, <1>8, <1>9, WriterMoves, PlaceNames

LEMMA Audited ==
    ASSUME RowTypes, NEW x, NEW entry, Audit(x, entry), UNCHANGED <<chatSession, replies>>
    PROVE  /\ RowTypes' /\ \A y \in Proposal : audits[y] # {} => audits'[y] # {}
           /\ x \in Proposal => audits'[x] # {}
           /\ \A y \in Proposal : y # x => audits'[y] = audits[y]
  <1>1. audits' = [audits EXCEPT ![x] = @ \cup {entry}]
    BY DEF Audit
  <1>2. audits = [y \in Proposal |-> audits[y]]
    BY DEF RowTypes
  <1>3. \A y \in Proposal : y # x => audits'[y] = audits[y]
    BY <1>1, <1>2
  <1>4. x \in Proposal => audits'[x] = audits[x] \cup {entry}
    BY <1>1, <1>2
  <1>5. audits' = [y \in Proposal |-> audits'[y]]
    BY <1>1, <1>2
  <1> QED
    BY <1>3, <1>4, <1>5 DEF RowTypes

LEMMA AtCallHasOne ==
    ASSUME ChatTypes, PlaceInv, NEW r \in ChatRequests,
           wpc[r] \in {"calls", "running", "auditing"}
    PROVE  /\ Place(r) = wpc[r] /\ call[r] # NoToolCall
           /\ \E k \in Positive : call[r] = <<r, k>>
  BY DEF PlaceInv, Place, ChatTypes, CallTypes

LEMMA RefuseMoves ==
    ASSUME ChatTypes, PlaceInv, NEW r \in ChatRequests, RefuseCall(r)
    PROVE  /\ ChatTypes' /\ PlaceInv' /\ Moved(r, "calls") /\ call[r] # NoToolCall
           /\ sending'[r] = sending[r] \/ sending'[r].chunk = Chunk("error", NoToolCall)
           /\ NextCall(r) /\ \A v \in ChatWriters : v # r => call'[v] = call[v]
           /\ UNCHANGED <<chatSession, replies, stream, handlers, ctxOf, expert, operations>>
           /\ \A x \in Proposal : audits[x] # {} => audits'[x] # {}
           /\ wpc[r] = "calls"
  <1>1. /\ wpc[r] = "calls" /\ WriteChunk(r, Chunk("error", NoToolCall), "calls")
        /\ NextCall(r) /\ Audit(call[r], "verb_not_allowed")
        /\ UNCHANGED <<chatSession, replies, stream, handlers, ctxOf, expert, operations>>
    BY DEF RefuseCall, AtCall
  <1>2. r \in ChatWriters
    BY WriterKinds
  <1>3. /\ Moved(r, "calls")
        /\ sending'[r] = sending[r] \/ sending'[r].chunk = Chunk("error", NoToolCall)
    BY <1>1, <1>2, Writes, ToolChunks, PlaceNames
  <1>4. call[r] # NoToolCall
    BY <1>1, AtCallHasOne
  <1>5. /\ CallTypes' /\ call'[r] # NoToolCall
        /\ \A v \in ChatWriters : v # r => call'[v] = call[v]
    BY <1>1, <1>4, NextCallTypes DEF ChatTypes
  <1>6. RowTypes' /\ \A x \in Proposal : audits[x] # {} => audits'[x] # {}
    BY <1>1, Audited DEF ChatTypes
  <1>7. /\ OperationTypes' /\ expert' = [q \in ChatRequests |-> expert'[q]]
        /\ ctxOf' \in [ChatRequests -> {"none", "session", "cancelled", "background"}]
    BY <1>1, TypesUnchanged DEF ChatTypes, WriterTypes, operations
  <1>8. CallFits(r, "calls", call'[r])
    BY <1>5 DEF CallFits
  <1> QED
    BY <1>1, <1>2, <1>3, <1>4, <1>5, <1>6, <1>7, <1>8, WriterMoves, PlaceNames

LEMMA ProposeMoves ==
    ASSUME ChatTypes, PlaceInv, NEW r \in ChatRequests, ProposeCall(r)
    PROVE  /\ ChatTypes' /\ PlaceInv' /\ call[r] # NoToolCall
           /\ sending'[r] = sending[r] \/ sending'[r].chunk = Chunk("tool-call", call[r])
           /\ \A v \in ChatWriters : v # r => call'[v] = call[v]
           /\ UNCHANGED <<chatRows, stream, handlers, ctxOf, expert, decided, ran>>
           /\ FindVerb(Command(call[r])) # NoVerb /\ wpc[r] = "calls"
           /\ \/ /\ NeedsConfirm(call[r]) /\ NextCall(r) /\ Moved(r, "calls")
                 /\ proposals' = proposals \cup {call[r]}
              \/ /\ ~NeedsConfirm(call[r]) /\ UNCHANGED <<proposals, call>>
                 /\ Moved(r, "running")
  <1>1. /\ wpc[r] = "calls" /\ FindVerb(Command(call[r])) # NoVerb
        /\ UNCHANGED <<chatRows, stream, handlers, ctxOf, expert, decided, ran>>
    BY DEF ProposeCall, AtCall
  <1>2. r \in ChatWriters
    BY WriterKinds
  <1>3. PICK k \in Positive : call[r] = <<r, k>>
    BY <1>1, AtCallHasOne
  <1>4. Chunk("tool-call", call[r]) \in Chunks /\ call[r] # NoToolCall
    BY <1>1, <1>3, ToolChunks, AtCallHasOne
  <1>5. /\ RowTypes' /\ OperationTypes' /\ expert' = [q \in ChatRequests |-> expert'[q]]
        /\ ctxOf' \in [ChatRequests -> {"none", "session", "cancelled", "background"}]
    BY <1>1, TypesUnchanged DEF ChatTypes, WriterTypes
  <1>6. CASE NeedsConfirm(call[r])
    <2>1. /\ proposals' = proposals \cup {call[r]} /\ NextCall(r)
          /\ WriteChunk(r, Chunk("tool-call", call[r]), "calls")
      BY <1>6 DEF ProposeCall
    <2>2. /\ Moved(r, "calls")
          /\ sending'[r] = sending[r] \/ sending'[r].chunk = Chunk("tool-call", call[r])
      BY <1>2, <1>4, <2>1, Writes, PlaceNames
    <2>3. /\ CallTypes' /\ call'[r] # NoToolCall
          /\ \A v \in ChatWriters : v # r => call'[v] = call[v]
      BY <1>4, <2>1, NextCallTypes DEF ChatTypes
    <2>4. CallFits(r, "calls", call'[r])
      BY <2>3 DEF CallFits
    <2>5. ChatTypes' /\ PlaceInv'
      BY <1>1, <1>2, <1>5, <2>2, <2>3, <2>4, WriterMoves, PlaceNames
    <2> QED
      BY <1>1, <1>4, <1>6, <2>1, <2>2, <2>3, <2>5
  <1>7. CASE ~NeedsConfirm(call[r])
    <2>1. /\ UNCHANGED <<proposals, call>>
          /\ WriteChunk(r, Chunk("tool-call", call[r]), "running")
      BY <1>7 DEF ProposeCall
    <2>2. /\ Moved(r, "running")
          /\ sending'[r] = sending[r] \/ sending'[r].chunk = Chunk("tool-call", call[r])
      BY <1>2, <1>4, <2>1, Writes, PlaceNames
    <2>3. CallTypes' /\ CallFits(r, "running", call'[r])
      BY <1>4, <2>1, TypesUnchanged DEF ChatTypes, CallFits
    <2>4. ChatTypes' /\ PlaceInv'
      BY <1>1, <1>2, <1>5, <2>1, <2>2, <2>3, WriterMoves, PlaceNames
    <2> QED
      BY <1>1, <1>4, <1>7, <2>1, <2>2, <2>4
  <1> QED
    BY <1>6, <1>7

LEMMA ExecuteMoves ==
    ASSUME ChatTypes, PlaceInv, NEW w \in ChatWriters, Execute(w)
    PROVE  /\ ChatTypes' /\ PlaceInv' /\ Moved(w, "auditing") /\ Place(w) = "running"
           /\ UNCHANGED <<chatRows, stream, handlers, sending, ctxOf, expert, call, proposals,
                          decided>>
           /\ wpc[w] = "running" /\ wpc'[w] = "auditing" /\ call[w] # NoToolCall
           /\ \A x \in Proposal : x # call[w] => ran'[x] = ran[x]
           /\ \A x \in Proposal : x = call[w] => ran'[x] = ran[x] \/ ran'[x] = ran[x] + 1
  <1>1. /\ wpc[w] = "running" /\ WGoto(w, "auditing")
        /\ UNCHANGED <<chatRows, stream, handlers, sending, ctxOf, expert, call, proposals,
                       decided>>
    BY DEF Execute
  <1>2. ran' = ran \/ ran' = [ran EXCEPT ![call[w]] = @ + 1]
    BY DEF Execute
  <1>3. /\ ran' \in [Proposal -> Nat] /\ \A x \in Proposal : x # call[w] => ran'[x] = ran[x]
        /\ \A x \in Proposal : x = call[w] => ran'[x] = ran[x] \/ ran'[x] = ran[x] + 1
    BY <1>2 DEF ChatTypes, OperationTypes
  <1>4. Moved(w, "auditing") /\ wpc'[w] = "auditing"
    BY <1>1, WriterGoes, PlaceNames
  <1>5. Place(w) = "running" /\ call[w] # NoToolCall
    BY <1>1, WriterKinds DEF PlaceInv, Place
  <1>6. /\ RowTypes' /\ CallTypes' /\ OperationTypes'
        /\ expert' = [q \in ChatRequests |-> expert'[q]]
        /\ ctxOf' \in [ChatRequests -> {"none", "session", "cancelled", "background"}]
    BY <1>1, <1>3, TypesUnchanged DEF ChatTypes, WriterTypes, OperationTypes
  <1>7. CallFits(w, "auditing", call'[w])
    BY <1>1, <1>5 DEF CallFits
  <1> QED
    BY <1>1, <1>3, <1>4, <1>5, <1>6, <1>7, WriterMoves, PlaceNames

LEMMA AuditMoves ==
    ASSUME ChatTypes, PlaceInv, NEW w \in ChatWriters, AuditExecuted(w)
    PROVE  /\ ChatTypes' /\ PlaceInv' /\ Place(w) = "auditing" /\ wpc[w] = "auditing"
           /\ sending'[w] = sending[w] \/ sending'[w].chunk = Chunk("tool", NoToolCall)
           /\ call[w] # NoToolCall /\ \A v \in ChatWriters : v # w => call'[v] = call[v]
           /\ UNCHANGED <<chatSession, replies, stream, handlers, ctxOf, expert, operations>>
           /\ \A x \in Proposal : audits[x] # {} \/ x = call[w] => audits'[x] # {}
           /\ \/ w \in Confirmations /\ UNCHANGED call /\ Moved(w, "returned")
              \/ w \in ChatRequests /\ NextCall(w) /\ Moved(w, "calls")
  <1>1. /\ wpc[w] = "auditing" /\ Audit(call[w], "executed")
        /\ UNCHANGED <<chatSession, replies, stream, handlers, ctxOf, expert, operations>>
    BY DEF AuditExecuted
  <1>2. Place(w) = "auditing" /\ call[w] # NoToolCall
    BY <1>1, WriterKinds DEF PlaceInv, Place
  <1>3. RowTypes' /\ \A x \in Proposal : audits[x] # {} \/ x = call[w] => audits'[x] # {}
    BY <1>1, Audited DEF ChatTypes
  <1>4. /\ OperationTypes' /\ expert' = [q \in ChatRequests |-> expert'[q]]
        /\ ctxOf' \in [ChatRequests -> {"none", "session", "cancelled", "background"}]
    BY <1>1, TypesUnchanged DEF ChatTypes, WriterTypes, operations
  <1>5. CASE w \in Confirmations
    <2>1. UNCHANGED call /\ WriteChunk(w, Chunk("tool", NoToolCall), "returned")
      BY <1>5 DEF AuditExecuted
    <2>2. /\ Moved(w, "returned")
          /\ sending'[w] = sending[w] \/ sending'[w].chunk = Chunk("tool", NoToolCall)
      BY <2>1, Writes, ToolChunks, PlaceNames
    <2>3. CallTypes' /\ CallFits(w, "returned", call'[w])
      BY <1>5, <2>1, TypesUnchanged, WriterKinds DEF ChatTypes, CallFits
    <2>4. ChatTypes' /\ PlaceInv'
      BY <1>1, <1>3, <1>4, <1>5, <2>1, <2>2, <2>3, WriterMoves, PlaceNames
    <2> QED
      BY <1>1, <1>2, <1>3, <1>5, <2>1, <2>2, <2>4
  <1>6. CASE w \in ChatRequests
    <2>1. NextCall(w) /\ WriteChunk(w, Chunk("tool", NoToolCall), "calls")
      BY <1>6, WriterKinds DEF AuditExecuted
    <2>2. /\ Moved(w, "calls")
          /\ sending'[w] = sending[w] \/ sending'[w].chunk = Chunk("tool", NoToolCall)
      BY <2>1, Writes, ToolChunks, PlaceNames
    <2>3. /\ CallTypes' /\ call'[w] # NoToolCall
          /\ \A v \in ChatWriters : v # w => call'[v] = call[v]
      BY <1>2, <1>6, <2>1, NextCallTypes DEF ChatTypes
    <2>4. CallFits(w, "calls", call'[w])
      BY <1>6, <2>3 DEF CallFits
    <2>5. ChatTypes' /\ PlaceInv'
      BY <1>1, <1>3, <1>4, <2>2, <2>3, <2>4, WriterMoves, PlaceNames
    <2> QED
      BY <1>1, <1>2, <1>3, <1>6, <2>1, <2>2, <2>3, <2>5
  <1> QED
    BY <1>5, <1>6, WriterKinds

LEMMA ConfirmMoves ==
    ASSUME ChatTypes, PlaceInv, NEW c \in Confirmations, NEW x \in Proposal,
           NEW approved \in BOOLEAN, ConfirmProposal(c, x, approved)
    PROVE  /\ ChatTypes' /\ PlaceInv' /\ wpc[c] = "idle" /\ call[c] = NoToolCall
           /\ Place(c) = "idle"
           /\ sending'[c] = sending[c] \/ sending'[c].chunk = Chunk("tool", NoToolCall)
           /\ \A v \in ChatWriters : v # c => call'[v] = call[v]
           /\ UNCHANGED <<chatSession, replies, stream, handlers, ctxOf, expert, ran>>
           /\ proposals' = proposals \ {x}
           /\ \A y \in Proposal : audits[y] # {} => audits'[y] # {}
           /\ \/ /\ x \notin proposals /\ Moved(c, "returned") /\ UNCHANGED <<call, decided>>
              \/ /\ x \in proposals /\ call'[c] = x /\ decided'[x] = decided[x] \cup {approved}
                 /\ \A y \in Proposal : y # x => decided'[y] = decided[y]
                 /\ \/ approved /\ Moved(c, "running") /\ wpc'[c] = "running"
                    \/ ~approved /\ Moved(c, "returned") /\ audits'[x] # {}
  <1>1. /\ wpc[c] = "idle" /\ proposals' = proposals \ {x}
        /\ UNCHANGED <<chatSession, replies, stream, handlers, ctxOf, expert, ran>>
    BY DEF ConfirmProposal, Resolve
  <1>2. c \in ChatWriters /\ c \notin ChatRequests
    BY WriterKinds
  <1>3. Place(c) = "idle" /\ call[c] = NoToolCall
    BY <1>1 DEF PlaceInv, Place
  <1>4. /\ expert' = [q \in ChatRequests |-> expert'[q]]
        /\ ctxOf' \in [ChatRequests -> {"none", "session", "cancelled", "background"}]
    BY <1>1 DEF ChatTypes, WriterTypes
  <1>5. CASE x \notin proposals
    <2>1. WGoto(c, "returned") /\ UNCHANGED <<call, decided, audits, sending>>
      BY <1>5 DEF ConfirmProposal
    <2>2. Moved(c, "returned")
      BY <1>2, <2>1, WriterGoes, PlaceNames
    <2>3. RowTypes' /\ CallTypes' /\ OperationTypes' /\ CallFits(c, "returned", call'[c])
      BY <1>1, <1>2, <2>1, TypesUnchanged DEF ChatTypes, CallFits, chatRows
    <2>4. ChatTypes' /\ PlaceInv'
      BY <1>1, <1>2, <1>4, <2>1, <2>2, <2>3, WriterMoves, PlaceNames
    <2> QED
      BY <1>1, <1>3, <1>5, <2>1, <2>2, <2>4
  <1>6. CASE x \in proposals
    <2>1. /\ call' = [call EXCEPT ![c] = x]
          /\ decided' = [decided EXCEPT ![x] = @ \cup {approved}]
      BY <1>6 DEF ConfirmProposal
    <2>2. call'[c] = x /\ \A v \in ChatWriters : v # c => call'[v] = call[v]
      BY <1>2, <2>1 DEF ChatTypes, CallTypes
    <2>3. CallTypes'
      <3>1. call' = [v \in ChatWriters |-> call'[v]]
        BY <2>1 DEF ChatTypes, CallTypes
      <3> QED
        BY <1>2, <2>2, <3>1, WriterKinds DEF ChatTypes, CallTypes
    <2>4. /\ OperationTypes' /\ decided'[x] = decided[x] \cup {approved}
          /\ \A y \in Proposal : y # x => decided'[y] = decided[y]
      BY <1>1, <2>1 DEF ChatTypes, OperationTypes
    <2>5. x # NoToolCall
      BY CallParts
    <2>6. CASE approved
      <3>1. WGoto(c, "running") /\ UNCHANGED <<audits, sending>>
        BY <1>6, <2>6 DEF ConfirmProposal
      <3>2. Moved(c, "running") /\ wpc'[c] = "running"
        BY <1>2, <3>1, WriterGoes, PlaceNames
      <3>3. RowTypes' /\ CallFits(c, "running", call'[c])
        BY <1>1, <1>2, <2>2, <2>5, <3>1, TypesUnchanged DEF ChatTypes, CallFits, chatRows
      <3>4. ChatTypes' /\ PlaceInv'
        BY <1>1, <1>2, <1>4, <2>2, <2>3, <2>4, <3>2, <3>3, WriterMoves, PlaceNames
      <3> QED
        BY <1>1, <1>3, <1>6, <2>2, <2>4, <2>6, <3>1, <3>2, <3>4
    <2>7. CASE ~approved
      <3>1. Audit(x, "rejected") /\ WriteChunk(c, Chunk("tool", NoToolCall), "returned")
        BY <1>6, <2>7 DEF ConfirmProposal
      <3>2. /\ Moved(c, "returned")
            /\ sending'[c] = sending[c] \/ sending'[c].chunk = Chunk("tool", NoToolCall)
        BY <1>2, <3>1, Writes, ToolChunks, PlaceNames
      <3>3. /\ RowTypes' /\ \A y \in Proposal : audits[y] # {} => audits'[y] # {}
            /\ audits'[x] # {} /\ CallFits(c, "returned", call'[c])
        BY <1>1, <1>2, <3>1, Audited DEF ChatTypes, CallFits
      <3>4. ChatTypes' /\ PlaceInv'
        BY <1>1, <1>2, <1>4, <2>2, <2>3, <2>4, <3>2, <3>3, WriterMoves, PlaceNames
      <3> QED
        BY <1>1, <1>3, <1>6, <2>2, <2>4, <2>7, <3>2, <3>3, <3>4
    <2> QED
      BY <2>6, <2>7
  <1> QED
    BY <1>5, <1>6

-----------------------------------------------------------------------------
(* The authorization of operations.                                        *)

\* The request of a proposal went on to its later calls.
PassedCall(x) == call[x[1]] # NoToolCall /\ call[x[1]][2] > x[2]
Unheld(x) == \A c \in Confirmations : call[c] # x
Fresh(x) == ran[x] = 0 /\ decided[x] = {} /\ Unheld(x)
NeedsAnswer(x) == FindVerb(Command(x)) # NoVerb /\ NeedsConfirm(x)
AtOnce(x) == FindVerb(Command(x)) # NoVerb /\ ~NeedsConfirm(x)

\* What holds of the proposal that a request is at, and of one being confirmed.
AtIt(x) ==
    /\ decided[x] = {} /\ Unheld(x)
    /\ Place(x[1]) \in {"calls", "running"} => ran[x] = 0
    /\ Place(x[1]) = "running" \/ ran[x] > 0 => AtOnce(x)
ConfirmedBy(c, x) ==
    /\ NeedsAnswer(x) /\ PassedCall(x) /\ x \notin proposals
    /\ \E approved \in BOOLEAN : decided[x] = {approved}
    /\ Place(c) = "running" => ran[x] = 0
    /\ Place(c) \in {"running", "auditing"} => decided[x] = {TRUE}
    /\ \A d \in Confirmations : call[d] = x => d = c

\* A proposal is run by the request that it came with, at once, or by the one
\* confirmation that took it from the store.
OpInv(x) ==
    /\ x \in proposals => Fresh(x) /\ NeedsAnswer(x) /\ PassedCall(x)
    /\ ~PassedCall(x) /\ call[x[1]] # x => Fresh(x)
    /\ call[x[1]] = x => AtIt(x)
    /\ \A c \in Confirmations : call[c] = x => ConfirmedBy(c, x)
    /\ ran[x] > 0 =>
          /\ ran[x] = 1
          /\ (NeedsAnswer(x) /\ decided[x] = {TRUE}) \/ (AtOnce(x) /\ decided[x] = {})

\* A command depends on what was read from the expert, and on nothing else.
LEMMA CommandKept ==
    ASSUME NEW x \in Proposal, expert'[x[1]] = expert[x[1]]
    PROVE  /\ Command(x)' = Command(x) /\ NeedsConfirm(x)' = NeedsConfirm(x)
           /\ NeedsAnswer(x)' = NeedsAnswer(x) /\ AtOnce(x)' = AtOnce(x)
  <1>1. Command(x)' = Command(x)
    BY DEF Command, ExpertOutput
  <1>2. NeedsConfirm(x)' = NeedsConfirm(x)
    BY <1>1 DEF NeedsConfirm
  <1> QED
    BY <1>1, <1>2 DEF NeedsAnswer, AtOnce

\* What no step of w is about stays as it is.
LEMMA OpAside ==
    ASSUME ChatTypes, NEW x \in Proposal, OpInv(x), NEW w \in ChatWriters,
           \A v \in ChatWriters : v # w => call'[v] = call[v] /\ Place(v)' = Place(v),
           call[w] # x, call'[w] # x, ran'[x] = ran[x], decided'[x] = decided[x],
           x \in proposals' => x \in proposals,
           \/ expert'[x[1]] = expert[x[1]]
           \/ Fresh(x) /\ x \notin proposals /\ call[x[1]] # x,
           w = x[1] => (PassedCall(x)' <=> PassedCall(x))
    PROVE  OpInv(x)'
  <1>1. x[1] \in ChatRequests /\ x[1] \in ChatWriters
    BY CallParts, WriterKinds
  <1>2. PassedCall(x)' <=> PassedCall(x)
    BY <1>1 DEF PassedCall
  <1>3. \A c \in Confirmations : (call'[c] = x <=> call[c] = x)
                                 /\ (call[c] = x => Place(c)' = Place(c))
    BY WriterKinds
  <1>4. Unheld(x)' <=> Unheld(x)
    BY <1>3 DEF Unheld
  <1>5. Fresh(x)' <=> Fresh(x)
    BY <1>4 DEF Fresh
  <1>6. call'[x[1]] = x <=> call[x[1]] = x
    BY <1>1
  <1>7. ran[x] \in Nat
    BY DEF ChatTypes, OperationTypes
  <1>8. CASE Fresh(x) /\ x \notin proposals /\ call[x[1]] # x
    BY <1>2, <1>3, <1>4, <1>5, <1>6, <1>7, <1>8 DEF OpInv, Fresh, Unheld
  <1>9. CASE expert'[x[1]] = expert[x[1]]
    <2>1. NeedsAnswer(x)' = NeedsAnswer(x) /\ AtOnce(x)' = AtOnce(x)
      BY <1>9, CommandKept
    <2>2. call[x[1]] = x => AtIt(x)'
      <3>1. call[x[1]] = x => Place(x[1])' = Place(x[1])
        BY <1>1
      <3> QED
        BY <1>4, <2>1, <3>1 DEF OpInv, AtIt
    <2>3. ASSUME NEW c \in Confirmations, call'[c] = x
          PROVE  ConfirmedBy(c, x)'
      <3>1. call[c] = x /\ ConfirmedBy(c, x) /\ Place(c)' = Place(c)
        BY <1>3, <2>3 DEF OpInv
      <3> QED
        BY <1>2, <1>3, <2>1, <3>1 DEF ConfirmedBy
    <2> QED
      BY <1>2, <1>5, <1>6, <2>1, <2>2, <2>3 DEF OpInv
  <1> QED
    BY <1>8, <1>9

LEMMA OpQuiet ==
    ASSUME NEW x \in Proposal, OpInv(x), Quiet
    PROVE  OpInv(x)'
  <1>1. x[1] \in ChatWriters /\ \A c \in Confirmations : c \in ChatWriters
    BY CallParts, WriterKinds
  <1>2. UNCHANGED <<expert, call, decided, ran>> /\ (x \in proposals' => x \in proposals)
    BY DEF Quiet
  <1>3. NeedsAnswer(x)' = NeedsAnswer(x) /\ AtOnce(x)' = AtOnce(x)
    BY <1>2, CommandKept
  <1>4. \A v \in ChatWriters :
           Place(v)' \in {"calls", "running", "auditing"} => Place(v)' = Place(v)
    BY DEF Quiet
  <1>5. PassedCall(x)' = PassedCall(x) /\ Fresh(x)' = Fresh(x) /\ Unheld(x)' = Unheld(x)
    BY <1>2 DEF PassedCall, Fresh, Unheld
  <1>6. call[x[1]] = x => AtIt(x)'
    BY <1>1, <1>2, <1>3, <1>4, <1>5 DEF OpInv, AtIt
  <1>7. ASSUME NEW c \in Confirmations, call[c] = x PROVE ConfirmedBy(c, x)'
    BY <1>1, <1>2, <1>3, <1>4, <1>5, <1>7 DEF OpInv, ConfirmedBy
  <1> QED
    BY <1>2, <1>3, <1>5, <1>6, <1>7 DEF OpInv

\* A request goes on to its next call.
LEMMA PassedNext ==
    ASSUME ChatTypes, NEW x \in Proposal, NextCall(x[1]), call[x[1]] # NoToolCall
    PROVE  /\ call[x[1]] = x => PassedCall(x)'
           /\ call[x[1]] # x /\ call'[x[1]] # x => (PassedCall(x)' <=> PassedCall(x))
           /\ call'[x[1]] = x => ~PassedCall(x)
           /\ call[x[1]] = x => call'[x[1]] # x
  <1>1. x[1] \in ChatRequests /\ x[2] \in Positive /\ x = <<x[1], x[2]>>
    BY CallParts
  <1>2. PICK k \in Positive : call[x[1]] = <<x[1], k>>
    BY <1>1 DEF ChatTypes, CallTypes
  <1>3. call'[x[1]] = <<x[1], k + 1>> /\ call'[x[1]] # NoToolCall
    BY <1>1, <1>2, NextCallTypes DEF ChatTypes
  <1>4. k \in Nat /\ x[2] \in Nat
    BY <1>1 DEF Positive
  <1>5. (PassedCall(x) <=> k > x[2]) /\ (PassedCall(x)' <=> k + 1 > x[2])
    BY <1>2, <1>3 DEF PassedCall
  <1>6. call[x[1]] = x <=> k = x[2]
    BY <1>1, <1>2
  <1>7. call'[x[1]] = x <=> k + 1 = x[2]
    BY <1>1, <1>3
  <1> QED
    BY <1>4, <1>5, <1>6, <1>7

\* Only a proposal's own request is at it.
LEMMA OwnRequest ==
    ASSUME CallTypes, NEW x \in Proposal, NEW r \in ChatRequests, call[r] = x
    PROVE  r = x[1]
  <1>1. x # NoToolCall
    BY CallParts
  <1>2. PICK k \in Positive : call[r] = <<r, k>>
    BY <1>1 DEF CallTypes
  <1> QED
    BY <1>2

LEMMA OpInvInit == ASSUME ChatInit, NEW x \in Proposal PROVE OpInv(x)
  <1>1. x[1] \in ChatRequests /\ x # NoToolCall
    BY CallParts
  <1>2. \A w \in ChatWriters : call[w] = NoToolCall
    BY DEF ChatInit
  <1>3. ran[x] = 0 /\ decided[x] = {} /\ proposals = {} /\ Unheld(x) /\ call[x[1]] # x
    BY <1>1, <1>2, WriterKinds DEF ChatInit, Unheld
  <1> QED
    BY <1>3 DEF OpInv, Fresh, Unheld

\* While the expert is read its request has no call, and no proposal of it is
\* there for the command of it to change.
LEMMA OpExpert ==
    ASSUME ChatTypes, PlaceInv, NEW x \in Proposal, OpInv(x), NEW r \in ChatRequests,
           ExpertChunk(r) \/ ExpertEnds(r) \/ ExpertFails(r)
    PROVE  OpInv(x)'
  <1>1. /\ x[1] \in ChatRequests /\ x[2] \in Positive /\ x = <<x[1], x[2]>> /\ x # NoToolCall
        /\ r \in ChatWriters /\ r \notin Confirmations
    BY CallParts, WriterKinds
  <1>2. PICK next \in {"asking", "calls"} :
            /\ Moved(r, next) /\ call[r] = NoToolCall /\ UNCHANGED operations
            /\ \A v \in ChatWriters : v # r => call'[v] = call[v]
            /\ \A q \in ChatRequests : q # r => expert'[q] = expert[q]
            /\ (next = "asking" /\ call'[r] = NoToolCall) \/ (next = "calls" /\ call'[r] = <<r, 1>>)
            /\ ChatTypes'
    <2>1. CASE ExpertChunk(r)
      BY <2>1, ExpertChunkMoves
    <2>2. CASE ExpertEnds(r) \/ ExpertFails(r)
      BY <2>2, FirstCallMoves
    <2> QED
      BY <2>1, <2>2
  <1>3. ran' = ran /\ decided' = decided /\ proposals' = proposals
    BY <1>2 DEF operations
  <1>4. \A v \in ChatWriters : v # r => Place(v)' = Place(v)
    BY <1>2 DEF Moved
  <1>5. CASE x[1] # r
    <2>1. call[r] # x /\ call'[r] # x
      BY <1>1, <1>2, <1>5
    <2> QED
      BY <1>1, <1>2, <1>3, <1>4, <1>5, <2>1, OpAside
  <1>6. CASE x[1] = r
    <2>1. ~PassedCall(x) /\ call[x[1]] # x
      BY <1>1, <1>2, <1>6 DEF PassedCall
    <2>2. Fresh(x) /\ x \notin proposals
      BY <2>1 DEF OpInv
    <2>3. Fresh(x)' /\ x \notin proposals' /\ Unheld(x)'
      BY <1>1, <1>2, <1>3, <2>2, WriterKinds DEF Fresh, Unheld
    <2>4. call'[x[1]] = x => AtIt(x)'
      BY <2>3, <1>2, <1>6 DEF AtIt, Fresh, Moved
    <2> QED
      BY <2>3, <2>4 DEF OpInv, Fresh, Unheld
  <1> QED
    BY <1>5, <1>6

\* A request that goes on to its next call matters to no other than the two.
LEMMA OpNext ==
    ASSUME ChatTypes, NEW x \in Proposal, OpInv(x), NEW r \in ChatRequests,
           Moved(r, "calls"), call[r] # NoToolCall, NextCall(r), call[r] # x,
           \A v \in ChatWriters : v # r => call'[v] = call[v],
           expert' = expert, ran'[x] = ran[x], decided'[x] = decided[x],
           x \in proposals' => x \in proposals
    PROVE  OpInv(x)'
  <1>1. r \in ChatWriters /\ r \notin Confirmations
    BY WriterKinds
  <1>2. Place(r)' = "calls" /\ \A v \in ChatWriters : v # r => Place(v)' = Place(v)
    BY DEF Moved
  <1>3. CASE call'[r] # x
    <2>1. r = x[1] => (PassedCall(x)' <=> PassedCall(x))
      BY <1>3, PassedNext
    <2> QED
      BY <1>1, <1>2, <1>3, <2>1, OpAside
  <1>4. CASE call'[r] = x
    <2>1. r = x[1]
      BY <1>4, NextCallTypes DEF ChatTypes
    <2>2. ~PassedCall(x) /\ call[x[1]] # x
      BY <1>4, <2>1, PassedNext
    <2>3. Fresh(x) /\ x \notin proposals
      BY <2>2 DEF OpInv
    <2>4. Fresh(x)' /\ x \notin proposals' /\ Unheld(x)'
      BY <1>1, <2>3, WriterKinds DEF Fresh, Unheld
    <2>5. AtIt(x)'
      BY <1>2, <2>1, <2>4 DEF AtIt, Fresh
    <2> QED
      BY <2>4, <2>5 DEF OpInv, Fresh, Unheld
  <1> QED
    BY <1>3, <1>4

LEMMA OpRefuse ==
    ASSUME ChatTypes, PlaceInv, NEW x \in Proposal, OpInv(x), NEW r \in ChatRequests,
           RefuseCall(r)
    PROVE  OpInv(x)'
  <1>1. /\ Moved(r, "calls") /\ call[r] # NoToolCall /\ NextCall(r) /\ Place(r) = "calls"
        /\ \A v \in ChatWriters : v # r => call'[v] = call[v]
        /\ expert' = expert /\ ran' = ran /\ decided' = decided /\ proposals' = proposals
    BY RefuseMoves, AtCallHasOne DEF operations
  <1>2. CASE call[r] # x
    BY <1>1, <1>2, OpNext
  <1>3. CASE call[r] = x
    <2>1. r = x[1]
      BY <1>3, OwnRequest DEF ChatTypes
    <2>2. PassedCall(x)' /\ call'[x[1]] # x
      BY <1>1, <1>3, <2>1, PassedNext
    <2>3. Fresh(x) /\ x \notin proposals
      <3>1. ~PassedCall(x)
        BY <1>3, <2>1, CallParts DEF PassedCall, Positive
      <3> QED
        BY <1>1, <1>3, <2>1, <3>1 DEF OpInv, AtIt, Fresh
    <2>4. Fresh(x)' /\ x \notin proposals' /\ Unheld(x)'
      BY <1>1, <2>1, <2>3, WriterKinds DEF Fresh, Unheld
    <2> QED
      BY <2>2, <2>4 DEF OpInv, Fresh, Unheld
  <1> QED
    BY <1>2, <1>3

LEMMA OpPropose ==
    ASSUME ChatTypes, PlaceInv, NEW x \in Proposal, OpInv(x), NEW r \in ChatRequests,
           ProposeCall(r)
    PROVE  OpInv(x)'
  <1>1. /\ call[r] # NoToolCall /\ FindVerb(Command(call[r])) # NoVerb /\ Place(r) = "calls"
        /\ \A v \in ChatWriters : v # r => call'[v] = call[v]
        /\ expert' = expert /\ ran' = ran /\ decided' = decided
        /\ r \in ChatWriters /\ r \notin Confirmations
    BY ProposeMoves, AtCallHasOne, WriterKinds
  <1>2. \/ /\ NeedsConfirm(call[r]) /\ NextCall(r) /\ Moved(r, "calls")
           /\ proposals' = proposals \cup {call[r]}
        \/ /\ ~NeedsConfirm(call[r]) /\ UNCHANGED <<proposals, call>>
           /\ Moved(r, "running")
    BY ProposeMoves
  <1>3. \A v \in ChatWriters : v # r => Place(v)' = Place(v)
    BY <1>2 DEF Moved
  <1>4. CASE call[r] # x
    <2>1. CASE NextCall(r) /\ Moved(r, "calls") /\ proposals' = proposals \cup {call[r]}
      BY <1>1, <1>4, <2>1, OpNext
    <2>2. CASE UNCHANGED <<proposals, call>>
      <3>1. r = x[1] => (PassedCall(x)' <=> PassedCall(x))
        BY <2>2 DEF PassedCall
      <3> QED
        BY <1>1, <1>3, <1>4, <2>2, <3>1, OpAside
    <2> QED
      BY <1>2, <2>1, <2>2
  <1>5. CASE call[r] = x
    <2>1. r = x[1]
      BY <1>5, OwnRequest DEF ChatTypes
    <2>2. Fresh(x) /\ ~PassedCall(x) /\ x \notin proposals
      <3>1. ~PassedCall(x)
        BY <1>5, <2>1, CallParts DEF PassedCall, Positive
      <3> QED
        BY <1>1, <1>5, <2>1, <3>1 DEF OpInv, AtIt, Fresh
    <2>3. Fresh(x)' /\ Unheld(x)'
      BY <1>1, <2>1, <2>2, WriterKinds DEF Fresh, Unheld
    <2>4. NeedsAnswer(x)' = NeedsAnswer(x) /\ AtOnce(x)' = AtOnce(x)
      BY <1>1, CommandKept
    <2>5. CASE NeedsConfirm(x) /\ NextCall(r)
      <3>1. PassedCall(x)' /\ call'[x[1]] # x
        BY <1>1, <1>5, <2>1, <2>5, PassedNext
      <3>2. NeedsAnswer(x)
        BY <1>1, <1>5, <2>5 DEF NeedsAnswer
      <3> QED
        BY <2>3, <2>4, <3>1, <3>2 DEF OpInv, Fresh, Unheld
    <2>6. CASE ~NeedsConfirm(x) /\ UNCHANGED <<proposals, call>>
      <3>1. AtOnce(x) /\ x \notin proposals'
        BY <1>1, <1>5, <2>2, <2>6 DEF AtOnce
      <3>2. AtIt(x)'
        BY <2>3, <2>4, <3>1 DEF AtIt, Fresh
      <3> QED
        BY <2>3, <3>1, <3>2 DEF OpInv, Fresh, Unheld
    <2> QED
      BY <1>2, <1>5, <2>5, <2>6
  <1> QED
    BY <1>4, <1>5

LEMMA OpExecute ==
    ASSUME ChatTypes, PlaceInv, NEW x \in Proposal, OpInv(x), NEW w \in ChatWriters,
           Execute(w)
    PROVE  OpInv(x)'
  <1>1. /\ Place(w) = "running" /\ Place(w)' = "auditing"
        /\ expert' = expert /\ call' = call /\ proposals' = proposals /\ decided' = decided
        /\ x # call[w] => ran'[x] = ran[x]
        /\ x = call[w] => ran'[x] = ran[x] \/ ran'[x] = ran[x] + 1
        /\ \A v \in ChatWriters : v # w => Place(v)' = Place(v)
    BY ExecuteMoves DEF Moved
  <1>2. CASE call[w] # x
    <2>1. PassedCall(x)' <=> PassedCall(x)
      BY <1>1 DEF PassedCall
    <2> QED
      BY <1>1, <1>2, <2>1, OpAside
  <1>3. CASE call[w] = x
    <2>1. /\ NeedsAnswer(x)' = NeedsAnswer(x) /\ AtOnce(x)' = AtOnce(x)
          /\ PassedCall(x)' = PassedCall(x)
          /\ Unheld(x)' = Unheld(x)
      BY <1>1, CommandKept DEF PassedCall, Unheld
    <2>2. ran[x] \in Nat
      BY DEF ChatTypes, OperationTypes
    <2>3. CASE w \in ChatRequests
      <3>1. w = x[1] /\ w \notin Confirmations
        BY <1>3, <2>3, OwnRequest, WriterKinds DEF ChatTypes
      <3>2. AtIt(x) /\ ran[x] = 0 /\ AtOnce(x) /\ decided[x] = {} /\ Unheld(x)
        BY <1>1, <1>3, <3>1 DEF OpInv, AtIt
      <3>3. x \notin proposals
        BY <1>3, <3>1, CallParts DEF OpInv, PassedCall, Positive
      <3>4. AtIt(x)'
        BY <1>1, <2>1, <3>1, <3>2 DEF AtIt
      <3>5. ran'[x] \in {0, 1}
        BY <1>1, <1>3, <3>2
      <3> QED
        BY <1>1, <1>3, <2>1, <3>1, <3>2, <3>3, <3>4, <3>5 DEF OpInv, Unheld
    <2>4. CASE w \in Confirmations
      <3>1. /\ ConfirmedBy(w, x) /\ ran[x] = 0 /\ decided[x] = {TRUE}
            /\ NeedsAnswer(x) /\ PassedCall(x)
            /\ x \notin proposals /\ \A d \in Confirmations : call[d] = x => d = w
        BY <1>1, <1>3, <2>4 DEF OpInv, ConfirmedBy
      <3>2. call[x[1]] # x
        BY <3>1, CallParts DEF PassedCall, Positive
      <3>3. ConfirmedBy(w, x)'
        BY <1>1, <2>1, <3>1 DEF ConfirmedBy
      <3>4. ran'[x] \in {0, 1}
        BY <1>1, <1>3, <3>1
      <3> QED
        BY <1>1, <2>1, <3>1, <3>2, <3>3, <3>4 DEF OpInv
    <2> QED
      BY <2>3, <2>4, WriterKinds
  <1> QED
    BY <1>2, <1>3

LEMMA OpAudit ==
    ASSUME ChatTypes, PlaceInv, NEW x \in Proposal, OpInv(x), NEW w \in ChatWriters,
           AuditExecuted(w)
    PROVE  OpInv(x)'
  <1>1. /\ Place(w) = "auditing" /\ call[w] # NoToolCall
        /\ \A v \in ChatWriters : v # w => call'[v] = call[v]
        /\ expert' = expert /\ proposals' = proposals /\ decided' = decided /\ ran' = ran
    BY AuditMoves DEF operations
  <1>2. \/ w \in Confirmations /\ UNCHANGED call /\ Moved(w, "returned")
        \/ w \in ChatRequests /\ NextCall(w) /\ Moved(w, "calls")
    BY AuditMoves
  <1>3. /\ NeedsAnswer(x)' = NeedsAnswer(x) /\ AtOnce(x)' = AtOnce(x)
    BY <1>1, CommandKept
  <1>4. CASE w \in Confirmations /\ UNCHANGED call /\ Moved(w, "returned")
    <2>1. PassedCall(x)' = PassedCall(x) /\ Unheld(x)' = Unheld(x) /\ Fresh(x)' = Fresh(x)
      BY <1>1, <1>4 DEF PassedCall, Unheld, Fresh
    <2>2. Place(w)' = "returned" /\ \A v \in ChatWriters : v # w => Place(v)' = Place(v)
      BY <1>4 DEF Moved
    <2>3. x[1] # w /\ x[1] \in ChatWriters
      BY <1>4, CallParts, WriterKinds
    <2>4. call[x[1]] = x => AtIt(x)'
      BY <1>1, <1>3, <2>1, <2>2, <2>3 DEF OpInv, AtIt
    <2>5. ASSUME NEW c \in Confirmations, call[c] = x PROVE ConfirmedBy(c, x)'
      <3>1. ConfirmedBy(c, x) /\ c \in ChatWriters
        BY <2>5, WriterKinds DEF OpInv
      <3> QED
        BY <1>1, <1>3, <1>4, <2>1, <2>2, <3>1 DEF ConfirmedBy
    <2> QED
      BY <1>1, <1>3, <1>4, <2>1, <2>4, <2>5 DEF OpInv
  <1>5. CASE w \in ChatRequests /\ NextCall(w) /\ Moved(w, "calls")
    <2>1. CASE call[w] # x
      BY <1>1, <1>5, <2>1, OpNext
    <2>2. CASE call[w] = x
      <3>1. w = x[1] /\ w \notin Confirmations
        BY <1>5, <2>2, OwnRequest, WriterKinds DEF ChatTypes
      <3>2. AtIt(x) /\ decided[x] = {} /\ Unheld(x) /\ x \notin proposals
        BY <2>2, <3>1, CallParts DEF OpInv, AtIt, PassedCall, Positive
      <3>3. PassedCall(x)' /\ call'[x[1]] # x
        BY <1>1, <1>5, <2>2, <3>1, PassedNext
      <3>4. Unheld(x)'
        BY <1>1, <3>1, <3>2, WriterKinds DEF Unheld
      <3> QED
        BY <1>1, <1>3, <3>2, <3>3, <3>4 DEF OpInv, Unheld
    <2> QED
      BY <2>1, <2>2
  <1> QED
    BY <1>2, <1>4, <1>5

LEMMA OpConfirm ==
    ASSUME ChatTypes, PlaceInv, NEW x \in Proposal, OpInv(x), NEW c \in Confirmations,
           NEW y \in Proposal, NEW approved \in BOOLEAN, ConfirmProposal(c, y, approved)
    PROVE  OpInv(x)'
  <1>1. /\ call[c] = NoToolCall /\ proposals' = proposals \ {y}
        /\ \A v \in ChatWriters : v # c => call'[v] = call[v]
        /\ expert' = expert /\ ran' = ran /\ c \in ChatWriters /\ c \notin ChatRequests
    BY ConfirmMoves, WriterKinds
  <1>2. \/ /\ y \notin proposals /\ Moved(c, "returned") /\ UNCHANGED <<call, decided>>
        \/ /\ y \in proposals /\ call'[c] = y /\ decided'[y] = decided[y] \cup {approved}
           /\ \A z \in Proposal : z # y => decided'[z] = decided[z]
           /\ (approved /\ Moved(c, "running")) \/ (~approved /\ Moved(c, "returned"))
    BY ConfirmMoves
  <1>3. x # NoToolCall /\ y # NoToolCall /\ x[1] \in ChatRequests /\ x[1] # c
    BY <1>1, CallParts
  <1>4. \A v \in ChatWriters : v # c => Place(v)' = Place(v)
    BY <1>2 DEF Moved
  <1>5. CASE x # y \/ y \notin proposals
    <2>1. call'[c] # x /\ decided'[x] = decided[x] /\ (x \in proposals' => x \in proposals)
      BY <1>1, <1>2, <1>3, <1>5
    <2> QED
      BY <1>1, <1>3, <1>4, <2>1, OpAside
  <1>6. CASE x = y /\ y \in proposals
    <2>1. Fresh(x) /\ NeedsAnswer(x) /\ PassedCall(x)
      BY <1>6 DEF OpInv
    <2>2. call[x[1]] # x /\ call'[x[1]] = call[x[1]]
      BY <1>1, <1>3, <2>1, CallParts, WriterKinds DEF PassedCall, Positive
    <2>3. PassedCall(x)' /\ NeedsAnswer(x)'
      BY <1>1, <2>1, <2>2, CommandKept DEF PassedCall
    <2>4. decided'[x] = {approved} /\ ran'[x] = 0 /\ x \notin proposals' /\ call'[c] = x
      BY <1>1, <1>2, <1>6, <2>1 DEF Fresh
    <2>5. \A d \in Confirmations : call'[d] = x => d = c
      BY <1>1, <2>1, WriterKinds DEF Fresh, Unheld
    <2>6. Place(c)' \in {"running", "auditing"} => approved
      BY <1>2, <1>6 DEF Moved
    <2>7. ConfirmedBy(c, x)'
      BY <2>3, <2>4, <2>5, <2>6 DEF ConfirmedBy
    <2> QED
      BY <2>2, <2>3, <2>4, <2>5, <2>7 DEF OpInv
  <1> QED
    BY <1>5, <1>6

LEMMA OpenQuiet ==
    ASSUME ChatTypes, PlaceInv, NEW r \in ChatRequests, Open(r)
    PROVE  Quiet
  <1>1. UNCHANGED <<chatRows, expert, call, operations>>
    BY DEF Open
  <1>2. /\ \A v \in ChatWriters : v # r => Place(v)' = Place(v) /\ wpc'[v] = wpc[v]
        /\ Place(r)' = "storing" /\ wpc[r] = "idle"
    BY OpenKeeps
  <1> QED
    BY <1>1, <1>2 DEF Quiet, chatRows, operations

LEMMA SendQuiet ==
    ASSUME ChatTypes, PlaceInv, NEW w \in ChatWriters, SendChunk(w)
    PROVE  Quiet
  <1>1. /\ \A v \in ChatWriters :
              /\ Place(v)' = Place(v) \/ Place(v)' = "dead"
              /\ wpc'[v] = wpc[v] \/ wpc'[v] = "dead" \/ wpc[v] = "writing"
        /\ proposals' \subseteq proposals
        /\ UNCHANGED <<chatRows, expert, call, decided, ran>>
    BY SendPlaces
  <1> QED
    BY <1>1 DEF Quiet, chatRows

\* The step of the whole module, by what it does to calls and decisions.
LEMMA ChatSteps ==
    ASSUME ChatTypes, PlaceInv, [ChatNext]_chatVars
    PROVE  /\ ChatTypes' /\ PlaceInv'
           /\ \/ Quiet
              \/ \E r \in ChatRequests : \/ ExpertChunk(r) \/ ExpertEnds(r) \/ ExpertFails(r)
                                         \/ RefuseCall(r) \/ ProposeCall(r)
              \/ \E w \in ChatWriters : Execute(w) \/ AuditExecuted(w)
              \/ \E c \in Confirmations, x \in Proposal, approved \in BOOLEAN :
                    ConfirmProposal(c, x, approved)
  <1>1. CASE UNCHANGED chatVars
    <2>1. /\ UNCHANGED <<chatRows, stream, handlers, operations, wpc, sending, ctxOf, expert, call>>
          /\ UNCHANGED <<hpc, decided, ran>>
      BY <1>1 DEF chatVars, writers, handlers, operations
    <2>2. ChatTypes'
      BY <2>1, TypesUnchanged DEF ChatTypes
    <2>3. \A v \in ChatWriters : Place(v)' = Place(v) /\ wpc'[v] = wpc[v]
      BY <2>1 DEF Place
    <2>4. PlaceInv'
      BY <2>1, <2>3, WriterKinds DEF PlaceInv
    <2>5. Quiet
      BY <2>1, <2>3 DEF Quiet, operations, chatRows
    <2> QED
      BY <2>2, <2>4, <2>5
  <1>2. ASSUME NEW r \in ChatRequests, Open(r) PROVE ChatTypes' /\ PlaceInv' /\ Quiet
    BY <1>2, OpenKeeps, OpenQuiet
  <1>3. ASSUME NEW r \in ChatRequests,
               ForwardChunk(r) \/ ClientGone(r) \/ HandlerReturns(r) \/ DeleteSession
        PROVE  ChatTypes' /\ PlaceInv' /\ Quiet
    BY <1>3, HandlerSteps
  <1>4. ASSUME NEW r \in ChatRequests, StoreUserMessage(r) \/ Reply(r)
        PROVE  ChatTypes' /\ PlaceInv' /\ Quiet
    BY <1>4, QuietWriter
  <1>5. ASSUME NEW r \in ChatRequests, \/ ExpertChunk(r) \/ ExpertEnds(r) \/ ExpertFails(r)
                                       \/ RefuseCall(r) \/ ProposeCall(r)
        PROVE  ChatTypes' /\ PlaceInv'
    BY <1>5, ExpertChunkMoves, FirstCallMoves, RefuseMoves, ProposeMoves
  <1>6. ASSUME NEW w \in ChatWriters, SendChunk(w) PROVE ChatTypes' /\ PlaceInv' /\ Quiet
    BY <1>6, SendPlaces, SendQuiet
  <1>7. ASSUME NEW w \in ChatWriters, Execute(w) \/ AuditExecuted(w)
        PROVE  ChatTypes' /\ PlaceInv'
    BY <1>7, ExecuteMoves, AuditMoves
  <1>8. ASSUME NEW c \in Confirmations, NEW x \in Proposal, NEW approved \in BOOLEAN,
               ConfirmProposal(c, x, approved)
        PROVE  ChatTypes' /\ PlaceInv'
    BY <1>8, ConfirmMoves
  <1>9. CASE DeleteSession
    <2>1. CASE ChatRequests = {}
      <3>1. /\ chatSession' = FALSE /\ replies' = [q \in ChatRequests |-> <<>>]
            /\ UNCHANGED <<audits, stream, handlers, writers, operations>>
        BY <1>9 DEF DeleteSession
      <3>2. RowTypes'
        BY <2>1, <3>1 DEF ChatTypes, RowTypes
      <3>3. UNCHANGED <<wpc, sending, ctxOf, expert, call, decided, ran, proposals, hpc>>
        BY <3>1 DEF writers, operations, handlers
      <3>4. ChatTypes'
        BY <3>1, <3>2, <3>3, TypesUnchanged DEF ChatTypes
      <3>5. \A v \in ChatWriters : Place(v)' = Place(v) /\ wpc'[v] = wpc[v]
        BY <3>3 DEF Place
      <3>6. PlaceInv'
        BY <3>3, <3>5, WriterKinds DEF PlaceInv
      <3>7. Quiet
        BY <3>1, <3>3, <3>5 DEF Quiet
      <3> QED
        BY <3>4, <3>6, <3>7
    <2>2. CASE ChatRequests # {}
      BY <1>3, <1>9, <2>2
    <2> QED
      BY <2>1, <2>2
  <1> QED
    BY <1>1, <1>2, <1>3, <1>4, <1>5, <1>6, <1>7, <1>8, <1>9 DEF ChatNext

LEMMA OpInvStep ==
    ASSUME ChatTypes, PlaceInv, NEW x \in Proposal, OpInv(x), [ChatNext]_chatVars
    PROVE  OpInv(x)'
  <1>1. CASE Quiet
    BY <1>1, OpQuiet
  <1>2. ASSUME NEW r \in ChatRequests, \/ ExpertChunk(r) \/ ExpertEnds(r) \/ ExpertFails(r)
                                       \/ RefuseCall(r) \/ ProposeCall(r)
        PROVE  OpInv(x)'
    BY <1>2, OpExpert, OpRefuse, OpPropose
  <1>3. ASSUME NEW w \in ChatWriters, Execute(w) \/ AuditExecuted(w)
        PROVE  OpInv(x)'
    BY <1>3, OpExecute, OpAudit
  <1>4. ASSUME NEW c \in Confirmations, NEW y \in Proposal, NEW approved \in BOOLEAN,
               ConfirmProposal(c, y, approved)
        PROVE  OpInv(x)'
    BY <1>4, OpConfirm
  <1> QED
    BY <1>1, <1>2, <1>3, <1>4, ChatSteps

\* What changes something is destructive, mutating or a signal, and runs at
\* once in trust mode only, a destructive operation never.
LEMMA VerbKinds ==
    /\ DestructiveVerbs \cap (ReadOnlyVerbs \cup MutatingVerbs \cup SignalVerbs) = {}
    /\ \A cmd : RunsAtOnce(cmd) =>
          /\ FindVerb(cmd) \notin DestructiveVerbs
          /\ FindVerb(cmd) \notin ReadOnlyVerbs => TrustMode
  <1>1. \A v \in DestructiveVerbs : v \notin ReadOnlyVerbs /\ v \notin MutatingVerbs
                                    /\ v \notin SignalVerbs
    BY DEF DestructiveVerbs, ReadOnlyVerbs, MutatingVerbs, SignalVerbs
  <1> QED
    BY <1>1 DEF RunsAtOnce

LEMMA Authorized ==
    ASSUME OperationTypes, \A x \in Proposal : OpInv(x)
    PROVE  OpsAuthorized
  <1> SUFFICES ASSUME NEW x \in Proposal, ran[x] > 0
               PROVE  /\ ran[x] = 1 /\ FALSE \notin decided[x]
                      /\ LET v == FindVerb(Command(x))
                         IN  /\ v # NoVerb
                             /\ v \in DestructiveVerbs => TRUE \in decided[x]
                             /\ v \notin ReadOnlyVerbs /\ ~TrustMode => TRUE \in decided[x]
    BY DEF OpsAuthorized
  <1>1. /\ ran[x] = 1 /\ FindVerb(Command(x)) # NoVerb
        /\ decided[x] = {TRUE} \/ (RunsAtOnce(Command(x)) /\ decided[x] = {})
    BY DEF OpInv, NeedsAnswer, AtOnce, NeedsConfirm
  <1>2. CASE decided[x] = {TRUE}
    BY <1>1, <1>2
  <1>3. CASE RunsAtOnce(Command(x)) /\ decided[x] = {}
    BY <1>1, <1>3, VerbKinds
  <1> QED
    BY <1>1, <1>2, <1>3

\* The authorization boundary of the chat, for any messages, whatever the expert
\* writes, however often and by how many users at once a proposal is decided:
\* an operation runs once at most, one that is not read-only only after it was
\* approved or in trust mode, a destructive one only after it was approved, and
\* one that was rejected never (tool_parser.go and proposal.go).
THEOREM OperationsAuthorized == ChatSpec => []OpsAuthorized
  <1>1. ChatInit => ChatTypes /\ PlaceInv /\ \A x \in Proposal : OpInv(x)
    BY ChatTypesInit, OpInvInit
  <1>2. ChatTypes /\ PlaceInv /\ (\A x \in Proposal : OpInv(x)) /\ [ChatNext]_chatVars
        => ChatTypes' /\ PlaceInv' /\ (\A x \in Proposal : OpInv(x))'
    BY ChatSteps, OpInvStep
  <1>3. ChatTypes /\ PlaceInv /\ (\A x \in Proposal : OpInv(x)) => OpsAuthorized
    BY Authorized DEF ChatTypes
  <1> QED
    BY <1>1, <1>2, <1>3, PTL DEF ChatSpec

-----------------------------------------------------------------------------
(* Every operation that was run or decided is audited, or on its way there.*)

OnItsWay(x) ==
    \E w \in ChatWriters : call[w] = x /\ wpc[w] \in {"running", "auditing", "dead"}
OpAnswered(x) == ran[x] > 0 \/ decided[x] # {} => audits[x] # {} \/ OnItsWay(x)

LEMMA AnsweredAside ==
    ASSUME NEW x \in Proposal, OpAnswered(x), NEW w \in ChatWriters,
           \A v \in ChatWriters : v # w => call'[v] = call[v] /\ wpc'[v] = wpc[v],
           call[w] # x \/ wpc[w] \notin {"running", "auditing", "dead"},
           ran'[x] = ran[x], decided'[x] = decided[x], audits[x] # {} => audits'[x] # {}
    PROVE  OpAnswered(x)'
  <1>1. OnItsWay(x) => OnItsWay(x)'
    BY DEF OnItsWay
  <1> QED
    BY <1>1 DEF OpAnswered

LEMMA AnsweredStep ==
    ASSUME ChatTypes, PlaceInv, NEW x \in Proposal, OpAnswered(x), [ChatNext]_chatVars
    PROVE  OpAnswered(x)'
  <1>1. CASE Quiet
    <2>1. OnItsWay(x) => OnItsWay(x)'
      BY <1>1 DEF OnItsWay, Quiet
    <2> QED
      BY <1>1, <2>1 DEF OpAnswered, Quiet
  <1>2. ASSUME NEW r \in ChatRequests, ExpertChunk(r) \/ ExpertEnds(r) \/ ExpertFails(r)
        PROVE  OpAnswered(x)'
    <2>1. PICK next \in {"asking", "calls"} :
              /\ Moved(r, next) /\ UNCHANGED <<chatRows, operations>> /\ wpc[r] = "asking"
              /\ \A v \in ChatWriters : v # r => call'[v] = call[v]
      BY <1>2, ExpertChunkMoves, FirstCallMoves
    <2>2. r \in ChatWriters /\ \A v \in ChatWriters : v # r => wpc'[v] = wpc[v]
      BY <2>1, WriterKinds DEF Moved
    <2> QED
      BY <2>1, <2>2, AnsweredAside DEF chatRows, operations
  <1>3. ASSUME NEW r \in ChatRequests, RefuseCall(r) \/ ProposeCall(r)
        PROVE  OpAnswered(x)'
    <2>1. PICK next \in {"calls", "running"} :
              /\ Moved(r, next) /\ UNCHANGED <<decided, ran>> /\ wpc[r] = "calls"
              /\ \A v \in ChatWriters : v # r => call'[v] = call[v]
              /\ audits[x] # {} => audits'[x] # {}
      <3>1. CASE RefuseCall(r)
        BY <3>1, RefuseMoves DEF operations
      <3>2. CASE ProposeCall(r)
        BY <3>2, ProposeMoves DEF chatRows
      <3> QED
        BY <1>3, <3>1, <3>2
    <2>2. r \in ChatWriters /\ \A v \in ChatWriters : v # r => wpc'[v] = wpc[v]
      BY <2>1, WriterKinds DEF Moved
    <2> QED
      BY <2>1, <2>2, AnsweredAside
  <1>4. ASSUME NEW w \in ChatWriters, Execute(w) PROVE OpAnswered(x)'
    <2>1. /\ wpc[w] = "running" /\ wpc'[w] = "auditing" /\ call' = call /\ decided' = decided
          /\ x # call[w] => ran'[x] = ran[x]
          /\ audits' = audits /\ \A v \in ChatWriters : v # w => wpc'[v] = wpc[v]
      BY <1>4, ExecuteMoves DEF Moved, chatRows
    <2>2. CASE call[w] = x
      <3>1. OnItsWay(x)'
        BY <2>1, <2>2 DEF OnItsWay
      <3> QED
        BY <3>1 DEF OpAnswered
    <2>3. CASE call[w] # x
      BY <2>1, <2>3, AnsweredAside
    <2> QED
      BY <2>2, <2>3
  <1>5. ASSUME NEW w \in ChatWriters, AuditExecuted(w) PROVE OpAnswered(x)'
    <2>1. /\ UNCHANGED <<decided, ran>> /\ (audits[x] # {} \/ x = call[w] => audits'[x] # {})
          /\ \A v \in ChatWriters : v # w => call'[v] = call[v] /\ wpc'[v] = wpc[v]
      BY <1>5, AuditMoves DEF Moved, operations
    <2>2. CASE call[w] = x
      BY <2>1, <2>2 DEF OpAnswered
    <2>3. CASE call[w] # x
      BY <2>1, <2>3, AnsweredAside
    <2> QED
      BY <2>2, <2>3
  <1>6. ASSUME NEW c \in Confirmations, NEW y \in Proposal, NEW approved \in BOOLEAN,
               ConfirmProposal(c, y, approved)
        PROVE  OpAnswered(x)'
    <2>1. /\ wpc[c] = "idle" /\ \A v \in ChatWriters : v # c => call'[v] = call[v]
          /\ ran' = ran /\ (audits[x] # {} => audits'[x] # {})
          /\ \/ Moved(c, "returned") /\ decided' = decided
             \/ /\ call'[c] = y /\ \A z \in Proposal : z # y => decided'[z] = decided[z]
                /\ \/ Moved(c, "running") /\ wpc'[c] = "running"
                   \/ Moved(c, "returned") /\ audits'[y] # {}
      BY <1>6, ConfirmMoves
    <2>2. c \in ChatWriters /\ \A v \in ChatWriters : v # c => wpc'[v] = wpc[v]
      BY <2>1, WriterKinds DEF Moved
    <2>3. CASE decided'[x] = decided[x]
      BY <2>1, <2>2, <2>3, AnsweredAside
    <2>4. CASE x = y /\ call'[c] = y /\ (wpc'[c] = "running" \/ audits'[y] # {})
      <3>1. wpc'[c] = "running" => OnItsWay(x)'
        BY <2>2, <2>4 DEF OnItsWay
      <3> QED
        BY <2>4, <3>1 DEF OpAnswered
    <2> QED
      BY <2>1, <2>3, <2>4
  <1> QED
    BY <1>1, <1>2, <1>3, <1>4, <1>5, <1>6, ChatSteps

\* "Emits a chat_cli_exec audit event for every op (incl. rejected)", for any
\* messages and confirmations: what was run or decided has its event, or the
\* goroutine at it is before it or died with the server (chat.go).
THEOREM OperationsAudited == ChatSpec => []OpsAudited
  <1>1. ChatInit => ChatTypes /\ PlaceInv /\ \A x \in Proposal : OpAnswered(x)
    BY ChatTypesInit DEF ChatInit, OpAnswered
  <1>2. ChatTypes /\ PlaceInv /\ (\A x \in Proposal : OpAnswered(x)) /\ [ChatNext]_chatVars
        => ChatTypes' /\ PlaceInv' /\ (\A x \in Proposal : OpAnswered(x))'
    BY ChatSteps, AnsweredStep
  <1>3. (\A x \in Proposal : OpAnswered(x)) => OpsAudited
    BY DEF OpsAudited, OpAnswered, OnItsWay
  <1> QED
    BY <1>1, <1>2, <1>3, PTL DEF ChatSpec

-----------------------------------------------------------------------------
(* Whoever is told that a message is done finds its reply.                 *)

InSubChannel(ch, q) == \E k \in 1..Len(subCh[q]) : subCh[q][k] = ch
BeingSent(ch) == \E w \in ChatWriters : sending[w].chunk = ch
Afloat(ch) == ch \in seen \/ (\E q \in ChatRequests : InSubChannel(ch, q)) \/ BeingSent(ch)
DoneChunk(r) == Chunk("done", <<r, 0>>)
DoneStored(r) == Afloat(DoneChunk(r)) => replies[r] # <<>> \/ ~chatSession

LEMMA DoneChunks ==
    /\ \A r \in ChatRequests : /\ DoneChunk(r) # NoSending.chunk
                               /\ DoneChunk(r) # Chunk("token", NoToolCall)
                               /\ DoneChunk(r) # Chunk("error", NoToolCall)
                               /\ DoneChunk(r) # Chunk("tool", NoToolCall)
                               /\ \A x : DoneChunk(r) # Chunk("tool-call", x)
    /\ \A r, q \in ChatRequests : DoneChunk(r) = DoneChunk(q) => r = q
  <1>1. \A t, x : Chunk(t, x).type = t /\ Chunk(t, x).of = x
    BY DEF Chunk
  <1>2. ASSUME NEW r \in ChatRequests
        PROVE  /\ DoneChunk(r) # NoSending.chunk
               /\ DoneChunk(r) # Chunk("token", NoToolCall)
               /\ DoneChunk(r) # Chunk("error", NoToolCall)
               /\ DoneChunk(r) # Chunk("tool", NoToolCall)
               /\ \A x : DoneChunk(r) # Chunk("tool-call", x)
    <2>1. DoneChunk(r).type = "done" /\ NoSending.chunk.type = "none"
      BY <1>1, ChunkTypes DEF DoneChunk
    <2> QED
      BY <1>1, <2>1
  <1>3. ASSUME NEW r \in ChatRequests, NEW q \in ChatRequests, DoneChunk(r) = DoneChunk(q)
        PROVE  r = q
    <2>1. <<r, 0>> = <<q, 0>>
      BY <1>1, <1>3 DEF DoneChunk
    <2> QED
      BY <2>1
  <1> QED
    BY <1>2, <1>3

LEMMA SeqGrows ==
    ASSUME NEW S, NEW s \in Seq(S), NEW e \in S, NEW k \in 1..Len(Append(s, e))
    PROVE  Append(s, e)[k] = e \/ \E j \in 1..Len(s) : s[j] = Append(s, e)[k]
  <1>1. /\ Len(s) \in Nat /\ Len(Append(s, e)) = Len(s) + 1
        /\ \A i \in 1..Len(s) : Append(s, e)[i] = s[i]
        /\ Append(s, e)[Len(s) + 1] = e
    BY AppendProperties
  <1>2. k \in 1..Len(s) \/ k = Len(s) + 1
    BY <1>1
  <1> QED
    BY <1>1, <1>2

LEMMA SeqShrinks ==
    ASSUME NEW S, NEW s \in Seq(S), s # <<>>
    PROVE  /\ Len(s) \in Nat /\ 1 \in 1..Len(s) /\ Head(s) = s[1]
           /\ \A k \in 1..Len(Tail(s)) : \E j \in 1..Len(s) : s[j] = Tail(s)[k]
  <1>1. Len(s) \in Nat /\ Len(s) # 0 /\ Head(s) = s[1]
    BY EmptySeq, HeadTailProperties
  <1>2. Len(Tail(s)) = Len(s) - 1 /\ \A k \in 1..Len(Tail(s)) : Tail(s)[k] = s[k + 1]
    BY HeadTailProperties
  <1>3. ASSUME NEW k \in 1..Len(Tail(s)) PROVE \E j \in 1..Len(s) : s[j] = Tail(s)[k]
    <2>1. k + 1 \in 1..Len(s) /\ Tail(s)[k] = s[k + 1]
      BY <1>1, <1>2
    <2> QED
      BY <2>1
  <1> QED
    BY <1>1, <1>3

LEMMA SendFloats ==
    ASSUME ChatTypes, PlaceInv, NEW w \in ChatWriters, SendChunk(w), NEW ch,
           ch # NoSending.chunk
    PROVE  Afloat(ch)' => Afloat(ch)
  <1>1. /\ \A v \in ChatWriters :
              sending'[v].chunk = sending[v].chunk \/ sending'[v] = NoSending
        /\ seen' = seen
    BY SendPlaces
  <1>2. BeingSent(ch)' => BeingSent(ch)
    BY <1>1 DEF BeingSent
  <1>3. \/ subCh' = subCh
        \/ \E q : subCh' = [subCh EXCEPT ![q] = Append(@, sending[w].chunk)]
        \/ subCh' = [q \in ChatRequests |-> <<>>]
    BY DEF SendChunk, ServerDies, handlers
  <1>4. ASSUME NEW q \in ChatRequests, InSubChannel(ch, q)'
        PROVE  InSubChannel(ch, q) \/ BeingSent(ch)
    <2>1. CASE subCh' = subCh
      BY <1>4, <2>1 DEF InSubChannel
    <2>2. CASE subCh' = [p \in ChatRequests |-> <<>>]
      <3>1. Len(subCh'[q]) = 0
        BY <2>2
      <3> QED
        BY <1>4, <3>1 DEF InSubChannel
    <2>3. ASSUME NEW p, subCh' = [subCh EXCEPT ![p] = Append(@, sending[w].chunk)]
          PROVE  InSubChannel(ch, q) \/ BeingSent(ch)
      <3>1. sending[w].chunk \in Chunks /\ subCh \in [ChatRequests -> Seq(Chunks)]
        BY DEF ChatTypes, WriterTypes, HandlerTypes, Sendings
      <3>2. CASE p # q
        <4>1. subCh'[q] = subCh[q]
          BY <2>3, <3>1, <3>2
        <4> QED
          BY <1>4, <4>1 DEF InSubChannel
      <3>3. CASE p = q
        <4>1. subCh'[q] = Append(subCh[q], sending[w].chunk) /\ subCh[q] \in Seq(Chunks)
          BY <2>3, <3>1, <3>3
        <4>2. PICK k \in 1..Len(subCh'[q]) : subCh'[q][k] = ch
          BY <1>4 DEF InSubChannel
        <4>3. ch = sending[w].chunk \/ \E j \in 1..Len(subCh[q]) : subCh[q][j] = ch
          BY <3>1, <4>1, <4>2, SeqGrows
        <4> QED
          BY <4>3 DEF InSubChannel, BeingSent
      <3> QED
        BY <3>2, <3>3
    <2> QED
      BY <1>3, <2>1, <2>2, <2>3
  <1> QED
    BY <1>1, <1>2, <1>4 DEF Afloat

LEMMA HandlerFloats ==
    ASSUME ChatTypes, NEW r \in ChatRequests, NEW ch,
           ForwardChunk(r) \/ ClientGone(r) \/ HandlerReturns(r)
    PROVE  Afloat(ch)' => Afloat(ch)
  <1>1. sending' = sending
    BY DEF ForwardChunk, ClientGone, HandlerReturns, writers
  <1>2. BeingSent(ch)' => BeingSent(ch)
    BY <1>1 DEF BeingSent
  <1>3. subCh \in [ChatRequests -> Seq(Chunks)]
    BY DEF ChatTypes, HandlerTypes
  <1>4. CASE ForwardChunk(r)
    <2>1. /\ subCh[r] # <<>> /\ subCh' = [subCh EXCEPT ![r] = Tail(@)]
          /\ seen' \subseteq seen \cup {Head(subCh[r])}
      BY <1>4 DEF ForwardChunk, ClientSees
    <2>2. /\ 1 \in 1..Len(subCh[r]) /\ Head(subCh[r]) = subCh[r][1]
          /\ \A k \in 1..Len(Tail(subCh[r])) :
                \E j \in 1..Len(subCh[r]) : subCh[r][j] = Tail(subCh[r])[k]
      BY <1>3, <2>1, SeqShrinks
    <2>3. ch \in seen' => ch \in seen \/ InSubChannel(ch, r)
      BY <2>1, <2>2 DEF InSubChannel
    <2>4. ASSUME NEW q \in ChatRequests, InSubChannel(ch, q)' PROVE InSubChannel(ch, q)
      <3>1. CASE q = r
        <4>1. subCh'[q] = Tail(subCh[r])
          BY <1>3, <2>1, <3>1
        <4> QED
          BY <2>2, <2>4, <3>1, <4>1 DEF InSubChannel
      <3>2. CASE q # r
        <4>1. subCh'[q] = subCh[q]
          BY <1>3, <2>1, <3>2
        <4> QED
          BY <2>4, <4>1 DEF InSubChannel
      <3> QED
        BY <3>1, <3>2
    <2> QED
      BY <1>2, <2>3, <2>4 DEF Afloat
  <1>5. CASE ClientGone(r)
    <2>1. UNCHANGED <<subCh, seen>>
      BY <1>5 DEF ClientGone
    <2> QED
      BY <1>2, <2>1 DEF Afloat, InSubChannel
  <1>6. CASE HandlerReturns(r)
    <2>1. /\ subCh' = [subCh EXCEPT ![r] = <<>>]
          /\ seen' \subseteq seen \cup {subCh[r][k] : k \in 1..Len(subCh[r])}
      BY <1>6 DEF HandlerReturns, ClientSees
    <2>2. ch \in seen' => ch \in seen \/ InSubChannel(ch, r)
      BY <2>1 DEF InSubChannel
    <2>3. ASSUME NEW q \in ChatRequests, InSubChannel(ch, q)' PROVE InSubChannel(ch, q)
      <3>1. CASE q = r
        <4>1. Len(subCh'[q]) = 0
          BY <1>3, <2>1, <3>1
        <4> QED
          BY <2>3, <4>1 DEF InSubChannel
      <3>2. CASE q # r
        <4>1. subCh'[q] = subCh[q]
          BY <1>3, <2>1, <3>2
        <4> QED
          BY <2>3, <4>1 DEF InSubChannel
      <3> QED
        BY <3>1, <3>2
    <2> QED
      BY <1>2, <2>2, <2>3 DEF Afloat
  <1> QED
    BY <1>4, <1>5, <1>6

\* A step that sends no other chunk than one that is not the end of r's message.
LEMMA StoredAside ==
    ASSUME NEW r \in ChatRequests, DoneStored(r), NEW w \in ChatWriters, NEW line,
           UNCHANGED <<chatSession, replies, subCh, seen>>, line # DoneChunk(r),
           \A v \in ChatWriters : v # w => sending'[v].chunk = sending[v].chunk,
           sending'[w].chunk = sending[w].chunk \/ sending'[w].chunk = line
    PROVE  DoneStored(r)'
  <1>1. BeingSent(DoneChunk(r))' => BeingSent(DoneChunk(r))
    BY DEF BeingSent, DoneChunk
  <1>2. Afloat(DoneChunk(r))' => Afloat(DoneChunk(r))
    BY <1>1 DEF Afloat, InSubChannel, DoneChunk
  <1> QED
    BY <1>2 DEF DoneStored, DoneChunk

LEMMA StoredStep ==
    ASSUME ChatTypes, PlaceInv, NEW r \in ChatRequests, DoneStored(r), [ChatNext]_chatVars
    PROVE  DoneStored(r)'
  <1>1. CASE UNCHANGED chatVars
    <2>1. UNCHANGED <<chatSession, replies, subCh, seen, sending>>
      BY <1>1 DEF chatVars, chatRows, handlers, writers
    <2> QED
      BY <2>1 DEF DoneStored, Afloat, InSubChannel, BeingSent, DoneChunk
  <1>2. ASSUME NEW q \in ChatRequests, Open(q) PROVE DoneStored(r)'
    <2>1. \A v \in ChatWriters : sending'[v].chunk = sending[v].chunk
      BY <1>2, OpenKeeps
    <2>2. UNCHANGED <<chatSession, replies, subCh, seen>>
      BY <1>2 DEF Open, chatRows
    <2>3. q \in ChatWriters /\ NoSending.chunk # DoneChunk(r)
      BY WriterKinds, DoneChunks
    <2> QED
      BY <2>1, <2>2, <2>3, StoredAside
  <1>3. ASSUME NEW q \in ChatRequests, ForwardChunk(q) \/ ClientGone(q) \/ HandlerReturns(q)
        PROVE  DoneStored(r)'
    <2>1. UNCHANGED <<chatSession, replies>>
      BY <1>3 DEF ForwardChunk, ClientGone, HandlerReturns, chatRows
    <2>2. Afloat(DoneChunk(r))' => Afloat(DoneChunk(r))
      <3>1. \A ch : DoneChunk(r) = ch => (Afloat(ch)' => Afloat(ch))
        BY <1>3, HandlerFloats
      <3> QED
        BY <3>1 DEF DoneChunk
    <2> QED
      BY <2>1, <2>2 DEF DoneStored
  <1>4. ASSUME NEW w \in ChatWriters, SendChunk(w) PROVE DoneStored(r)'
    <2>1. UNCHANGED <<chatSession, replies>>
      BY <1>4 DEF SendChunk, chatRows
    <2>2. Afloat(DoneChunk(r))' => Afloat(DoneChunk(r))
      BY <1>4, SendFloats, DoneChunks DEF DoneChunk
    <2> QED
      BY <2>1, <2>2 DEF DoneStored
  <1>5. CASE DeleteSession
    BY <1>5 DEF DeleteSession, DoneStored
  <1>6. ASSUME NEW q \in ChatRequests, StoreUserMessage(q) PROVE DoneStored(r)'
    <2>1. UNCHANGED <<chatSession, replies, subCh, seen, sending>>
      BY <1>6 DEF StoreUserMessage, chatRows, handlers
    <2> QED
      BY <2>1 DEF DoneStored, Afloat, InSubChannel, BeingSent, DoneChunk
  <1>7. ASSUME NEW w \in ChatWriters, NEW line, line # DoneChunk(r),
               UNCHANGED <<chatSession, replies, handlers>>,
               \A v \in ChatWriters : v # w => sending'[v] = sending[v],
               sending'[w] = sending[w] \/ sending'[w].chunk = line
        PROVE  DoneStored(r)'
    BY <1>7, StoredAside DEF handlers
  <1>8. ASSUME NEW q \in ChatRequests,
               \/ ExpertChunk(q) \/ ExpertEnds(q) \/ ExpertFails(q)
               \/ RefuseCall(q) \/ ProposeCall(q)
        PROVE  DoneStored(r)'
    <2>1. q \in ChatWriters
      BY WriterKinds
    <2>2. CASE ExpertChunk(q)
      <3>1. /\ UNCHANGED <<chatSession, replies, handlers>>
            /\ \A v \in ChatWriters : v # q => sending'[v] = sending[v]
            /\ sending'[q] = sending[q] \/ sending'[q].chunk = Chunk("token", NoToolCall)
        BY <2>2, ExpertChunkMoves DEF Moved, chatRows
      <3> QED
        BY <1>7, <2>1, <3>1, DoneChunks
    <2>3. CASE ExpertEnds(q) \/ ExpertFails(q)
      <3>1. /\ UNCHANGED <<chatSession, replies, handlers>>
            /\ \A v \in ChatWriters : v # q => sending'[v] = sending[v]
            /\ sending'[q] = sending[q] \/ sending'[q].chunk = Chunk("error", NoToolCall)
        BY <2>3, FirstCallMoves DEF Moved, chatRows
      <3> QED
        BY <1>7, <2>1, <3>1, DoneChunks
    <2>4. CASE RefuseCall(q)
      <3>1. /\ UNCHANGED <<chatSession, replies, handlers>>
            /\ \A v \in ChatWriters : v # q => sending'[v] = sending[v]
            /\ sending'[q] = sending[q] \/ sending'[q].chunk = Chunk("error", NoToolCall)
        BY <2>4, RefuseMoves DEF Moved
      <3> QED
        BY <1>7, <2>1, <3>1, DoneChunks
    <2>5. CASE ProposeCall(q)
      <3>1. /\ UNCHANGED <<chatSession, replies, handlers>>
            /\ \A v \in ChatWriters : v # q => sending'[v] = sending[v]
            /\ sending'[q] = sending[q] \/ sending'[q].chunk = Chunk("tool-call", call[q])
        BY <2>5, ProposeMoves DEF Moved, chatRows
      <3> QED
        BY <1>7, <2>1, <3>1, DoneChunks
    <2> QED
      BY <1>8, <2>2, <2>3, <2>4, <2>5
  <1>9. ASSUME NEW w \in ChatWriters, Execute(w) \/ AuditExecuted(w) PROVE DoneStored(r)'
    <2>1. /\ UNCHANGED <<chatSession, replies, handlers>>
          /\ \A v \in ChatWriters : v # w => sending'[v] = sending[v]
          /\ sending'[w] = sending[w] \/ sending'[w].chunk = Chunk("tool", NoToolCall)
      BY <1>9, ExecuteMoves, AuditMoves DEF Moved, chatRows
    <2> QED
      BY <1>7, <2>1, DoneChunks
  <1>10. ASSUME NEW c \in Confirmations, NEW x \in Proposal, NEW approved \in BOOLEAN,
                ConfirmProposal(c, x, approved)
         PROVE  DoneStored(r)'
    <2>1. /\ UNCHANGED <<chatSession, replies, handlers>>
          /\ \A v \in ChatWriters : v # c => sending'[v] = sending[v]
          /\ sending'[c] = sending[c] \/ sending'[c].chunk = Chunk("tool", NoToolCall)
      BY <1>10, ConfirmMoves DEF Moved
    <2> QED
      BY <1>7, <2>1, DoneChunks, WriterKinds
  <1>11. ASSUME NEW q \in ChatRequests, Reply(q) PROVE DoneStored(r)'
    <2>1. UNCHANGED <<chatSession, handlers>> /\ q \in ChatWriters
      BY <1>11, WriterKinds DEF Reply
    <2>2. CASE ~chatSession
      BY <2>1, <2>2 DEF DoneStored
    <2>3. CASE chatSession
      <3>1. InsertReply(q) /\ WriteChunk(q, DoneChunk(q), "returned")
        BY <1>11, <2>3 DEF Reply, DoneChunk
      <3>2. DoneChunk(q) \in Chunks
        <4>1. "done" \in ChunkKinds /\ 0 \in Nat
          BY DEF ChunkKinds
        <4> QED
          BY <4>1, ChunkTypes DEF DoneChunk
      <3>3. /\ \A v \in ChatWriters : v # q => sending'[v] = sending[v]
            /\ sending'[q] = sending[q] \/ sending'[q].chunk = DoneChunk(q)
        BY <2>1, <3>1, <3>2, Writes, PlaceNames DEF Moved
      <3>4. CASE r = q
        <4>1. PICK l : replies' = [replies EXCEPT ![q] = Append(@, l)]
          BY <3>1 DEF InsertReply
        <4>2. PICK T : replies[q] \in Seq(T)
          BY DEF ChatTypes, RowTypes, SomeSeq
        <4>3. replies[q] \in Seq(T \cup {l})
          BY <4>2, SeqMonotonic
        <4>4. Append(replies[q], l) # <<>>
          <5>1. Len(replies[q]) \in Nat /\ Len(Append(replies[q], l)) = Len(replies[q]) + 1
            BY <4>3, AppendProperties
          <5>2. Len(Append(replies[q], l)) # 0 /\ Len(<<>>) = 0
            BY <5>1
          <5> QED
            BY <5>2
        <4>5. replies'[q] = Append(replies[q], l)
          BY <4>1 DEF ChatTypes, RowTypes
        <4> QED
          BY <3>4, <4>4, <4>5 DEF DoneStored
      <3>5. CASE r # q
        <4>1. DoneChunk(q) # DoneChunk(r)
          BY <3>5, DoneChunks
        <4>2. replies'[r] = replies[r]
          BY <3>1, <3>5 DEF InsertReply, ChatTypes, RowTypes
        <4>3. BeingSent(DoneChunk(r))' => BeingSent(DoneChunk(r))
          BY <3>3, <4>1 DEF BeingSent, DoneChunk
        <4>4. Afloat(DoneChunk(r))' => Afloat(DoneChunk(r))
          BY <2>1, <4>3 DEF Afloat, InSubChannel, DoneChunk, handlers
        <4> QED
          BY <2>1, <4>2, <4>4 DEF DoneStored, DoneChunk
      <3> QED
        BY <3>4, <3>5
    <2> QED
      BY <2>2, <2>3
  <1> QED
    BY <1>1, <1>2, <1>3, <1>4, <1>5, <1>6, <1>8, <1>9, <1>10, <1>11 DEF ChatNext

\* "The final done chunk carries the persisted message_id so the client can
\* recover via a GET", for any messages, subscribers and channels: who was told
\* that a message is done, in the stream of another message too, finds its reply
\* unless the session was deleted (chat.go and stream.go).
THEOREM DoneAfterStored == ChatSpec => []DonePersisted
  <1>1. ChatInit => ChatTypes /\ PlaceInv /\ \A r \in ChatRequests : DoneStored(r)
    <2> SUFFICES ASSUME ChatInit, NEW r \in ChatRequests PROVE DoneStored(r)
      BY ChatTypesInit
    <2>1. ~BeingSent(DoneChunk(r)) /\ DoneChunk(r) \notin seen
      BY DoneChunks DEF ChatInit, BeingSent
    <2>2. ASSUME NEW q \in ChatRequests PROVE ~InSubChannel(DoneChunk(r), q)
      <3>1. Len(subCh[q]) = 0
        BY DEF ChatInit
      <3> QED
        BY <3>1 DEF InSubChannel
    <2> QED
      BY <2>1, <2>2 DEF DoneStored, Afloat
  <1>2. ChatTypes /\ PlaceInv /\ (\A r \in ChatRequests : DoneStored(r)) /\ [ChatNext]_chatVars
        => ChatTypes' /\ PlaceInv' /\ (\A r \in ChatRequests : DoneStored(r))'
    BY ChatSteps, StoredStep
  <1>3. (\A r \in ChatRequests : DoneStored(r)) => DonePersisted
    BY DEF DonePersisted, DoneStored, Afloat, DoneChunk
  <1> QED
    BY <1>1, <1>2, <1>3, PTL DEF ChatSpec

-----------------------------------------------------------------------------
(* The subscribers are the handlers under way, each once, and the session's*)
(* context lives no longer than the last of them.                          *)

Subscribed ==
    /\ \A r \in Streamed : \E k \in 1..subCount : subs[k] = r
    /\ \A k \in 1..subCount : subs[k] \in Streamed
    /\ \A j, k \in 1..subCount : subs[j] = subs[k] => j = k
Contexts ==
    /\ subCount = 0 => streamCtx = "none"
    /\ streamCtx = "none" => \A r \in ChatRequests : ctxOf[r] # "session"

LEMMA SubscribedSame ==
    ASSUME Subscribed, UNCHANGED <<subs, subCount>>, Streamed' = Streamed
    PROVE  Subscribed'
  BY DEF Subscribed

LEMMA StreamSame ==
    ASSUME Subscribed, Contexts, UNCHANGED stream, Streamed' = Streamed,
           \A r \in ChatRequests : ctxOf'[r] = "session" => ctxOf[r] = "session" \/ streamCtx = "live"
    PROVE  Subscribed' /\ Contexts'
  BY SubscribedSame DEF Contexts, stream

LEMMA OpenSubscribes ==
    ASSUME ChatTypes, Subscribed, Contexts, NEW r \in ChatRequests, Open(r)
    PROVE  Subscribed' /\ Contexts'
  <1>1. /\ hpc[r] = "away" /\ hpc' = [hpc EXCEPT ![r] = "open"] /\ subCount' = subCount + 1
        /\ streamCtx' # "none"
    BY DEF Open
  <1>2. subs \in Seq(ChatRequests) /\ subCount \in Nat /\ subCount <= Len(subs)
    BY DEF ChatTypes, SubscriberTypes
  <1>3. (\A j \in 1..subCount : subs'[j] = subs[j]) /\ subs'[subCount + 1] = r
    <2>1. CASE subCount \in 1..(Len(subs) - 1)
      <3>1. subs' = [subs EXCEPT ![subCount + 1] = r]
        BY <2>1 DEF Open
      <3>2. /\ \A j \in 1..subCount : [subs EXCEPT ![subCount + 1] = r][j] = subs[j]
            /\ [subs EXCEPT ![subCount + 1] = r][subCount + 1] = r
        BY <1>2, <2>1, PutInPlace
      <3> QED
        BY <3>1, <3>2
    <2>2. CASE ~(subCount \in 1..(Len(subs) - 1))
      <3>1. subs' = Append(SubSeq(subs, 1, subCount), r)
        BY <2>2 DEF Open
      <3>2. /\ \A j \in 1..subCount : Append(SubSeq(subs, 1, subCount), r)[j] = subs[j]
            /\ Append(SubSeq(subs, 1, subCount), r)[subCount + 1] = r
        BY <1>2, PutAtEnd
      <3> QED
        BY <3>1, <3>2
    <2> QED
      BY <2>1, <2>2
  <1>4. Streamed' = Streamed \cup {r} /\ r \notin Streamed
    BY <1>1 DEF Streamed, ChatTypes, HandlerTypes
  <1>5. \A j \in 1..subCount' : j \in 1..subCount \/ j = subCount + 1
    BY <1>1, <1>2
  <1>6. (\A j \in 1..subCount : j \in 1..subCount') /\ subCount + 1 \in 1..subCount'
        /\ subCount' # 0
    BY <1>1, <1>2
  <1>7. \A q \in Streamed' : \E k \in 1..subCount' : subs'[k] = q
    BY <1>3, <1>4, <1>6 DEF Subscribed
  <1>8. \A k \in 1..subCount' : subs'[k] \in Streamed'
    BY <1>3, <1>4, <1>5 DEF Subscribed
  <1>9. ASSUME NEW j \in 1..subCount', NEW k \in 1..subCount', subs'[j] = subs'[k]
        PROVE  j = k
    <2>1. \A i \in 1..subCount : subs'[i] # r
      BY <1>3, <1>4 DEF Subscribed
    <2> QED
      BY <1>3, <1>5, <1>9, <2>1 DEF Subscribed
  <1> QED
    BY <1>1, <1>6, <1>7, <1>8, <1>9 DEF Subscribed, Contexts

LEMMA ReturnUnsubscribes ==
    ASSUME ChatTypes, Subscribed, Contexts, NEW r \in ChatRequests, HandlerReturns(r)
    PROVE  Subscribed' /\ Contexts'
  <1>1. /\ hpc[r] \in {"open", "draining"} /\ hpc' = [hpc EXCEPT ![r] = "gone"]
        /\ Close(r)
    BY DEF HandlerReturns
  <1>2. PICK k \in 1..subCount : subs[k] = r /\ subs' = CutOut(SubsBut(k))
    BY <1>1 DEF Close
  <1>3. subCount \in Nat /\ subCount' = subCount - 1
    BY <1>1 DEF ChatTypes, SubscriberTypes, Close
  <1>4. \A j \in 1..subCount' : subs'[j] = (IF j >= k THEN subs[j + 1] ELSE subs[j])
    BY <1>2, <1>3, CutAway DEF ChatTypes
  <1>5. Streamed' = Streamed \ {r}
    BY <1>1 DEF Streamed, ChatTypes, HandlerTypes
  <1> DEFINE from(j) == IF j >= k THEN j + 1 ELSE j
  <1>6. ASSUME NEW j \in 1..subCount'
        PROVE  from(j) \in 1..subCount /\ from(j) # k /\ subs'[j] = subs[from(j)]
    <2>1. j + 1 \in 1..subCount /\ j \in 1..subCount
      BY <1>3
    <2> QED
      BY <1>3, <1>4, <2>1
  <1>7. \A i, j \in 1..subCount' : from(i) = from(j) => i = j
    BY <1>3
  <1>8. \A i \in 1..subCount : i # k => \E j \in 1..subCount' : from(j) = i
    <2> SUFFICES ASSUME NEW i \in 1..subCount, i # k
                 PROVE  \E j \in 1..subCount' : from(j) = i
      OBVIOUS
    <2>1. CASE i < k
      <3>1. i \in 1..subCount' /\ from(i) = i
        BY <1>3, <2>1
      <3> QED
        BY <3>1
    <2>2. CASE i > k
      <3>1. i - 1 \in 1..subCount' /\ from(i - 1) = i
        BY <1>3, <2>2
      <3> QED
        BY <3>1
    <2> QED
      BY <1>3, <2>1, <2>2
  <1> HIDE DEF from
  <1>9. \A q \in Streamed' : \E j \in 1..subCount' : subs'[j] = q
    <2> SUFFICES ASSUME NEW q \in Streamed' PROVE \E j \in 1..subCount' : subs'[j] = q
      OBVIOUS
    <2>1. PICK i \in 1..subCount : subs[i] = q
      BY <1>5 DEF Subscribed
    <2>2. i # k
      BY <1>2, <1>5, <2>1
    <2>3. PICK j \in 1..subCount' : from(j) = i
      BY <1>8, <2>2
    <2> QED
      BY <1>6, <2>1, <2>3
  <1>10. \A j \in 1..subCount' : subs'[j] \in Streamed'
    <2> SUFFICES ASSUME NEW j \in 1..subCount' PROVE subs'[j] \in Streamed'
      OBVIOUS
    <2>1. subs'[j] = subs[from(j)] /\ from(j) \in 1..subCount /\ from(j) # k
      BY <1>6
    <2>2. subs[from(j)] # r
      BY <1>2, <2>1 DEF Subscribed
    <2> QED
      BY <1>5, <2>1, <2>2 DEF Subscribed
  <1>11. \A i, j \in 1..subCount' : subs'[i] = subs'[j] => i = j
    BY <1>6, <1>7 DEF Subscribed
  <1>12. Contexts'
    <2>1. CASE subCount = 1
      <3>1. streamCtx' = "none" /\ ctxOf' = Cancelled
        BY <1>1, <2>1 DEF Close
      <3> QED
        BY <3>1 DEF Contexts, Cancelled
    <2>2. CASE subCount # 1
      <3>1. UNCHANGED <<streamCtx, ctxOf>> /\ subCount' # 0
        BY <1>1, <1>3, <2>2 DEF Close
      <3> QED
        BY <3>1 DEF Contexts
    <2> QED
      BY <2>1, <2>2
  <1> QED
    BY <1>9, <1>10, <1>11, <1>12 DEF Subscribed

LEMMA StreamStep ==
    ASSUME ChatTypes, PlaceInv, Subscribed, Contexts, [ChatNext]_chatVars
    PROVE  Subscribed' /\ Contexts'
  <1>1. ASSUME UNCHANGED <<stream, handlers>>,
               \A r \in ChatRequests :
                  ctxOf'[r] = "session" => ctxOf[r] = "session" \/ streamCtx = "live"
        PROVE  Subscribed' /\ Contexts'
    <2>1. Streamed' = Streamed
      BY <1>1 DEF Streamed, handlers
    <2> QED
      BY <1>1, <2>1, StreamSame
  <1>2. CASE UNCHANGED chatVars
    BY <1>1, <1>2 DEF chatVars, writers
  <1>3. ASSUME NEW r \in ChatRequests, Open(r) PROVE Subscribed' /\ Contexts'
    BY <1>3, OpenSubscribes
  <1>4. ASSUME NEW r \in ChatRequests, ForwardChunk(r) PROVE Subscribed' /\ Contexts'
    <2>1. /\ UNCHANGED <<stream, writers>> /\ hpc[r] = "open"
          /\ hpc' = [hpc EXCEPT ![r] =
                 IF Head(subCh[r]).type \in {"done", "error"} THEN "draining" ELSE @]
      BY <1>4 DEF ForwardChunk
    <2>2. Streamed' = Streamed
      BY <2>1 DEF Streamed, ChatTypes, HandlerTypes
    <2> QED
      BY <2>1, <2>2, StreamSame DEF writers
  <1>5. ASSUME NEW r \in ChatRequests, ClientGone(r) PROVE Subscribed' /\ Contexts'
    <2>1. /\ UNCHANGED <<subs, subCount>> /\ hpc[r] = "open" /\ streamCtx' = "cancelled"
          /\ hpc' = [hpc EXCEPT ![r] = "draining"]
      BY <1>5 DEF ClientGone
    <2>2. Streamed' = Streamed /\ r \in Streamed
      BY <2>1 DEF Streamed, ChatTypes, HandlerTypes
    <2>3. subCount # 0
      BY <2>2 DEF Subscribed
    <2> QED
      BY <2>1, <2>2, <2>3, SubscribedSame DEF Contexts
  <1>6. ASSUME NEW r \in ChatRequests, HandlerReturns(r) PROVE Subscribed' /\ Contexts'
    BY <1>6, ReturnUnsubscribes
  <1>7. ASSUME NEW w \in ChatWriters, SendChunk(w) PROVE Subscribed' /\ Contexts'
    <2>1. CASE ServerDies
      <3>1. /\ subCount' = 0 /\ streamCtx' = "none" /\ ctxOf' = [r \in ChatRequests |-> "none"]
            /\ hpc' = [r \in ChatRequests |-> IF hpc[r] = "away" THEN "away" ELSE "gone"]
        BY <2>1 DEF ServerDies
      <3>2. Streamed' = {}
        BY <3>1 DEF Streamed
      <3> QED
        BY <3>1, <3>2 DEF Subscribed, Contexts
    <2>2. CASE UNCHANGED <<hpc, stream, ctxOf>>
      <3>1. Streamed' = Streamed
        BY <2>2 DEF Streamed
      <3> QED
        BY <2>2, <3>1, StreamSame
    <2> QED
      BY <1>7, <2>1, <2>2 DEF SendChunk, handlers
  <1>8. ASSUME NEW r \in ChatRequests, StoreUserMessage(r) PROVE Subscribed' /\ Contexts'
    <2>1. /\ UNCHANGED <<stream, handlers>>
          /\ ctxOf' = [ctxOf EXCEPT ![r] =
                 IF ~chatSession THEN @
                 ELSE CASE streamCtx = "live" -> "session"
                        [] streamCtx = "cancelled" -> "cancelled"
                        [] streamCtx = "none" -> "background"]
      BY <1>8 DEF StoreUserMessage
    <2>2. ASSUME NEW q \in ChatRequests, ctxOf'[q] = "session"
          PROVE  ctxOf[q] = "session" \/ streamCtx = "live"
      BY <2>1, <2>2 DEF ChatTypes, SubscriberTypes, WriterTypes
    <2> QED
      BY <1>1, <2>1, <2>2
  <1>9. ASSUME NEW r \in ChatRequests,
               \/ ExpertChunk(r) \/ RefuseCall(r) \/ ProposeCall(r) \/ Reply(r)
        PROVE  Subscribed' /\ Contexts'
    <2>1. UNCHANGED <<stream, handlers, ctxOf>>
      BY <1>9 DEF ExpertChunk, RefuseCall, ProposeCall, Reply
    <2> QED
      BY <1>1, <2>1
  <1>10. ASSUME NEW r \in ChatRequests, ExpertEnds(r) \/ ExpertFails(r)
         PROVE  Subscribed' /\ Contexts'
    <2>1. UNCHANGED <<stream, handlers>> /\ ctxOf' = [ctxOf EXCEPT ![r] = "none"]
      BY <1>10 DEF ExpertEnds, ExpertFails
    <2>2. \A q \in ChatRequests : ctxOf'[q] = "session" => ctxOf[q] = "session"
      BY <2>1 DEF ChatTypes, WriterTypes
    <2> QED
      BY <1>1, <2>1, <2>2
  <1>11. ASSUME NEW w \in ChatWriters, Execute(w) \/ AuditExecuted(w)
         PROVE  Subscribed' /\ Contexts'
    <2>1. UNCHANGED <<stream, handlers, ctxOf>>
      BY <1>11 DEF Execute, AuditExecuted
    <2> QED
      BY <1>1, <2>1
  <1>12. ASSUME NEW c \in Confirmations, NEW x \in Proposal, NEW approved \in BOOLEAN,
                ConfirmProposal(c, x, approved)
         PROVE  Subscribed' /\ Contexts'
    <2>1. UNCHANGED <<stream, handlers, ctxOf>>
      BY <1>12 DEF ConfirmProposal
    <2> QED
      BY <1>1, <2>1
  <1>13. CASE DeleteSession
    <2>1. UNCHANGED <<stream, handlers, writers>>
      BY <1>13 DEF DeleteSession
    <2> QED
      BY <1>1, <2>1 DEF writers
  <1> QED
    BY <1>2, <1>3, <1>4, <1>5, <1>6, <1>7, <1>8, <1>9, <1>10, <1>11, <1>12, <1>13 DEF ChatNext

LEMMA SubscribedInit == ChatInit => Subscribed /\ Contexts
  <1> SUFFICES ASSUME ChatInit PROVE Subscribed /\ Contexts
    OBVIOUS
  <1>1. Streamed = {} /\ subCount = 0 /\ streamCtx = "none"
        /\ \A r \in ChatRequests : ctxOf[r] # "session"
    BY DEF ChatInit, Streamed
  <1> QED
    BY <1>1 DEF Subscribed, Contexts

\* "Client disconnect MUST NOT leak", for any messages and however their sends,
\* disconnects, closings and panics interleave: with every handler returned the
\* session has no subscriber and no context, and no expert runs under a context
\* of it that nobody can cancel any more (stream.go).
THEOREM StreamLeaksNothing == ChatSpec => []NoStreamLeak
  <1>1. ChatInit => ChatTypes /\ PlaceInv /\ Subscribed /\ Contexts
    BY ChatTypesInit, SubscribedInit
  <1>2. ChatTypes /\ PlaceInv /\ Subscribed /\ Contexts /\ [ChatNext]_chatVars
        => ChatTypes' /\ PlaceInv' /\ Subscribed' /\ Contexts'
    BY ChatSteps, StreamStep
  <1>3. ChatTypes /\ Subscribed /\ Contexts => NoStreamLeak
    <2> SUFFICES ASSUME ChatTypes, Subscribed, Contexts,
                        \A r \in ChatRequests : hpc[r] \in {"away", "gone"}
                 PROVE  /\ subCount = 0 /\ streamCtx = "none"
                        /\ \A r \in ChatRequests : ctxOf[r] # "session"
      BY DEF NoStreamLeak
    <2>1. Streamed = {}
      BY DEF Streamed
    <2>2. subCount = 0
      <3>1. subCount \in Nat
        BY DEF ChatTypes, SubscriberTypes
      <3>2. CASE subCount # 0
        <4>1. 1 \in 1..subCount
          BY <3>1, <3>2
        <4> QED
          BY <2>1, <4>1 DEF Subscribed
      <3> QED
        BY <3>2
    <2> QED
      BY <2>2 DEF Contexts
  <1> QED
    BY <1>1, <1>2, <1>3, PTL DEF ChatSpec

-----------------------------------------------------------------------------
(* What is in the store is a proposal, since no tool call is found in what  *)
(* was read of an output that is not among those counted.                   *)

ReadSoFar ==
    /\ \A r \in ChatRequests : expert[r] \in Readable(r)
    /\ proposals \subseteq Proposal
    /\ \A r \in ChatRequests : Len(subCh[r]) <= ChatBuffer

LEMMA ReadableType ==
    ASSUME NEW r \in ChatRequests, NEW read \in Readable(r)
    PROVE  read \in Seq(Seq(Line))
  <1>1. <<>> \in Seq(Seq(Line)) /\ Apology \in Seq(Seq(Line))
    <2>1. [kind |-> "text", cmd |-> NoVerb] \in Line
      BY DEF Line, LineKinds, NoVerb
    <2> DEFINE line == [kind |-> "text", cmd |-> NoVerb]
    <2> HIDE DEF line
    <2>2. <<line>> \in Seq(Line)
      BY <2>1 DEF line
    <2>3. <<<<line>>>> \in Seq(Seq(Line))
      BY <2>2
    <2> QED
      BY <2>3 DEF Apology, line
  <1>2. ASSUME NEW out \in Outputs[r], NEW n \in 0..Len(out)
        PROVE  SubSeq(out, 1, n) \in Seq(Seq(Line))
    BY <1>2, ChatAssumption
  <1>3. read \in {<<>>, Apology} \/ \E out \in Outputs[r] : \E n \in 0..Len(out) :
            read = SubSeq(out, 1, n)
    BY DEF Readable
  <1> HIDE DEF Apology
  <1> QED
    BY <1>1, <1>2, <1>3

\* The expert's next chunk.
LEMMA ReadOn ==
    ASSUME NEW r \in ChatRequests, NEW out \in Outputs[r], NEW read \in Seq(Seq(Line)),
           Len(out) > Len(read), SubSeq(out, 1, Len(read)) = read
    PROVE  Append(read, out[Len(read) + 1]) \in Readable(r)
  <1>1. out \in Seq(Seq(Line)) /\ Len(read) \in Nat /\ Len(out) \in Nat
    BY ChatAssumption
  <1> DEFINE n == Len(read) + 1
             more == Append(read, out[n])
             part == SubSeq(out, 1, n)
  <1>2. n \in 0..Len(out) /\ n \in 1..Len(out) /\ n - 1 = Len(read)
    BY <1>1
  <1>3. more \in Seq(Seq(Line)) /\ Len(more) = n
    <2>1. out[n] \in Seq(Line)
      BY <1>1, <1>2
    <2> QED
      BY <2>1, AppendProperties
  <1>4. part \in Seq(Seq(Line)) /\ Len(part) = n /\ \A j \in 1..n : part[j] = out[j]
    BY <1>1, <1>2
  <1>5. \A j \in 1..n : more[j] = out[j]
    <2>1. \A j \in 1..Len(read) : read[j] = out[j]
      <3>1. \A j \in 1..Len(read) : SubSeq(out, 1, Len(read))[j] = out[j]
        BY <1>1
      <3> QED
        BY <3>1
    <2>2. (\A j \in 1..Len(read) : more[j] = read[j]) /\ more[n] = out[n]
      BY AppendProperties, <1>1, <1>2
    <2>3. \A j \in 1..n : j \in 1..Len(read) \/ j = n
      <3> DEFINE m == Len(read)
      <3>1. m \in Nat
        BY <1>1
      <3> HIDE DEF m
      <3>2. \A j \in 1..(m + 1) : j \in 1..m \/ j = m + 1
        BY <3>1
      <3> QED
        BY <3>2 DEF m
    <2> QED
      BY <2>1, <2>2, <2>3
  <1>6. more = part
    <2> HIDE DEF n, more, part
    <2>1. \A j \in 1..Len(more) : more[j] = part[j]
      BY <1>3, <1>4, <1>5
    <2> QED
      BY <1>3, <1>4, <2>1, SeqEqual
  <1> QED
    BY <1>2, <1>6 DEF Readable

\* A call that the writer is at is a proposal.
LEMMA AtCallProposes ==
    ASSUME ChatTypes, PlaceInv, ReadSoFar, NEW r \in ChatRequests, AtCall(r)
    PROVE  call[r] \in Proposal
  <1>1. PICK k \in Positive : call[r] = <<r, k>>
    <2>1. Place(r) = "calls"
      BY DEF AtCall, Place
    <2> QED
      BY <2>1 DEF PlaceInv, ChatTypes, CallTypes
  <1> DEFINE calls == Len(ToolCalls(ExpertOutput(r)))
  <1>2. calls \in CallCounts
    BY DEF ReadSoFar, ExpertOutput, CallCounts
  <1>3. k <= calls
    BY <1>1 DEF AtCall
  <1> HIDE DEF calls
  <1>4. calls \in 0..MaxCalls /\ MaxCalls \in Nat
    BY <1>2, CallsAssumption
  <1>5. k \in 1..MaxCalls
    BY <1>3, <1>4 DEF Positive
  <1> QED
    BY <1>1, <1>5 DEF Proposal

LEMMA ReadSoFarInit == ChatInit => ReadSoFar
  <1> SUFFICES ASSUME ChatInit PROVE ReadSoFar
    OBVIOUS
  <1>1. \A r \in ChatRequests : expert[r] = <<>> /\ subCh[r] = <<>>
    BY DEF ChatInit
  <1>2. Len(<<>>) <= ChatBuffer
    BY ChatAssumption
  <1> QED
    BY <1>1, <1>2 DEF ChatInit, ReadSoFar, Readable

LEMMA ReadSoFarStep ==
    ASSUME ChatTypes, PlaceInv, ReadSoFar, [ChatNext]_chatVars
    PROVE  ReadSoFar'
  <1>1. ChatBuffer \in Nat /\ subCh \in [ChatRequests -> Seq(Chunks)]
        /\ \A r \in ChatRequests : /\ expert[r] \in Readable(r)
                                   /\ Len(subCh[r]) <= ChatBuffer /\ Len(subCh[r]) \in Nat
    BY ChatAssumption DEF ReadSoFar, ChatTypes, HandlerTypes
  <1>2. ASSUME UNCHANGED <<expert, subCh>>, proposals' \subseteq proposals PROVE ReadSoFar'
    BY <1>2 DEF ReadSoFar
  <1>3. CASE UNCHANGED chatVars
    BY <1>2, <1>3 DEF chatVars, writers, handlers, operations
  <1>4. ASSUME NEW r \in ChatRequests,
               Open(r) \/ ClientGone(r) \/ StoreUserMessage(r) \/ ExpertEnds(r) \/ RefuseCall(r)
               \/ Reply(r)
        PROVE  ReadSoFar'
    BY <1>2, <1>4 DEF Open, ClientGone, StoreUserMessage, ExpertEnds, RefuseCall, Reply,
                      writers, handlers, operations
  <1>5. ASSUME NEW w \in ChatWriters, Execute(w) \/ AuditExecuted(w)
        PROVE  ReadSoFar'
    BY <1>2, <1>5 DEF Execute, AuditExecuted, handlers, operations
  <1>6. ASSUME NEW c \in Confirmations, NEW x \in Proposal, NEW approved \in BOOLEAN,
               ConfirmProposal(c, x, approved)
        PROVE  ReadSoFar'
    BY <1>2, <1>6 DEF ConfirmProposal, Resolve, handlers
  <1>7. CASE DeleteSession
    BY <1>2, <1>7 DEF DeleteSession, writers, handlers, operations
  <1>8. ASSUME NEW r \in ChatRequests, ExpertChunk(r) PROVE ReadSoFar'
    <2>1. PICK out \in Outputs[r] :
            /\ Len(out) > Len(expert[r]) /\ SubSeq(out, 1, Len(expert[r])) = expert[r]
            /\ expert' = [expert EXCEPT ![r] = Append(expert[r], out[Len(expert[r]) + 1])]
      BY <1>8 DEF ExpertChunk
    <2>2. Append(expert[r], out[Len(expert[r]) + 1]) \in Readable(r)
      BY <1>1, <2>1, ReadableType, ReadOn
    <2>3. \A q \in ChatRequests : expert'[q] \in Readable(q)
      BY <1>1, <2>1, <2>2 DEF ChatTypes, WriterTypes
    <2>4. UNCHANGED <<subCh, proposals>>
      BY <1>8 DEF ExpertChunk, handlers, operations
    <2> QED
      BY <1>1, <2>3, <2>4 DEF ReadSoFar
  <1>9. ASSUME NEW r \in ChatRequests, ExpertFails(r) PROVE ReadSoFar'
    <2>1. expert' = [expert EXCEPT ![r] = Apology] /\ UNCHANGED <<subCh, proposals>>
      BY <1>9 DEF ExpertFails, handlers, operations
    <2>2. \A q \in ChatRequests : expert'[q] \in Readable(q)
      BY <1>1, <2>1 DEF ChatTypes, WriterTypes, Readable
    <2> QED
      BY <1>1, <2>1, <2>2 DEF ReadSoFar
  <1>10. ASSUME NEW r \in ChatRequests, ProposeCall(r) PROVE ReadSoFar'
    <2>1. call[r] \in Proposal
      BY <1>10, AtCallProposes DEF ProposeCall
    <2>2. (proposals' = proposals \cup {call[r]} \/ proposals' = proposals)
          /\ UNCHANGED <<expert, subCh>>
      BY <1>10 DEF ProposeCall, handlers
    <2> QED
      BY <2>1, <2>2 DEF ReadSoFar
  <1>11. ASSUME NEW r \in ChatRequests, ForwardChunk(r) \/ HandlerReturns(r) PROVE ReadSoFar'
    <2>1. /\ UNCHANGED <<expert, proposals>>
          /\ \/ subCh[r] # <<>> /\ subCh' = [subCh EXCEPT ![r] = Tail(subCh[r])]
             \/ subCh' = [subCh EXCEPT ![r] = <<>>]
      BY <1>11 DEF ForwardChunk, HandlerReturns, writers, operations
    <2>2. /\ subCh[r] # <<>> => Len(Tail(subCh[r])) = Len(subCh[r]) - 1
          /\ Len(<<>>) = 0
      BY <1>1, HeadTailProperties
    <2>3. \A q \in ChatRequests : Len(subCh'[q]) <= ChatBuffer
      BY <1>1, <2>1, <2>2
    <2> QED
      BY <2>1, <2>3 DEF ReadSoFar
  <1>12. ASSUME NEW w \in ChatWriters, SendChunk(w) PROVE ReadSoFar'
    <2>1. expert' = expert /\ proposals' \subseteq proposals
      BY <1>12, SendPlaces
    <2>2. \/ subCh' = subCh \/ subCh' = [q \in ChatRequests |-> <<>>]
          \/ \E r : /\ Len(subCh[r]) < ChatBuffer
                    /\ subCh' = [subCh EXCEPT ![r] = Append(subCh[r], sending[w].chunk)]
      BY <1>12 DEF SendChunk, ServerDies, handlers
    <2>3. sending[w].chunk \in Chunks
      BY DEF ChatTypes, WriterTypes, Sendings
    <2>4. \A q \in ChatRequests : Len(subCh'[q]) <= ChatBuffer
      <3>1. CASE subCh' = subCh \/ subCh' = [q \in ChatRequests |-> <<>>]
        BY <1>1, <3>1
      <3>2. ASSUME NEW r, Len(subCh[r]) < ChatBuffer,
                   subCh' = [subCh EXCEPT ![r] = Append(subCh[r], sending[w].chunk)],
                   NEW q \in ChatRequests
            PROVE  Len(subCh'[q]) <= ChatBuffer
        <4>1. CASE q = r
          <5>1. Len(Append(subCh[q], sending[w].chunk)) = Len(subCh[q]) + 1
            BY <1>1, <2>3, AppendProperties
          <5>2. subCh'[q] = Append(subCh[q], sending[w].chunk)
            BY <1>1, <3>2, <4>1
          <5> QED
            BY <1>1, <3>2, <4>1, <5>1, <5>2
        <4>2. CASE q # r
          BY <1>1, <3>2, <4>2
        <4> QED
          BY <4>1, <4>2
      <3> QED
        BY <2>2, <3>1, <3>2
    <2> QED
      BY <2>1, <2>4 DEF ReadSoFar
  <1> QED
    BY <1>3, <1>4, <1>5, <1>6, <1>7, <1>8, <1>9, <1>10, <1>11, <1>12 DEF ChatNext

\* The subscribers of the session's stream are the handlers that have not
\* returned, no channel holds more than its capacity, and what waits in the
\* store for the user is a tool call of some message's answer, for any outputs
\* of the expert in which the parser finds a bounded number (chat/service.go).
THEOREM ChatTypeCorrect == ChatSpec => []ChatTypeOK
  <1>1. ChatInit => ChatTypes /\ PlaceInv /\ Subscribed /\ Contexts /\ ReadSoFar
    BY ChatTypesInit, SubscribedInit, ReadSoFarInit
  <1>2. ChatTypes /\ PlaceInv /\ Subscribed /\ Contexts /\ ReadSoFar /\ [ChatNext]_chatVars
        => ChatTypes' /\ PlaceInv' /\ Subscribed' /\ Contexts' /\ ReadSoFar'
    BY ChatSteps, StreamStep, ReadSoFarStep
  <1>3. ChatTypes /\ Subscribed /\ ReadSoFar => ChatTypeOK
    <2> SUFFICES ASSUME ChatTypes, Subscribed, ReadSoFar PROVE ChatTypeOK
      OBVIOUS
    <2>1. subCount \in 0..Len(subs)
      BY DEF ChatTypes, SubscriberTypes
    <2>2. {subs[k] : k \in 1..subCount} = Streamed
      BY DEF Subscribed
    <2> QED
      BY <2>1, <2>2 DEF ChatTypeOK, Streamed, ReadSoFar
  <1> QED
    BY <1>1, <1>2, <1>3, PTL DEF ChatSpec
=============================================================================
