---------------------------- MODULE EventStream -----------------------------
(* Server-sent events of one feature: broadcastSSE keeps lifecycle events  *)
(* for late joiners and sends every event to the channel of each client;   *)
(* streamFeature registers a client, replays the buffer and then forwards  *)
(* the channel.  The lock is released between these steps, and the list of *)
(* clients that a broadcast walks over is the array that a leaving client  *)
(* is cut out of.                                                          *)
(***************************************************************************)
EXTENDS Naturals, Sequences, FiniteSets

CONSTANTS
    Clients,      \* browsers
    Senders,      \* goroutines that broadcast
    MaxEvents,    \* bound: how many events are broadcast
    Lifecycle,    \* the events, by number, that are lifecycle events
    EventBuffer,  \* how many lifecycle events are kept
    EventChannel  \* the capacity of a client's channel

Events == 1..MaxEvents

ASSUME EventAssumption ==
    /\ MaxEvents \in Nat /\ Lifecycle \subseteq Events
    /\ EventBuffer \in Nat \ {0} /\ EventChannel \in Nat \ {0}

VARIABLES
    eventCount, \* how many events were broadcast
    sseBuffer,  \* sseBuffers: the lifecycle events kept
    array,      \* the array behind sseClients, used or not
    count,      \* how many of it sseClients holds
    cpc,        \* where each client's handler is
    channel,    \* the channel of each client
    got,        \* what each client was sent
    sender,     \* what each sender is doing
    dropped,    \* history: events dropped because the client's channel was full
    raced       \* history: events during whose broadcast a client left

streamVars == <<eventCount, sseBuffer, array, count, cpc, channel, got, sender,
                dropped, raced>>

\* A sender at "send" looks at position i of its copy of the slice: the n first
\* of the array, which it shares unless the slice moved to a larger one.
Idle == [at |-> "idle", event |-> 0, i |-> 0, n |-> 0, shares |-> TRUE, own |-> <<>>]

StreamInit ==
    /\ eventCount = 0 /\ sseBuffer = <<>> /\ array = <<>> /\ count = 0
    /\ cpc = [c \in Clients |-> "away"]
    /\ channel = [c \in Clients |-> <<>>] /\ got = [c \in Clients |-> {}]
    /\ sender = [s \in Senders |-> Idle]
    /\ dropped = [c \in Clients |-> {}] /\ raced = {}

-----------------------------------------------------------------------------
(* streamFeature.                                                          *)

\* append: in place when the array has room, else to a new array, and then
\* senders keep the old one.
AddClient(c) ==
    /\ cpc[c] = "away"
    /\ IF count < Len(array)
       THEN array' = [array EXCEPT ![count + 1] = c] /\ UNCHANGED sender
       ELSE /\ array' = Append(array, c)
            /\ sender' = [s \in Senders |->
                    IF sender[s].shares
                    THEN [sender[s] EXCEPT !.shares = FALSE, !.own = array]
                    ELSE sender[s]]
    /\ count' = count + 1
    /\ cpc' = [cpc EXCEPT ![c] = "registered"]
    /\ UNCHANGED <<eventCount, sseBuffer, channel, got, dropped, raced>>

Replay(c) ==
    /\ cpc[c] = "registered"
    /\ got' = [got EXCEPT ![c] = @ \cup {sseBuffer[k] : k \in 1..Len(sseBuffer)}]
    /\ cpc' = [cpc EXCEPT ![c] = "streaming"]
    /\ UNCHANGED <<eventCount, sseBuffer, array, count, channel, sender, dropped,
                   raced>>

Forward(c) ==
    /\ cpc[c] = "streaming" /\ channel[c] # <<>>
    /\ got' = [got EXCEPT ![c] = @ \cup {Head(channel[c])}]
    /\ channel' = [channel EXCEPT ![c] = Tail(@)]
    /\ UNCHANGED <<eventCount, sseBuffer, array, count, cpc, sender, dropped, raced>>

\* The client disconnects: its successors move one place down in the array.
RemoveClient(c) ==
    /\ cpc[c] \in {"registered", "streaming"}
    /\ \E k \in 1..count :
        /\ array[k] = c
        /\ array' = [j \in DOMAIN array |->
                IF j \in k..(count - 1) THEN array[j + 1] ELSE array[j]]
    /\ count' = count - 1
    /\ cpc' = [cpc EXCEPT ![c] = "gone"]
    /\ channel' = [channel EXCEPT ![c] = <<>>] /\ got' = [got EXCEPT ![c] = {}]
    /\ raced' = raced \cup {sender[s].event :
                                s \in {t \in Senders : sender[t].at = "send"}}
    /\ UNCHANGED <<eventCount, sseBuffer, sender, dropped>>

-----------------------------------------------------------------------------
(* broadcastSSE.                                                           *)

Kept(s) == IF Len(s) > EventBuffer
           THEN SubSeq(s, Len(s) - EventBuffer + 1, Len(s)) ELSE s

BroadcastEvent(s) ==
    /\ sender[s].at = "idle" /\ eventCount < MaxEvents
    /\ eventCount' = eventCount + 1
    /\ sseBuffer' = IF eventCount + 1 \in Lifecycle
                    THEN Kept(Append(sseBuffer, eventCount + 1)) ELSE sseBuffer
    /\ sender' = [sender EXCEPT ![s].at = "listing", ![s].event = eventCount + 1]
    /\ UNCHANGED <<array, count, cpc, channel, got, dropped, raced>>

\* (as a mutant: the walk begins one client too late)
ListsOneLess(s) ==
    /\ sender[s].at = "listing"
    /\ sender' = [sender EXCEPT ![s].at = "send", ![s].i = 2, ![s].n = count,
                                ![s].shares = TRUE, ![s].own = <<>>]
    /\ UNCHANGED <<eventCount, sseBuffer, array, count, cpc, channel, got, dropped,
                   raced>>

ListClients(s) ==
    /\ sender[s].at = "listing"
    /\ sender' = [sender EXCEPT ![s].at = "send", ![s].i = 1, ![s].n = count,
                                ![s].shares = TRUE, ![s].own = <<>>]
    /\ UNCHANGED <<eventCount, sseBuffer, array, count, cpc, channel, got, dropped,
                   raced>>

\* A send that would block is left out; a client that is gone reads no more.
SendEvent(s) ==
    /\ sender[s].at = "send" /\ sender[s].i <= sender[s].n
    /\ LET c == (IF sender[s].shares THEN array ELSE sender[s].own)[sender[s].i]
       IN  IF cpc[c] = "gone" THEN UNCHANGED <<channel, dropped>>
           ELSE IF Len(channel[c]) < EventChannel
           THEN /\ channel' = [channel EXCEPT ![c] = Append(@, sender[s].event)]
                /\ UNCHANGED dropped
           ELSE /\ dropped' = [dropped EXCEPT ![c] = @ \cup {sender[s].event}]
                /\ UNCHANGED channel
    /\ sender' = [sender EXCEPT ![s].i = @ + 1]
    /\ UNCHANGED <<eventCount, sseBuffer, array, count, cpc, got, raced>>

BroadcastEnds(s) ==
    /\ sender[s].at = "send" /\ sender[s].i > sender[s].n
    /\ sender' = [sender EXCEPT ![s] = Idle]
    /\ UNCHANGED <<eventCount, sseBuffer, array, count, cpc, channel, got, dropped,
                   raced>>

-----------------------------------------------------------------------------

StreamNext ==
    \/ \E c \in Clients : AddClient(c) \/ Replay(c) \/ Forward(c) \/ RemoveClient(c)
    \/ \E s \in Senders : \/ BroadcastEvent(s) \/ ListClients(s) \/ SendEvent(s)
                          \/ BroadcastEnds(s)

StreamSpec == StreamInit /\ [][StreamNext]_streamVars

-----------------------------------------------------------------------------
(* Properties.                                                             *)

InChannel(c) == {channel[c][k] : k \in 1..Len(channel[c])}
Underway == {sender[s].event : s \in Senders}

\* The hub's variables have their types; the clients listed are the connected.
StreamTypeOK ==
    /\ eventCount \in 0..MaxEvents /\ count \in 0..Len(array)
    /\ Len(sseBuffer) <= EventBuffer
    /\ {array[k] : k \in 1..count} =
          {c \in Clients : cpc[c] \in {"registered", "streaming"}}
    /\ \A c \in Clients : Len(channel[c]) <= EventChannel /\ got[c] \subseteq Events

\* "Replay buffered lifecycle events for late joiners": a client that streams
\* has, or is about to get, every lifecycle event that is kept and whose
\* broadcast is over, however it came between registering and replaying: unless
\* its channel was full then, or another client left during the broadcast.
NoGap ==
    \A c \in Clients : cpc[c] = "streaming" =>
        \A k \in 1..Len(sseBuffer) :
            sseBuffer[k] \in got[c] \cup InChannel(c) \cup Underway
                             \cup dropped[c] \cup raced

=============================================================================
