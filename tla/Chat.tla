-------------------------------- MODULE Chat --------------------------------
(* The chat: one session, the messages sent in it, the stream of each, and *)
(* the devteam operations that the expert proposes.  A send subscribes to  *)
(* the session's stream and runs SendMessage in a goroutine: the expert's  *)
(* lines are streamed, then parsed for tool calls; a read-only operation   *)
(* runs at once, others wait in the proposal store for the user.  The      *)
(* stream's lock is released while a chunk is sent, and the subscribers    *)
(* walked over are the array that a closing subscriber is cut out of.      *)
(***************************************************************************)
EXTENDS Naturals, Sequences, FiniteSets
LOCAL INSTANCE SequencesExt

CONSTANTS
    ChatRequests,  \* the messages sent
    Confirmations, \* the answers to proposals
    Outputs,       \* Outputs[r]: what the expert may write to r, in chunks of lines
    TrustMode,     \* chat.trust_mode
    ChatBuffer     \* the capacity of a subscriber's channel

ChatWriters == ChatRequests \cup Confirmations
LineKinds == {"text", "tool-call", "verb", "/tool-call",
              "citations", "file", "/citations"}

NoVerb == <<>>

\* A line has its kind and, if it names a verb, the words of the command.
Line == [kind : LineKinds, cmd : Seq(STRING)]

ASSUME ChatAssumption ==
    /\ ChatRequests \cap Confirmations = {}
    /\ \A r \in ChatRequests : Outputs[r] \subseteq Seq(Seq(Line))
    /\ TrustMode \in BOOLEAN /\ ChatBuffer \in Nat \ {0}

-----------------------------------------------------------------------------
(* The allowlist.                                                          *)

ReadOnlyVerbs == {<<"feature", "status">>, <<"feature", "info">>, <<"stages">>,
    <<"audit">>, <<"artifacts">>, <<"artifact", "get">>, <<"repos", "list">>,
    <<"repo", "list">>, <<"questions", "list">>}
MutatingVerbs == {<<"feature", "create">>, <<"run-stage">>,
    <<"questions", "answer">>, <<"artifact", "submit">>, <<"questions", "ask">>}
SignalVerbs == {<<"signal", "pass">>, <<"signal", "recirculate">>,
    <<"signal", "needs_feedback">>, <<"signal", "failed">>}
DestructiveVerbs == {<<"feature", "cancel">>, <<"cancel", "feature">>,
    <<"repo", "delete">>, <<"delete", "repo">>}

StartsWith(cmd, verb) == Len(verb) <= Len(cmd) /\ SubSeq(cmd, 1, Len(verb)) = verb

\* "signal <id> <outcome>": the feature's id stands between the two words.
MatchSignal(cmd, verb) == Len(cmd) >= 3 /\ <<cmd[1], cmd[3]>> = verb

FindVerb(cmd) ==
    LET found == {v \in ReadOnlyVerbs \cup MutatingVerbs \cup DestructiveVerbs :
                      StartsWith(cmd, v)}
                 \cup {v \in SignalVerbs : MatchSignal(cmd, v)}
    IN  IF found = {} THEN NoVerb
        ELSE CHOOSE v \in found : \A u \in found : Len(u) <= Len(v)

\* The arguments that a proposal is run with.
ProposalArgs(cmd) ==
    LET v == FindVerb(cmd)
    IN  IF v \in SignalVerbs THEN cmd ELSE SubSeq(cmd, Len(v) + 1, Len(cmd))

RunsAtOnce(cmd) ==
    \/ FindVerb(cmd) \in ReadOnlyVerbs
    \/ FindVerb(cmd) \in MutatingVerbs \cup SignalVerbs /\ TrustMode

-----------------------------------------------------------------------------
(* The parser: extractBlocks removes the well-formed blocks from the text; *)
(* a block with no verb, or never closed, stays.                           *)

Extract(lines, open, shut, names) ==
    LET Len1 == Len(lines) + 1
        from[i \in 1..Len1] ==
          IF i = Len1 THEN [text |-> <<>>, blocks |-> <<>>]
          ELSE IF lines[i].kind # open
          THEN [from[i + 1] EXCEPT !.text = <<lines[i]>> \o @]
          ELSE LET ends == {j \in (i + 1)..Len(lines) : lines[j].kind = shut}
                   j == CHOOSE e \in ends : \A f \in ends : e <= f
                   body == SelectSeq(SubSeq(lines, i + 1, j - 1),
                                     LAMBDA l : l.kind = names)
               IN  IF ends = {}
                   THEN [text |-> SubSeq(lines, i, Len(lines)), blocks |-> <<>>]
                   ELSE IF body = <<>>
                   THEN [from[j + 1] EXCEPT !.text = SubSeq(lines, i, j) \o @]
                   ELSE [from[j + 1] EXCEPT !.blocks = <<body[Len(body)]>> \o @]
    IN  from[1]

ParseToolCalls(lines) == Extract(lines, "tool-call", "/tool-call", "verb")
ToolCalls(lines) == ParseToolCalls(lines).blocks
ParseCitations(lines) ==
    Extract(ParseToolCalls(lines).text, "citations", "/citations", "file")

\* What may have been read of the expert's answer to r, at any time: the output
\* from its start on, or the apology for an expert that could not be started.
Apology == <<<<[kind |-> "text", cmd |-> NoVerb]>>>>
Readable(r) ==
    {<<>>, Apology} \cup UNION {{SubSeq(out, 1, n) : n \in 0..Len(out)} : out \in Outputs[r]}

CallCounts ==
    {Len(ToolCalls(FlattenSeq(read))) : read \in UNION {Readable(r) : r \in ChatRequests}}
MaxCalls == CHOOSE n \in CallCounts : \A m \in CallCounts : m <= n

ASSUME CallsAssumption == MaxCalls \in Nat /\ CallCounts \subseteq 0..MaxCalls

\* A proposal: the request it came with and its place among the tool calls.
Proposal == ChatRequests \X (1..MaxCalls)

VARIABLES
    chatSession, \* whether the chat_sessions row exists
    replies,     \* the expert's chat_messages rows: the lines of each
    streamCtx,   \* the session's context: "none", "live", "cancelled"
    subs,        \* the array behind the session's subscribers, used or not
    subCount,    \* how many of it are subscribers
    hpc,         \* where the handler of each request is
    subCh,       \* the channel of each subscriber
    seen,        \* history: the proposals and ends that clients were told of
    wpc,         \* where each SendMessage or ConfirmProposal is
    sending,     \* the chunk each of them is sending
    ctxOf,       \* the context that each expert under way was dispatched with
    expert,      \* the chunks read from it
    call,        \* the proposal each writer is at
    proposals,   \* the proposal store
    decided,     \* history: what was decided of each proposal
    ran,         \* history: how often each proposal was run
    audits       \* the CHAT_CLI_EXEC events of each proposal

chatRows == <<chatSession, replies, audits>>
stream == <<streamCtx, subs, subCount>>
handlers == <<hpc, subCh, seen>>
writers == <<wpc, sending, ctxOf, expert, call>>
operations == <<proposals, decided, ran>>
chatVars == <<chatRows, stream, handlers, writers, operations>>

NoToolCall == <<"none", 0>>
Chunk(type, of) == [type |-> type, of |-> of]
NoSending == [chunk |-> Chunk("none", NoToolCall), i |-> 1, n |-> 0,
              shares |-> TRUE, own |-> <<>>, next |-> "idle"]
Told == {"tool-call", "done"}
ExpertOutput(r) == FlattenSeq(expert[r])
Command(x) == ToolCalls(ExpertOutput(x[1]))[x[2]].cmd
NeedsConfirm(x) == ~RunsAtOnce(Command(x))

ChatInit ==
    /\ chatSession = TRUE /\ replies = [r \in ChatRequests |-> <<>>]
    /\ streamCtx = "none" /\ subs = <<>> /\ subCount = 0
    /\ hpc = [r \in ChatRequests |-> "away"]
    /\ subCh = [r \in ChatRequests |-> <<>>] /\ seen = {}
    /\ wpc = [w \in ChatWriters |-> "idle"]
    /\ sending = [w \in ChatWriters |-> NoSending]
    /\ ctxOf = [r \in ChatRequests |-> "none"]
    /\ expert = [r \in ChatRequests |-> <<>>]
    /\ call = [w \in ChatWriters |-> NoToolCall]
    /\ proposals = {} /\ decided = [x \in Proposal |-> {}]
    /\ ran = [x \in Proposal |-> 0] /\ audits = [x \in Proposal |-> {}]

WGoto(w, label) == wpc' = [wpc EXCEPT ![w] = label]

-----------------------------------------------------------------------------
(* The streaming channel.                                                  *)

\* Open: append is in place when the array has room, else it moves, and
\* whoever walks over the old one keeps it.  A session with no subscriber left
\* starts with a new array.
Open(r) ==
    /\ hpc[r] = "away"
    /\ streamCtx' = IF streamCtx = "none" THEN "live" ELSE streamCtx
    /\ IF subCount \in 1..(Len(subs) - 1)
       THEN subs' = [subs EXCEPT ![subCount + 1] = r] /\ UNCHANGED sending
       ELSE /\ subs' = Append(SubSeq(subs, 1, subCount), r)
            /\ sending' = [w \in ChatWriters |->
                   IF wpc[w] = "writing" /\ sending[w].shares
                   THEN [sending[w] EXCEPT !.shares = FALSE, !.own = subs]
                   ELSE sending[w]]
    /\ subCount' = subCount + 1
    /\ hpc' = [hpc EXCEPT ![r] = "open"]
    /\ WGoto(r, "storing")
    /\ UNCHANGED <<chatRows, subCh, seen, ctxOf, expert, call, operations>>

\* WriteChunk begins with the subscribers there are, maybe none.
WriteChunk(w, line, next) ==
    IF subCount = 0 THEN WGoto(w, next) /\ UNCHANGED sending
    ELSE /\ sending' = [sending EXCEPT ![w] =
                [chunk |-> line, i |-> 1, n |-> subCount, shares |-> TRUE,
                 own |-> <<>>, next |-> next]]
         /\ WGoto(w, "writing")

\* A context that is cancelled is cancelled for whoever was given it.
Cancelled == [r \in ChatRequests |->
                 IF ctxOf[r] = "session" THEN "cancelled" ELSE ctxOf[r]]

\* The subscribers but the one at k; each is there once.
SubsBut(k) == RemoveAt(SubSeq(subs, 1, subCount), k)

\* The rest of the array is left as it is; it matters to who walks over it.
CutOut(kept) ==
    IF \E w \in ChatWriters : wpc[w] = "writing" /\ sending[w].shares
    THEN [j \in DOMAIN subs |-> IF j <= Len(kept) THEN kept[j] ELSE subs[j]]
    ELSE kept

\* (as a mutant: the session's context is left in the map)
CloseKeepsCtx(r) ==
    /\ \E k \in 1..subCount : subs[k] = r /\ subs' = CutOut(SubsBut(k))
    /\ subCount' = subCount - 1
    /\ IF subCount = 1 THEN ctxOf' = Cancelled ELSE UNCHANGED ctxOf
    /\ UNCHANGED streamCtx

\* The last subscriber to close cancels and forgets the context.
Close(r) ==
    /\ \E k \in 1..subCount : subs[k] = r /\ subs' = CutOut(SubsBut(k))
    /\ subCount' = subCount - 1
    /\ IF subCount = 1 THEN streamCtx' = "none" /\ ctxOf' = Cancelled
                       ELSE UNCHANGED <<streamCtx, ctxOf>>

\* A panic outside a handler ends the server; the store and the streams go.
ServerDies ==
    /\ streamCtx' = "none" /\ subs' = <<>> /\ subCount' = 0
    /\ hpc' = [r \in ChatRequests |-> IF hpc[r] = "away" THEN "away" ELSE "gone"]
    /\ subCh' = [r \in ChatRequests |-> <<>>]
    /\ wpc' = [w \in ChatWriters |-> IF wpc[w] = "idle" THEN "idle" ELSE "dead"]
    /\ sending' = [w \in ChatWriters |-> NoSending]
    /\ ctxOf' = [r \in ChatRequests |-> "none"]
    /\ proposals' = {} /\ UNCHANGED seen

\* A chunk for a full channel is dropped; sending on a closed one panics, which
\* the server survives only in a handler, ConfirmProposal's.
SendChunk(w) ==
    LET s == sending[w]
        r == (IF s.shares THEN subs ELSE s.own)[s.i]
        Done(label) == WGoto(w, label) /\ sending' = [sending EXCEPT ![w] = NoSending]
    IN  /\ wpc[w] = "writing"
        /\ \/ /\ hpc[r] # "gone"
              /\ subCh' = IF Len(subCh[r]) < ChatBuffer
                          THEN [subCh EXCEPT ![r] = Append(@, s.chunk)] ELSE subCh
              /\ IF s.i = s.n THEN Done(s.next)
                 ELSE sending' = [sending EXCEPT ![w].i = @ + 1] /\ UNCHANGED wpc
              /\ UNCHANGED <<hpc, seen, stream, ctxOf, proposals>>
           \/ /\ hpc[r] = "gone" /\ w \in Confirmations
              /\ Done("dead") /\ UNCHANGED <<handlers, stream, ctxOf, proposals>>
           \/ hpc[r] = "gone" /\ w \in ChatRequests /\ ServerDies
        /\ UNCHANGED <<chatRows, expert, call, decided, ran>>

-----------------------------------------------------------------------------
(* chatSendMessage, after Open: the handler forwards chunks.  "done" and   *)
(* "error" end the stream, whoever they are for: the handler waits for its *)
(* SendMessage, five seconds at most, and closes.                          *)

ClientSees(S) == seen' = seen \cup {c \in S : c.type \in Told}

ForwardChunk(r) ==
    /\ hpc[r] = "open" /\ subCh[r] # <<>>
    /\ ClientSees({Head(subCh[r])})
    /\ subCh' = [subCh EXCEPT ![r] = Tail(@)]
    /\ hpc' = [hpc EXCEPT ![r] =
           IF Head(subCh[r]).type \in {"done", "error"} THEN "draining" ELSE @]
    /\ UNCHANGED <<chatRows, stream, writers, operations>>

ClientGone(r) ==
    /\ hpc[r] = "open"
    /\ hpc' = [hpc EXCEPT ![r] = "draining"]
    /\ streamCtx' = "cancelled" /\ ctxOf' = Cancelled
    /\ UNCHANGED <<chatRows, subs, subCount, subCh, seen, wpc, sending, expert, call,
                   operations>>

\* From "open" it returns when its SendMessage has, with what is left in the
\* channel forwarded.
HandlerReturns(r) ==
    /\ hpc[r] = "draining" \/ (hpc[r] = "open" /\ wpc[r] = "returned")
    /\ IF hpc[r] = "open" THEN ClientSees({subCh[r][k] : k \in 1..Len(subCh[r])})
                          ELSE UNCHANGED seen
    /\ Close(r)
    /\ hpc' = [hpc EXCEPT ![r] = "gone"] /\ subCh' = [subCh EXCEPT ![r] = <<>>]
    /\ UNCHANGED <<chatRows, wpc, sending, expert, call, operations>>

-----------------------------------------------------------------------------
(* SendMessage.                                                            *)

\* The user's row is stored, the context read, and the expert dispatched.  With
\* the session deleted the first fails.
StoreUserMessage(r) ==
    /\ wpc[r] = "storing"
    /\ WGoto(r, IF chatSession THEN "asking" ELSE "returned")
    /\ ctxOf' = [ctxOf EXCEPT ![r] =
           IF ~chatSession THEN @
           ELSE CASE streamCtx = "live" -> "session"
                  [] streamCtx = "cancelled" -> "cancelled"
                  [] streamCtx = "none" -> "background"]
    /\ UNCHANGED <<chatRows, stream, handlers, sending, expert, call, operations>>

ExpertChunk(r) ==
    /\ wpc[r] = "asking" /\ ctxOf[r] # "cancelled"
    /\ \E out \in Outputs[r] :
        /\ Len(out) > Len(expert[r]) /\ SubSeq(out, 1, Len(expert[r])) = expert[r]
        /\ expert' = [expert EXCEPT ![r] = Append(@, out[Len(@) + 1])]
    /\ WriteChunk(r, Chunk("token", NoToolCall), "asking")
    /\ UNCHANGED <<chatRows, stream, handlers, ctxOf, call, operations>>

\* The expert ends, or its output is no longer read because the context is
\* cancelled: no error either way.
ExpertEnds(r) ==
    /\ wpc[r] = "asking"
    /\ ctxOf[r] = "cancelled" \/ expert[r] \in Outputs[r]
    /\ call' = [call EXCEPT ![r] = <<r, 1>>]
    /\ WGoto(r, "calls") /\ ctxOf' = [ctxOf EXCEPT ![r] = "none"]
    /\ UNCHANGED <<chatRows, stream, handlers, sending, expert, operations>>

\* The tmux session or the agent cannot be started: an apology is the output.
ExpertFails(r) ==
    /\ wpc[r] = "asking" /\ expert[r] = <<>>
    /\ expert' = [expert EXCEPT ![r] = Apology]
    /\ call' = [call EXCEPT ![r] = <<r, 1>>]
    /\ WriteChunk(r, Chunk("error", NoToolCall), "calls")
    /\ ctxOf' = [ctxOf EXCEPT ![r] = "none"]
    /\ UNCHANGED <<chatRows, stream, handlers, operations>>

NextCall(w) == call' = [call EXCEPT ![w] = <<@[1], @[2] + 1>>]
AtCall(r) == wpc[r] = "calls" /\ call[r][2] <= Len(ToolCalls(ExpertOutput(r)))
Audit(x, entry) == audits' = [audits EXCEPT ![x] = @ \cup {entry}]

RefuseCall(r) ==
    /\ AtCall(r) /\ FindVerb(Command(call[r])) = NoVerb
    /\ Audit(call[r], "verb_not_allowed")
    /\ NextCall(r)
    /\ WriteChunk(r, Chunk("error", NoToolCall), "calls")
    /\ UNCHANGED <<chatSession, replies, stream, handlers, ctxOf, expert, operations>>

\* Create: what needs a confirmation goes into the store, before the client is
\* told of it.
ProposeCall(r) ==
    /\ AtCall(r) /\ FindVerb(Command(call[r])) # NoVerb
    /\ IF NeedsConfirm(call[r])
       THEN /\ proposals' = proposals \cup {call[r]}
            /\ NextCall(r)
            /\ WriteChunk(r, Chunk("tool-call", call[r]), "calls")
       ELSE /\ UNCHANGED <<proposals, call>>
            /\ WriteChunk(r, Chunk("tool-call", call[r]), "running")
    /\ UNCHANGED <<chatRows, stream, handlers, ctxOf, expert, decided, ran>>

\* Execute, of a proposal or for a confirmation: with no argument left it runs
\* nothing.
Execute(w) ==
    /\ wpc[w] = "running"
    /\ ran' = IF ProposalArgs(Command(call[w])) = <<>> THEN ran
              ELSE [ran EXCEPT ![call[w]] = @ + 1]
    /\ WGoto(w, "auditing")
    /\ UNCHANGED <<chatRows, stream, handlers, sending, ctxOf, expert, call, proposals,
                   decided>>

\* (as a mutant: what needed no confirmation is not audited)
AuditConfirmed(w) ==
    /\ wpc[w] = "auditing"
    /\ IF w \in Confirmations THEN Audit(call[w], "executed") /\ UNCHANGED call
                              ELSE UNCHANGED audits /\ NextCall(w)
    /\ WriteChunk(w, Chunk("tool", NoToolCall),
                  IF w \in Confirmations THEN "returned" ELSE "calls")
    /\ UNCHANGED <<chatSession, replies, stream, handlers, ctxOf, expert, operations>>

AuditExecuted(w) ==
    /\ wpc[w] = "auditing"
    /\ Audit(call[w], "executed")
    /\ IF w \in Confirmations THEN UNCHANGED call ELSE NextCall(w)
    /\ WriteChunk(w, Chunk("tool", NoToolCall),
                  IF w \in Confirmations THEN "returned" ELSE "calls")
    /\ UNCHANGED <<chatSession, replies, stream, handlers, ctxOf, expert, operations>>

\* (as a mutant: the client is told before the reply is stored)
ReplyUnstored(r) ==
    /\ wpc[r] = "calls" /\ ~AtCall(r)
    /\ WriteChunk(r, Chunk("done", <<r, 0>>), "returned")
    /\ UNCHANGED <<chatRows, stream, handlers, ctxOf, expert, call, operations>>

InsertReply(r) ==
    replies' = [replies EXCEPT ![r] = Append(@, ParseCitations(ExpertOutput(r)).text)]

\* The reply's row fails with the session deleted, and then no chunk says so.
\* (The citations chunk before "done" is left out.)
Reply(r) ==
    /\ wpc[r] = "calls" /\ ~AtCall(r)
    /\ IF chatSession
       THEN /\ InsertReply(r)
            /\ WriteChunk(r, Chunk("done", <<r, 0>>), "returned")
       ELSE WGoto(r, "returned") /\ UNCHANGED <<replies, sending>>
    /\ UNCHANGED <<chatSession, audits, stream, handlers, ctxOf, expert, call,
                   operations>>

-----------------------------------------------------------------------------
(* ConfirmProposal, DeleteSession.                                         *)

\* The user decides on a proposal that a client was shown, perhaps twice.
Offered == {x \in Proposal : Chunk("tool-call", x) \in seen}

\* (as a mutant: looking a proposal up does not remove it)
ResolveKeeps(x) == UNCHANGED proposals

\* Whatever its age; who comes second finds none.
Resolve(x) == proposals' = proposals \ {x}

ConfirmProposal(c, x, approved) ==
    /\ wpc[c] = "idle" /\ x \in Offered
    /\ IF x \notin proposals
       THEN WGoto(c, "returned") /\ UNCHANGED <<call, decided, audits, sending>>
       ELSE /\ call' = [call EXCEPT ![c] = x]
            /\ decided' = [decided EXCEPT ![x] = @ \cup {approved}]
            /\ IF approved THEN WGoto(c, "running") /\ UNCHANGED <<audits, sending>>
               ELSE /\ Audit(x, "rejected")
                    /\ WriteChunk(c, Chunk("tool", NoToolCall), "returned")
    /\ Resolve(x)
    /\ UNCHANGED <<chatSession, replies, stream, handlers, ctxOf, expert, ran>>

\* The cascade takes the messages; streams and proposals stay.
DeleteSession ==
    /\ chatSession
    /\ chatSession' = FALSE /\ replies' = [r \in ChatRequests |-> <<>>]
    /\ UNCHANGED <<audits, stream, handlers, writers, operations>>

-----------------------------------------------------------------------------

ChatNext ==
    \/ \E r \in ChatRequests :
        \/ Open(r) \/ ForwardChunk(r) \/ ClientGone(r) \/ HandlerReturns(r)
        \/ StoreUserMessage(r) \/ ExpertChunk(r) \/ ExpertEnds(r) \/ ExpertFails(r)
        \/ RefuseCall(r) \/ ProposeCall(r) \/ Reply(r)
    \/ \E w \in ChatWriters : SendChunk(w) \/ Execute(w) \/ AuditExecuted(w)
    \/ \E c \in Confirmations, x \in Proposal, approved \in BOOLEAN :
        ConfirmProposal(c, x, approved)
    \/ DeleteSession

ChatSpec == ChatInit /\ [][ChatNext]_chatVars

-----------------------------------------------------------------------------
(* Properties.                                                             *)

\* The chat's variables have their types, and the subscribers are the handlers
\* that have not returned.
ChatTypeOK ==
    /\ subCount \in 0..Len(subs)
    /\ {subs[k] : k \in 1..subCount} =
          {r \in ChatRequests : hpc[r] \in {"open", "draining"}}
    /\ proposals \subseteq Proposal
    /\ \A r \in ChatRequests : Len(subCh[r]) <= ChatBuffer

\* The authorization boundary: an operation runs once at most, and one that
\* changes something only after the user approved it, except in trust mode and
\* then a destructive one still; a rejected one never runs, whoever confirms
\* what at the same time.
OpsAuthorized ==
    \A x \in Proposal : ran[x] > 0 =>
        /\ ran[x] = 1 /\ FALSE \notin decided[x]
        /\ LET v == FindVerb(Command(x))
           IN  /\ v # NoVerb
               /\ v \in DestructiveVerbs => TRUE \in decided[x]
               /\ v \notin ReadOnlyVerbs /\ ~TrustMode => TRUE \in decided[x]

\* "Emits a chat_cli_exec audit event for every op (incl. rejected)": what was
\* run or rejected has its event, or will once the goroutine at it goes on;
\* unless a panic of another request ended the server in between.
OpsAudited ==
    \A x \in Proposal : ran[x] > 0 \/ decided[x] # {} =>
        \/ audits[x] # {}
        \/ \E w \in ChatWriters :
              call[w] = x /\ wpc[w] \in {"running", "auditing", "dead"}

\* "the final done chunk carries the persisted message_id so the client can
\* recover via a GET": who is told that a message is done finds its reply,
\* until the session is deleted.
DonePersisted ==
    \A r \in ChatRequests :
        Chunk("done", <<r, 0>>) \in seen => replies[r] # <<>> \/ ~chatSession

\* "client disconnect MUST NOT leak": with every handler returned nothing of the
\* session's stream is left, and no expert runs under its context uncancelled,
\* however sends, disconnects and closings interleave.
NoStreamLeak ==
    (\A r \in ChatRequests : hpc[r] \in {"away", "gone"}) =>
        /\ subCount = 0 /\ streamCtx = "none"
        /\ \A r \in ChatRequests : ctxOf[r] # "session"

=============================================================================
