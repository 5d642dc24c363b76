------------------------------ MODULE ChatStream ------------------------------
(***************************************************************************)
(* One chat turn's stream.  A task of its own reads what the AI service    *)
(* sends, passes it on through a bounded channel to a caller who may read, *)
(* stop reading or hang up at any time, slips in the artifact a tool left, *)
(* and stores the reply however the turn ends.                             *)
(***************************************************************************)
EXTENDS Naturals, Sequences, FiniteSets

CONSTANTS
    ChannelDepth,  \* events the channel holds
    MaxEvents      \* bound on what the AI service sends in a turn

ASSUME ChatStreamAssumption == ChannelDepth \in Nat \ {0} /\ MaxEvents \in Nat

\* "result" is the result of a call that worked, "refused" of one that did not.
Passed == {"token", "call", "result", "refused", "error"}
LastEvents == {"done", "error"}

VARIABLES
    pump,      \* where the task is: see Stages
    canvas,    \* the channel shows artifacts (the web does, Telegram does not)
    event,     \* the event at hand
    heard,     \* how many events the AI service has sent
    said,      \* tokens and tool calls of the reply so far
    left,      \* the artifact the last tool call left in the turn store
    after,     \* what is sent once the reply is stored, or "nothing"
    reply,     \* the stored reply, or NotStored
    channel,   \* events in the channel
    caller,    \* "there" or "gone"
    got        \* history: the events the caller has read

chatStreamVars == <<pump, canvas, event, heard, said, left, after, reply, channel, caller, got>>

Stages == {"next", "forward", "artifact", "store", "last", "ended"}
NotStored == [tokens |-> 0, calls |-> 0, kept |-> "no"]

ChatStreamInit ==
    /\ pump = "next" /\ canvas \in BOOLEAN /\ event = "token" /\ heard = 0
    /\ said = [tokens |-> 0, calls |-> 0]
    /\ left = FALSE /\ after = "nothing" /\ reply = NotStored
    /\ channel = <<>> /\ caller = "there" /\ got = <<>>

\* The reply is stored next, and then the caller is told.
StoreThen(what) == pump' = "store" /\ after' = what

------------------------------------------------------------------------------
\* What the AI service sends.

Hear == heard < MaxEvents /\ heard' = heard + 1

Token ==
    /\ pump = "next" /\ Hear
    /\ event' = "token" /\ pump' = "forward"
    /\ said' = [said EXCEPT !.tokens = @ + 1]
    /\ UNCHANGED <<canvas, left, after, reply, channel, caller, got>>

\* The call is noted in the reply; executing it may leave an artifact.
Call ==
    /\ pump = "next" /\ Hear
    /\ event' = "call" /\ pump' = "forward"
    /\ said' = [said EXCEPT !.calls = @ + 1]
    /\ left' \in BOOLEAN
    /\ UNCHANGED <<canvas, after, reply, channel, caller, got>>

Result ==
    /\ pump = "next" /\ said.calls > 0 /\ Hear
    /\ event' \in {"result", "refused"} /\ pump' = "forward"
    /\ UNCHANGED <<canvas, said, left, after, reply, channel, caller, got>>

\* An artifact from the AI service is not passed on, whatever it says.
ForeignArtifact ==
    /\ pump = "next" /\ Hear
    /\ UNCHANGED <<pump, canvas, event, said, left, after, reply, channel, caller, got>>

Done ==
    /\ pump = "next" /\ Hear
    /\ StoreThen("done")
    /\ UNCHANGED <<canvas, event, said, left, reply, channel, caller, got>>

ErrorEvent ==
    /\ pump = "next" /\ Hear
    /\ event' = "error" /\ pump' = "forward"
    /\ UNCHANGED <<canvas, said, left, after, reply, channel, caller, got>>

(* Mutation: a stream that just stops is the end of it. *)
BreakSilently ==
    /\ pump = "next"
    /\ StoreThen("nothing")
    /\ UNCHANGED <<canvas, event, heard, said, left, reply, channel, caller, got>>

\* A broken seal, or an end without a last event.
Break ==
    /\ pump = "next"
    /\ StoreThen("error")
    /\ UNCHANGED <<canvas, event, heard, said, left, reply, channel, caller, got>>

(* Mutation: time is looked at when an event comes. *)
DeadlineAtEvent ==
    /\ pump = "next" /\ Hear
    /\ StoreThen("error")
    /\ UNCHANGED <<canvas, event, said, left, reply, channel, caller, got>>

\* The turn's time is up while the task waits for the next event.
Deadline ==
    /\ pump = "next"
    /\ StoreThen("error")
    /\ UNCHANGED <<canvas, event, heard, said, left, reply, channel, caller, got>>

------------------------------------------------------------------------------
\* What the task passes on.  A full channel holds it up.

(* Mutation: the channel takes what comes. *)
RoomForAll == caller = "there"

Room == caller = "there" /\ Len(channel) < ChannelDepth
Push(e) == channel' = Append(channel, e)

(* Mutation: the caller is gone, and so is the turn. *)
DropOnHangUp ==
    /\ pump = "forward" /\ caller = "gone"
    /\ pump' = "ended"
    /\ UNCHANGED <<canvas, event, heard, said, left, after, reply, channel, caller, got>>

StoreOnHangUp ==
    /\ pump \in {"forward", "artifact"} /\ caller = "gone"
    /\ StoreThen("nothing")
    /\ UNCHANGED <<canvas, event, heard, said, left, reply, channel, caller, got>>

(* Mutation: whatever the turn store holds is taken with the next answer. *)
LeavesAnyhow == event \in {"result", "refused"} /\ left

\* The artifact a call that worked has left, taken once.
Leaves == event = "result" /\ canvas /\ left

Forward ==
    /\ pump = "forward" /\ Room
    /\ Push(event)
    /\ IF event = "error"
       THEN StoreThen("nothing") /\ UNCHANGED left
       ELSE /\ pump' = IF Leaves THEN "artifact" ELSE "next"
            /\ left' = (left /\ ~Leaves)
            /\ UNCHANGED after
    /\ UNCHANGED <<canvas, event, heard, said, reply, caller, got>>

ShowArtifact ==
    /\ pump = "artifact" /\ Room
    /\ Push("artifact") /\ pump' = "next"
    /\ UNCHANGED <<canvas, event, heard, said, left, after, reply, caller, got>>

\* A turn that said and did nothing leaves no message; storing may fail.
Store ==
    /\ pump = "store"
    /\ \/ /\ said.tokens + said.calls > 0
          /\ reply' = [tokens |-> said.tokens, calls |-> said.calls, kept |-> "stored"]
       \/ /\ said.tokens + said.calls > 0
          /\ reply' = [reply EXCEPT !.kept = "failed"]
       \/ /\ said.tokens + said.calls = 0
          /\ reply' = [reply EXCEPT !.kept = "nothing"]
    /\ pump' = IF after = "nothing" THEN "ended" ELSE "last"
    /\ UNCHANGED <<canvas, event, heard, said, left, after, channel, caller, got>>

\* The last event, unless the caller is gone.
SendLast ==
    /\ pump = "last"
    /\ \/ Room /\ Push(after)
       \/ caller = "gone" /\ UNCHANGED channel
    /\ pump' = "ended"
    /\ UNCHANGED <<canvas, event, heard, said, left, after, reply, caller, got>>

------------------------------------------------------------------------------
\* The caller.

Read ==
    /\ caller = "there" /\ channel # <<>>
    /\ got' = Append(got, Head(channel)) /\ channel' = Tail(channel)
    /\ UNCHANGED <<pump, canvas, event, heard, said, left, after, reply, caller>>

HangUp ==
    /\ caller = "there"
    /\ caller' = "gone" /\ channel' = <<>>
    /\ UNCHANGED <<pump, canvas, event, heard, said, left, after, reply, got>>

Upstream == Token \/ Call \/ Result \/ ForeignArtifact \/ Done \/ ErrorEvent \/ Break
PumpSteps == StoreOnHangUp \/ Forward \/ ShowArtifact \/ Store \/ SendLast

ChatStreamNext == Upstream \/ Deadline \/ PumpSteps \/ Read \/ HangUp

ChatStreamSpec == ChatStreamInit /\ [][ChatStreamNext]_chatStreamVars

\* The task runs and time passes.  Nobody makes the AI service send or the
\* caller read.
ChatStreamFairness == WF_chatStreamVars(PumpSteps) /\ WF_chatStreamVars(Deadline)

ChatStreamFairSpec == ChatStreamSpec /\ ChatStreamFairness

(***************************************************************************)
(* Properties.                                                             *)
(***************************************************************************)
\* Every variable holds what its declaration says; the channel is within its
\* depth.
ChatStreamTypeOK ==
    /\ pump \in Stages /\ canvas \in BOOLEAN /\ event \in Passed /\ heard \in 0..MaxEvents
    /\ said \in [tokens : 0..MaxEvents, calls : 0..MaxEvents]
    /\ left \in BOOLEAN /\ after \in LastEvents \cup {"nothing"}
    /\ reply \in [tokens : 0..MaxEvents, calls : 0..MaxEvents, kept : {"no", "stored", "failed", "nothing"}]
    /\ channel \in Seq(Passed \cup LastEvents \cup {"artifact"}) /\ Len(channel) <= ChannelDepth
    /\ caller \in {"there", "gone"}
    /\ got \in Seq(Passed \cup LastEvents \cup {"artifact"})

Sent == got \o channel
CountOf(s, e) == Cardinality({i \in 1..Len(s) : s[i] = e})

\* A stream never ends silently, and says nothing more once it has ended: a
\* caller who stays gets one last event, "done" or "error", and it is last.
OneLastEvent ==
    /\ \A i \in 1..Len(Sent) : Sent[i] \in LastEvents => i = Len(Sent)
    /\ pump = "ended" /\ caller = "there" => (Sent # <<>> /\ Sent[Len(Sent)] \in LastEvents)

\* The canvas opens after the result of a call that worked, with nothing in
\* between, and once for each.
ArtifactFollowsResult ==
    \A i \in 1..Len(Sent) :
       Sent[i] = "artifact" => (canvas /\ i > 1 /\ Sent[i - 1] = "result")

\* However the turn ends, a hang-up included, storing the reply is tried, and
\* what is stored is at least what the caller was told; nobody hears "done"
\* before.
StoredIsWhatWasSent ==
    /\ pump \in {"last", "ended"} => reply.kept # "no"
    /\ reply.kept = "stored" => /\ reply.tokens >= CountOf(Sent, "token")
                                /\ reply.calls >= CountOf(Sent, "call")
    /\ reply.kept = "nothing" => CountOf(Sent, "token") + CountOf(Sent, "call") = 0
    /\ CountOf(Sent, "done") > 0 => reply.kept # "no"

\* A turn ends by its deadline, however quiet the AI service is, as long as
\* the caller reads or hangs up now and then.
TurnEnds == <>(pump = "ended")
StuckOnCaller == <>[](caller = "there" /\ Len(channel) = ChannelDepth)
TurnEndsUnlessStuck == TurnEnds \/ StuckOnCaller
===============================================================================
