--------------------------- MODULE TelegramPoller ---------------------------
(***************************************************************************)
(* How updates reach their handler: the loop that polls Telegram, the      *)
(* claim that makes an update handled once, and one worker for each chat,  *)
(* fed by a channel and closed when the chat falls silent.  Telegram's     *)
(* side is external: it keeps an update until a poll asks past it, or for  *)
(* TelegramKeeps days.                                                     *)
(***************************************************************************)
EXTENDS Integers, Sequences

CONSTANTS
    Updates,        \* update ids, in the order people send them
    Chats,
    NoChat,         \* the chat of a button pressed on a message now gone
    ChatOf,         \* the chat of each update, or NoChat
    Workers,        \* a channel and the task that receives from it
    NoWorker,
    TelegramKeeps,  \* days Telegram keeps an unconfirmed update
    ClaimsKept,     \* days a claim is kept
    MaxDay,         \* bound: days that pass
    MaxCrashes,     \* bound: restarts of the process
    MaxClaimErrors, \* bound: claims that end in a database error
    MaxPanics       \* bound: handlers that panic

ASSUME PollerAssumption ==
    /\ Updates \subseteq Nat \ {0}
    /\ NoChat \notin Chats
    /\ ChatOf \in [Updates -> Chats \cup {NoChat}]
    /\ NoWorker \notin Workers
    /\ {TelegramKeeps, ClaimsKept, MaxDay, MaxCrashes, MaxClaimErrors, MaxPanics} \subseteq Nat
    /\ TelegramKeeps <= ClaimsKept

NoUpdate == 0
Never == -1

VARIABLES
    day,
    sentOn,     \* the day each update was sent, or Never
    confirmed,  \* Telegram forgets the updates up to this one
    claimedOn,  \* rows of telegram_updates: the day of the claim, or Never
    offset,     \* memory: the poll's offset, 0 before the first update
    batch,      \* memory: updates of the last poll not looked at yet
    accepted,   \* memory: the update claimed and not handed over
    queues,     \* memory: the worker whose channel a chat's updates go to
    stage,      \* memory: what each worker is doing
    channel,    \* memory: the updates waiting in a worker's channel
    chat,       \* memory: the chat a worker was started for
    begun,      \* history: the updates whose handler began, in order
    crashes, errors, panics

telegram == <<day, sentOn, confirmed>>
poll == <<offset, batch>>
worker == <<stage, channel, chat>>
pollerFaults == <<crashes, errors, panics>>
vars == <<telegram, claimedOn, poll, accepted, queues, worker, begun, pollerFaults>>

\* The map and the tasks a process starts with.
NoQueues == [c \in Chats |-> NoWorker]
NoWorkers == [w \in Workers |-> "gone"]
NoChannels == [w \in Workers |-> <<>>]
NoChats == [w \in Workers |-> NoChat]

Init ==
    /\ day = 0
    /\ sentOn = [u \in Updates |-> Never]
    /\ confirmed = 0
    /\ claimedOn = [u \in Updates |-> Never]
    /\ offset = 0 /\ batch = {} /\ accepted = NoUpdate
    /\ queues = NoQueues
    /\ stage = NoWorkers /\ channel = NoChannels /\ chat = NoChats
    /\ begun = <<>>
    /\ crashes = 0 /\ errors = 0 /\ panics = 0

(***************************************************************************)
(* Telegram and the passing of days.                                       *)
(***************************************************************************)
\* Someone writes in a chat or presses a button.
Send(u) ==
    /\ sentOn[u] = Never
    /\ \A v \in Updates : v < u => sentOn[v] # Never
    /\ sentOn' = [sentOn EXCEPT ![u] = day]
    /\ UNCHANGED <<day, confirmed, claimedOn, poll, accepted, queues, worker, begun, pollerFaults>>

\* What a poll with this offset is answered.
Deliverable(from) ==
    {u \in Updates : /\ sentOn[u] # Never
                     /\ u >= from
                     /\ day - sentOn[u] <= TelegramKeeps}

\* The loop looks at a batch at once, never a day later.
PassDay ==
    /\ day < MaxDay
    /\ batch = {} /\ accepted = NoUpdate
    /\ day' = day + 1
    /\ UNCHANGED <<sentOn, confirmed, claimedOn, poll, accepted, queues, worker, begun, pollerFaults>>

(***************************************************************************)
(* The loop.  A poll confirms the updates below its offset also when its   *)
(* answer is lost.                                                         *)
(***************************************************************************)
Confirmed == IF offset > confirmed + 1 THEN offset - 1 ELSE confirmed

AskTelegram ==
    /\ batch = {}
    /\ accepted = NoUpdate
    /\ confirmed' = Confirmed
    /\ UNCHANGED <<day, sentOn, claimedOn, offset, accepted, queues, worker, begun, pollerFaults>>

Poll == AskTelegram /\ batch' = Deliverable(Confirmed + 1)
PollFails == AskTelegram /\ batch' = {}

Claim(u) ==
    \/ /\ claimedOn[u] = Never
       /\ claimedOn' = [claimedOn EXCEPT ![u] = day]
       /\ accepted' = u
       /\ UNCHANGED errors
    \/ /\ claimedOn[u] # Never
       /\ UNCHANGED <<claimedOn, accepted, errors>>
    \/ \* Not claimed for all the loop knows: the update is dropped.
       /\ errors < MaxClaimErrors
       /\ errors' = errors + 1
       /\ \/ UNCHANGED claimedOn
          \/ claimedOn[u] = Never /\ claimedOn' = [claimedOn EXCEPT ![u] = day]
       /\ UNCHANGED accepted

Accept ==
    /\ accepted = NoUpdate
    /\ \E u \in batch :
          /\ \A v \in batch : u <= v
          /\ offset' = u + 1
          /\ batch' = batch \ {u}
          /\ Claim(u)
    /\ UNCHANGED <<telegram, queues, worker, begun, crashes, panics>>

(* Mutation: the worker in the map is taken to be alive. *)
ListeningOrGone(w) == w # NoWorker

(* Mutation: a task for every update. *)
ListeningNever(w) == FALSE

Listening(w) == w # NoWorker /\ stage[w] # "gone"

(***************************************************************************)
(* Under the mutex, the claimed update goes to its chat's channel, or to a *)
(* worker started for it when there is none or its task is gone.           *)
(***************************************************************************)
HandOver ==
    /\ accepted # NoUpdate
    /\ accepted' = NoUpdate
    /\ LET c == ChatOf[accepted]
       IN \/ /\ c = NoChat
             /\ UNCHANGED <<queues, worker>>
          \/ /\ c # NoChat
             /\ Listening(queues[c])
             /\ channel' = [channel EXCEPT ![queues[c]] = Append(@, accepted)]
             /\ UNCHANGED <<queues, stage, chat>>
          \/ /\ c # NoChat
             /\ ~Listening(queues[c])
             /\ \E w \in Workers :
                   /\ stage[w] = "gone"
                   /\ \A d \in Chats \ {c} : queues[d] # w
                   /\ queues' = [queues EXCEPT ![c] = w]
                   /\ stage' = [stage EXCEPT ![w] = "waiting"]
                   /\ channel' = [channel EXCEPT ![w] = <<accepted>>]
                   /\ chat' = [chat EXCEPT ![w] = c]
    /\ UNCHANGED <<telegram, claimedOn, poll, begun, pollerFaults>>

(***************************************************************************)
(* A chat's worker.                                                        *)
(***************************************************************************)
BeginNext(w) ==
    /\ channel[w] # <<>>
    /\ channel' = [channel EXCEPT ![w] = Tail(@)]
    /\ begun' = Append(begun, Head(channel[w]))
    /\ stage' = [stage EXCEPT ![w] = "handling"]
    /\ UNCHANGED <<queues, chat>>

Handle(w) ==
    /\ stage[w] = "waiting"
    /\ BeginNext(w)
    /\ UNCHANGED <<telegram, claimedOn, poll, accepted, pollerFaults>>

\* The handler ends, answered or apologised for.
Finish(w) ==
    /\ stage[w] = "handling"
    /\ stage' = [stage EXCEPT ![w] = "waiting"]
    /\ UNCHANGED <<telegram, claimedOn, poll, accepted, queues, channel, chat, begun, pollerFaults>>

(* Mutation: the channel of a dead task keeps its updates. *)
PanicKeepingChannel(w) ==
    /\ stage[w] = "handling"
    /\ panics < MaxPanics
    /\ panics' = panics + 1
    /\ stage' = [stage EXCEPT ![w] = "gone"]
    /\ UNCHANGED <<telegram, claimedOn, poll, accepted, queues, channel, chat, begun, crashes, errors>>

\* The task dies with its channel; the map still holds the sender.
Panic(w) ==
    /\ stage[w] = "handling"
    /\ panics < MaxPanics
    /\ panics' = panics + 1
    /\ stage' = [stage EXCEPT ![w] = "gone"]
    /\ channel' = [channel EXCEPT ![w] = <<>>]
    /\ UNCHANGED <<telegram, claimedOn, poll, accepted, queues, chat, begun, crashes, errors>>

\* Nothing came for CHAT_IDLE; the mutex is not taken yet.
FallSilent(w) ==
    /\ stage[w] = "waiting"
    /\ channel[w] = <<>>
    /\ stage' = [stage EXCEPT ![w] = "idle"]
    /\ UNCHANGED <<telegram, claimedOn, poll, accepted, queues, channel, chat, begun, pollerFaults>>

Leave(w) ==
    /\ queues' = [queues EXCEPT ![chat[w]] = IF @ = w THEN NoWorker ELSE @]
    /\ stage' = [stage EXCEPT ![w] = "gone"]
    /\ channel' = [channel EXCEPT ![w] = <<>>]
    /\ UNCHANGED <<chat, begun>>

(* Mutation: the worker leaves without a last look at its channel. *)
CloseUnlooked(w) == Leave(w)

(* Mutation: the worker leaves the map before it handles what came late. *)
CloseThenHandle(w) ==
    \/ channel[w] = <<>> /\ Leave(w)
    \/ /\ channel[w] # <<>>
       /\ channel' = [channel EXCEPT ![w] = Tail(@)]
       /\ begun' = Append(begun, Head(channel[w]))
       /\ stage' = [stage EXCEPT ![w] = "handling"]
       /\ queues' = [queues EXCEPT ![chat[w]] = NoWorker]
       /\ UNCHANGED chat

CloseUnlessSomethingCame(w) ==
    \/ BeginNext(w)
    \/ channel[w] = <<>> /\ Leave(w)

\* Under the mutex: the last look at the channel, and out of the map.
Close(w) ==
    /\ stage[w] = "idle"
    /\ CloseUnlessSomethingCame(w)
    /\ UNCHANGED <<telegram, claimedOn, poll, accepted, pollerFaults>>

(***************************************************************************)
(* The hourly sweep, and a crash with the restart that follows.            *)
(***************************************************************************)
(* Mutation: claims kept no longer than the updates. *)
OldClaimsEarly == {u \in Updates : claimedOn[u] # Never /\ day - claimedOn[u] >= TelegramKeeps}

OldClaims == {u \in Updates : claimedOn[u] # Never /\ day - claimedOn[u] > ClaimsKept}

SweepClaims ==
    /\ OldClaims # {}
    /\ claimedOn' = [u \in Updates |-> IF u \in OldClaims THEN Never ELSE claimedOn[u]]
    /\ UNCHANGED <<telegram, poll, accepted, queues, worker, begun, pollerFaults>>

Crash ==
    /\ crashes < MaxCrashes
    /\ crashes' = crashes + 1
    /\ offset' = 0 /\ batch' = {} /\ accepted' = NoUpdate
    /\ queues' = NoQueues
    /\ stage' = NoWorkers /\ channel' = NoChannels /\ chat' = NoChats
    /\ UNCHANGED <<telegram, claimedOn, begun, errors, panics>>

WorkerStep(w) == Handle(w) \/ Finish(w) \/ FallSilent(w) \/ Close(w)

Next ==
    \/ \E u \in Updates : Send(u)
    \/ PassDay
    \/ Poll
    \/ PollFails
    \/ Accept
    \/ HandOver
    \/ \E w \in Workers : Handle(w) \/ Finish(w) \/ Panic(w) \/ FallSilent(w) \/ Close(w)
    \/ SweepClaims
    \/ Crash

Spec == Init /\ [][Next]_vars

\* Polls get through in the end, the loop goes on, and every task runs.
Fairness ==
    /\ WF_vars(Poll) /\ WF_vars(Accept) /\ WF_vars(HandOver)
    /\ \A w \in Workers : WF_vars(Handle(w) \/ Close(w)) /\ WF_vars(Finish(w))

FairSpec == Spec /\ Fairness

(***************************************************************************)
(* Properties.                                                             *)
(***************************************************************************)
\* Every variable holds what its declaration says, and a task that is gone
\* took its channel with it.
TypeOK ==
    /\ day \in 0..MaxDay
    /\ sentOn \in [Updates -> 0..MaxDay \cup {Never}]
    /\ claimedOn \in [Updates -> 0..MaxDay \cup {Never}]
    /\ confirmed \in Nat
    /\ offset \in Nat
    /\ batch \subseteq Updates
    /\ accepted \in Updates \cup {NoUpdate}
    /\ queues \in [Chats -> Workers \cup {NoWorker}]
    /\ stage \in [Workers -> {"gone", "waiting", "handling", "idle"}]
    /\ channel \in [Workers -> Seq(Updates)]
    /\ \A w \in Workers : stage[w] = "gone" => channel[w] = <<>>
    /\ chat \in [Workers -> Chats \cup {NoChat}]
    /\ begun \in Seq(Updates)
    /\ crashes \in 0..MaxCrashes /\ errors \in 0..MaxClaimErrors /\ panics \in 0..MaxPanics

\* An update is handled at most once, however often Telegram delivers it,
\* across restarts, failed claims and the sweep of old claims.
HandledAtMostOnce ==
    \A i, j \in 1..Len(begun) : begun[i] = begun[j] => i = j

\* The updates of one chat are handled in the order they were sent, across
\* restarts, panics and closing workers, as long as no claim has failed.
ChatsInOrder ==
    errors = 0 =>
        \A i, j \in 1..Len(begun) :
            i < j /\ ChatOf[begun[i]] = ChatOf[begun[j]] => begun[i] <= begun[j]

\* Two updates of one chat are never handled at the same time: a chat has
\* one task, also when a task closes or dies while an update arrives.
OneAtATime ==
    \A v, w \in Workers :
        stage[v] = "handling" /\ stage[w] = "handling" /\ chat[v] = chat[w] => v = w

WasBegun(u) == \E i \in 1..Len(begun) : begun[i] = u

Faults == crashes + panics

\* Nothing is lost but what a fault caught claimed: an update no process had
\* claimed is handled, or another process or task dies first.  A restart gets
\* it from Telegram again, a worker that closes leaves none in its channel.
UnclaimedSurvive ==
    \A u \in Updates, n \in 0..(MaxCrashes + MaxPanics) :
        /\ sentOn[u] # Never /\ claimedOn[u] = Never /\ ChatOf[u] # NoChat
        /\ Faults = n
        ~> WasBegun(u) \/ Faults > n \/ errors > 0

\* A chat whose task died gets another: what is handed over after that is
\* handled, or another process or task dies first.
ChatsRecover ==
    \A u \in Updates, n \in 0..(MaxCrashes + MaxPanics) :
        /\ accepted = u /\ ChatOf[u] # NoChat
        /\ Faults = n
        ~> WasBegun(u) \/ Faults > n
=============================================================================
