------------------------------ MODULE Transport ------------------------------
(***************************************************************************)
(* The OWE1 transport: a client that keeps one crypto session for its      *)
(* process, and a server that keeps sessions and the requests seen on them *)
(* in memory.  The network may lose, delay, repeat and reorder what is     *)
(* sent.  Sealing is left out: a request opens only as what it was sealed  *)
(* as, a reply only for its request, a stream event only in its place.     *)
(***************************************************************************)
EXTENDS Naturals, Integers, Sequences, FiniteSets

CONSTANTS
    Calls,              \* calls of the client
    Streams,            \* those that ask for a stream of events
    Skew,               \* how far a timestamp may be off
    ReplayWindow,       \* how long a request id is remembered
    SessionLife, Margin,
    MessageBudget,      \* requests per session
    Offsets,            \* of the client's clock
    LastTick, MaxSessions, MaxSent, MaxRestarts, MaxOutcomes   \* bounds

NoGreeter == "none"

ASSUME TransportAssumption ==
    /\ NoGreeter \notin Calls /\ Streams \subseteq Calls /\ Offsets \subseteq Int
    /\ Skew \in Nat /\ ReplayWindow \in Nat /\ ReplayWindow >= 2 * Skew
    /\ SessionLife \in Nat /\ Margin \in Nat /\ MessageBudget \in Nat
    /\ LastTick \in Nat /\ MaxSessions \in Nat /\ MaxSent \in Nat /\ MaxRestarts \in Nat /\ MaxOutcomes \in Nat

VARIABLES
    clock,     \* the server's
    offset,    \* of the client's clock
    known,     \* the server's sessions: id -> expiry, messages, requests seen
    opened,    \* sessions ever opened, which numbers them
    kept,      \* the client's session, or none
    greeter,   \* the call that holds the session for writing, or none
    calls,     \* the client's calls
    wire,      \* every request ever sent: it may arrive, or arrive again
    ran,       \* history: how often each request was handled
    restarts

transportVars == <<clock, offset, known, opened, kept, greeter, calls, wire, ran, restarts>>

NoSession == [id |-> 0, expires |-> 0]

Unbegun == [at |-> "idle", session |-> NoSession, sends |-> 0, again |-> {}, reply |-> "none",
            events |-> 0, read |-> 0]

\* A request: a retry is another one.
TransportRequests == {<<c, n>> : c \in Calls, n \in 1..3}
RequestOf(c) == <<c, calls[c].sends>>

TransportInit ==
    /\ clock = 0 /\ offset \in Offsets
    /\ known = [s \in {} |-> 0] /\ opened = 0
    /\ kept = NoSession /\ greeter = NoGreeter
    /\ calls = [c \in Calls |-> Unbegun]
    /\ wire = {} /\ ran = [r \in TransportRequests |-> 0] /\ restarts = 0

ClientClock == clock + offset

\* A session this near its end is not used for a new call.
Usable(s) == s.id # 0 /\ s.expires > ClientClock + Margin

------------------------------------------------------------------------------
\* The client: a session first.

CallStep(c, at) == calls' = [calls EXCEPT ![c].at = at]

BeginCall(c) ==
    /\ calls[c].at = "idle"
    /\ CallStep(c, "session")
    /\ UNCHANGED <<clock, offset, known, opened, kept, greeter, wire, ran, restarts>>

TakeSession(c) ==
    /\ calls[c].at = "session" /\ greeter = NoGreeter /\ Usable(kept)
    /\ calls' = [calls EXCEPT ![c].at = "sending", ![c].session = kept]
    /\ UNCHANGED <<clock, offset, known, opened, kept, greeter, wire, ran, restarts>>

\* One handshake at a time: the others wait for it.
StartHandshake(c) ==
    /\ calls[c].at = "session" /\ greeter = NoGreeter /\ ~Usable(kept)
    /\ opened < MaxSessions
    /\ greeter' = c
    /\ CallStep(c, "greeting")
    /\ UNCHANGED <<clock, offset, known, opened, kept, wire, ran, restarts>>

\* The server's answer, which the client verifies and keeps.
FinishHandshake(c) ==
    LET fresh == [id |-> opened + 1, expires |-> clock + SessionLife]
    IN /\ calls[c].at = "greeting"
       /\ known' = [s \in DOMAIN known \cup {fresh.id} |->
                      IF s = fresh.id THEN [expires |-> fresh.expires, messages |-> 0, seen |-> {}]
                      ELSE known[s]]
       /\ opened' = fresh.id
       /\ kept' = fresh /\ greeter' = NoGreeter
       /\ calls' = [calls EXCEPT ![c].at = "sending", ![c].session = fresh]
       /\ UNCHANGED <<clock, offset, wire, ran, restarts>>

\* No answer, or one that does not verify: not tried again.
FailHandshake(c) ==
    /\ calls[c].at = "greeting"
    /\ greeter' = NoGreeter
    /\ CallStep(c, "failed")
    /\ UNCHANGED <<clock, offset, known, opened, kept, wire, ran, restarts>>

SendRequest(c) ==
    LET n == calls[c].sends + 1
    IN /\ calls[c].at = "sending" /\ Cardinality(wire) < MaxSent
       /\ wire' = wire \cup {[request |-> <<c, n>>, session |-> calls[c].session.id, time |-> ClientClock]}
       /\ calls' = [calls EXCEPT ![c].at = "waiting", ![c].sends = n, ![c].reply = "none"]
       /\ UNCHANGED <<clock, offset, known, opened, kept, greeter, ran, restarts>>

------------------------------------------------------------------------------
\* The server handles a request that arrives.

(* Mutation: a request is forgotten with the last moment it may arrive. *)
SeenAndForgotten(seen, now) == {e \in seen : e.at >= now - Skew}

Remembered(seen, now) == {e \in seen : e.at >= now - ReplayWindow}

TimestampAcceptable(time) == clock - Skew <= time /\ time <= clock + Skew

Live(s) == known[s].expires > clock /\ known[s].messages < MessageBudget

\* One use at a time of the map: a session found worn out is dropped.
Found(s) == s \in DOMAIN known /\ Live(s)
DropWorn(s) == known' = [k \in DOMAIN known \ {s} |-> known[k]]

ReplyTo(request, reply) ==
    LET c == request[1]
    IN IF calls[c].at = "waiting" /\ RequestOf(c) = request /\ calls[c].reply = "none"
       THEN calls' = [calls EXCEPT ![c].reply = reply]
       ELSE UNCHANGED calls

Refuse(request, reply) == ReplyTo(request, reply) /\ UNCHANGED ran

\* Handled whether or not it then fails: a refusal of the route is an answer.
Handle(request) ==
    /\ ran' = [ran EXCEPT ![request] = @ + 1]
    /\ \E reply \in {"answer", "error"} : ReplyTo(request, reply)

Observe(m) ==
    LET s == known[m.session]  seen == Remembered(s.seen, clock)
    IN IF \E e \in seen : e.request = m.request
       THEN /\ known' = [known EXCEPT ![m.session].seen = seen]
            /\ Refuse(m.request, "replay")
       ELSE /\ known' = [known EXCEPT
                 ![m.session].seen = seen \cup {[request |-> m.request, at |-> clock]},
                 ![m.session].messages = @ + 1]
            /\ Handle(m.request)

Arrive(m) ==
    /\ IF ~TimestampAcceptable(m.time)
       THEN Refuse(m.request, "skew") /\ UNCHANGED known
       ELSE IF ~Found(m.session)
       THEN Refuse(m.request, "unknown") /\ DropWorn(m.session)
       ELSE Observe(m)
    /\ UNCHANGED <<clock, offset, opened, kept, greeter, wire, restarts>>

SweepSessions ==
    /\ known' = [s \in {k \in DOMAIN known : Live(k)} |-> known[s]]
    /\ known' # known
    /\ UNCHANGED <<clock, offset, opened, kept, greeter, calls, wire, ran, restarts>>

RestartServer ==
    /\ restarts < MaxRestarts
    /\ restarts' = restarts + 1
    /\ known' = [s \in {} |-> 0]
    /\ UNCHANGED <<clock, offset, opened, kept, greeter, calls, wire, ran>>

Tick ==
    /\ clock < LastTick
    /\ clock' = clock + 1
    /\ UNCHANGED <<offset, known, opened, kept, greeter, calls, wire, ran, restarts>>

------------------------------------------------------------------------------
\* The client reads the answer.

Tried(c, what) == calls[c].again \cup {what}

(* Mutation: what is lost is always sent again. *)
TimeOutForever(c) ==
    /\ calls[c].at = "waiting" /\ calls[c].sends < 3
    /\ CallStep(c, "session")
    /\ UNCHANGED <<clock, offset, known, opened, kept, greeter, wire, ran, restarts>>

\* No answer in time, or an answer that is lost: once more, with a new id.
TimeOut(c) ==
    /\ calls[c].at = "waiting"
    /\ IF "transport" \in calls[c].again
       THEN CallStep(c, "failed")
       ELSE calls' = [calls EXCEPT ![c].at = "session", ![c].again = Tried(c, "transport")]
    /\ UNCHANGED <<clock, offset, known, opened, kept, greeter, wire, ran, restarts>>

SessionUnknown(c) ==
    /\ calls[c].at = "waiting" /\ calls[c].reply = "unknown"
    /\ IF "session" \in calls[c].again
       THEN CallStep(c, "failed")
       ELSE calls' = [calls EXCEPT ![c].at = "forgetting", ![c].again = Tried(c, "session")]
    /\ UNCHANGED <<clock, offset, known, opened, kept, greeter, wire, ran, restarts>>

(* Mutation: whichever session is kept by then. *)
ForgetAnySession(c) ==
    /\ calls[c].at = "forgetting" /\ greeter = NoGreeter
    /\ kept' = NoSession
    /\ CallStep(c, "session")
    /\ UNCHANGED <<clock, offset, known, opened, greeter, wire, ran, restarts>>

ForgetSession(c) ==
    /\ calls[c].at = "forgetting" /\ greeter = NoGreeter
    /\ kept' = IF kept.id = calls[c].session.id THEN NoSession ELSE kept
    /\ CallStep(c, "session")
    /\ UNCHANGED <<clock, offset, known, opened, greeter, wire, ran, restarts>>

\* Any other refusal is reported.
ReportRefusal(c) ==
    /\ calls[c].at = "waiting" /\ calls[c].reply \in {"error", "skew", "replay"}
    /\ CallStep(c, "failed")
    /\ UNCHANGED <<clock, offset, known, opened, kept, greeter, wire, ran, restarts>>

TakeAnswer(c) ==
    /\ calls[c].at = "waiting" /\ calls[c].reply = "answer"
    /\ CallStep(c, IF c \in Streams THEN "reading" ELSE "answered")
    /\ UNCHANGED <<clock, offset, known, opened, kept, greeter, wire, ran, restarts>>

\* Once events flow nothing is tried again.
SendEvent(c) ==
    /\ calls[c].at = "reading" /\ calls[c].events < MaxOutcomes
    /\ calls' = [calls EXCEPT ![c].events = @ + 1]
    /\ UNCHANGED <<clock, offset, known, opened, kept, greeter, wire, ran, restarts>>

\* An event that does not open in its place ends the stream.
ReadEvent(c, k) ==
    /\ calls[c].at = "reading" /\ k \in 1..calls[c].events
    /\ calls' = IF k = calls[c].read + 1
                THEN [calls EXCEPT ![c].read = k]
                ELSE [calls EXCEPT ![c].at = "failed"]
    /\ UNCHANGED <<clock, offset, known, opened, kept, greeter, wire, ran, restarts>>

EndStream(c) ==
    /\ calls[c].at = "reading"
    /\ \E at \in {"answered", "failed"} : CallStep(c, at)
    /\ UNCHANGED <<clock, offset, known, opened, kept, greeter, wire, ran, restarts>>

TransportNext ==
    \/ \E m \in wire : Arrive(m)
    \/ SweepSessions \/ RestartServer \/ Tick
    \/ \E c \in Calls :
          \/ BeginCall(c) \/ TakeSession(c) \/ StartHandshake(c) \/ FinishHandshake(c)
          \/ FailHandshake(c) \/ SendRequest(c) \/ TimeOut(c) \/ SessionUnknown(c)
          \/ ForgetSession(c) \/ ReportRefusal(c) \/ TakeAnswer(c) \/ SendEvent(c)
          \/ EndStream(c) \/ \E k \in 1..MaxOutcomes : ReadEvent(c, k)

TransportSpec == TransportInit /\ [][TransportNext]_transportVars

(***************************************************************************)
(* Properties.                                                             *)
(***************************************************************************)
\* Every variable holds what its declaration says; the session is held for
\* writing by the call that greets.
TransportTypeOK ==
    /\ clock \in 0..LastTick /\ opened \in 0..MaxSessions /\ DOMAIN known \subseteq 1..opened
    /\ kept.id \in 0..opened
    /\ \A c \in Calls :
          /\ calls[c].at \in {"idle", "session", "greeting", "sending", "waiting", "forgetting",
                              "reading", "answered", "failed"}
          /\ calls[c].at = "greeting" <=> greeter = c
          /\ calls[c].sends <= 1 + Cardinality(calls[c].again)
          /\ calls[c].read <= calls[c].events

\* However often and however late a request arrives, the server handles it
\* once: an id outlives the time its timestamp is accepted.
HandledOnce == \A r \in TransportRequests : ran[r] <= 1

\* A call costs what it may: it is only handled again after an answer that
\* was lost, never after a refusal.
CallsCostOnce ==
    \A c \in Calls :
       Cardinality({n \in 1..3 : ran[<<c, n>>] > 0})
          <= 1 + Cardinality(calls[c].again \cap {"transport"})

\* However many calls are told at once that their session is gone, the one
\* that was opened since is kept: what the client forgets, the server lacks.
ForgetsOnlyLost ==
    [][kept.id # 0 /\ kept'.id = 0 => kept.id \notin DOMAIN known]_transportVars
===============================================================================
