---------------------------- MODULE ServiceProofs ----------------------------
(***************************************************************************)
(* For every set of calls, callers, turns, clients, tools, chats and       *)
(* lookups, whatever the windows, caps and clocks: overlapping, lost and   *)
(* repeated calls cost no more than they may, the model is told all it is  *)
(* to be told, and what is answered of rates and waits is so.              *)
(***************************************************************************)
EXTENDS MCService, ReportsProofs, SequenceTheorems

(***************************************************************************)
(* The encrypted transport: the server handles a request once, the client  *)
(* forgets a session only when the server lacks it, and a call costs one   *)
(* attempt more for each thing that went wrong with it.                    *)
(***************************************************************************)
(* What the variables hold. *)
Ats == {"idle", "session", "greeting", "sending", "waiting", "forgetting", "reading",
        "answered", "failed"}
Replies == {"none", "answer", "error", "skew", "replay", "unknown"}

ClientSessions == [id : Nat, expires : Int]
CallRecords == [at : Ats, session : ClientSessions, sends : Nat,
                again : SUBSET {"transport", "session"}, reply : Replies,
                events : Nat, read : Nat]
Memories == SUBSET [request : Calls \X Nat, at : Int]
ServerSessions == [expires : Int, messages : Nat, seen : Memories]
Messages == [request : Calls \X Nat, session : Nat, time : Int]

Shaped ==
    /\ clock \in Int /\ offset \in Int /\ opened \in Nat
    /\ \A s \in DOMAIN known : s \in 1..opened /\ known[s] \in ServerSessions
    /\ kept \in ClientSessions /\ kept.id <= opened
    /\ calls \in [Calls -> CallRecords]
    /\ wire \subseteq Messages
    /\ ran \in [TransportRequests -> Nat]

(* Sessions and requests are numbered as they come. *)
Numbered ==
    /\ \A c \in Calls : calls[c].session.id <= opened
    /\ \A m \in wire : m.session <= opened /\ m.request[2] <= calls[m.request[1]].sends

OneMessage == \A m, n \in wire : m.request = n.request => m = n

(* A request that was handled can no longer be: its time has passed, its   *)
(* session is gone, or the session remembers it since a moment at which    *)
(* its time was acceptable.                                                *)
Closed(m) ==
    \/ clock > m.time + Skew
    \/ m.session \notin DOMAIN known
    \/ \E e \in known[m.session].seen : e.request = m.request /\ e.at >= m.time - Skew

HandledAreClosed ==
    \A r \in TransportRequests : ran[r] > 0 =>
        /\ \E m \in wire : m.request = r
        /\ \A m \in wire : m.request = r => Closed(m)

(* What a call was last told is about the session it uses, and a session   *)
(* that was called unknown stays so.                                       *)
SameSession ==
    \A m \in wire :
        LET caller == calls[m.request[1]]
        IN caller.at = "waiting" /\ m.request[2] = caller.sends => m.session = caller.session.id

ToldGone(c) ==
    \/ calls[c].at = "forgetting"
    \/ calls[c].at = "waiting" /\ calls[c].reply = "unknown"

GoneIsGone == \A c \in Calls : ToldGone(c) => calls[c].session.id \notin DOMAIN known

TransportInv == /\ Shaped /\ Numbered /\ OneMessage /\ HandledAreClosed /\ HandledOnce
                /\ SameSession /\ GoneIsGone

(* The constants are numbers. *)
LEMMA Constants ==
    /\ Skew \in Nat /\ ReplayWindow \in Nat /\ ReplayWindow >= 2 * Skew
    /\ SessionLife \in Nat /\ Margin \in Nat
    /\ \A x \in Offsets : x \in Int
    /\ LastTick \in Nat /\ MaxOutcomes \in Nat
  BY TransportAssumption

(***************************************************************************)
(* The client.                                                             *)
(***************************************************************************)

(* A step of a call that sends nothing keeps what is known, if it takes    *)
(* only sessions there are and forgets only when it was told to.           *)
LEMMA CallMoves ==
    ASSUME TransportInv, UNCHANGED <<clock, offset, known, opened, wire, ran>>,
           calls' \in [Calls -> CallRecords],
           kept' \in ClientSessions, kept'.id <= opened,
           \A c \in Calls :
               /\ calls'[c].sends = calls[c].sends
               /\ \/ calls'[c].session = calls[c].session
                  \/ calls'[c].session.id <= opened /\ calls'[c].at = "sending"
               /\ calls'[c].at = "waiting" => calls'[c] = calls[c]
               /\ calls'[c].at = "forgetting" => ToldGone(c)
    PROVE  TransportInv'
  <1>1. Shaped'
    BY DEF TransportInv, Shaped
  <1>2. Numbered'
    BY DEF TransportInv, Shaped, Numbered, Messages
  <1>3. OneMessage' /\ HandledOnce'
    BY DEF TransportInv, OneMessage, HandledOnce
  <1>4. HandledAreClosed'
    BY DEF TransportInv, HandledAreClosed, Closed
  <1>5. SameSession'
    BY DEF TransportInv, Shaped, Messages, SameSession
  <1>6. GoneIsGone'
    BY DEF TransportInv, GoneIsGone, ToldGone
  <1>7. QED
    BY <1>1, <1>2, <1>3, <1>4, <1>5, <1>6 DEF TransportInv

(* The same for one call, by what becomes of it. *)
Goes(c, places) ==
    /\ calls' = [calls EXCEPT ![c] = calls'[c]]
    /\ calls'[c] \in CallRecords
    /\ calls'[c].sends = calls[c].sends
    /\ calls'[c].session = calls[c].session
    /\ calls'[c].at \in places

(* CallMoves for a step of one call. *)
LEMMA CallGoes ==
    ASSUME TransportInv, UNCHANGED <<clock, offset, known, opened, wire, ran>>,
           kept' \in ClientSessions, kept'.id <= opened,
           NEW c \in Calls,
           \/ Goes(c, Ats \ {"waiting", "forgetting"})
           \/ Goes(c, {"forgetting"}) /\ ToldGone(c)
    PROVE  TransportInv'
  <1>1. calls' \in [Calls -> CallRecords]
    BY DEF Goes, TransportInv, Shaped
  <1>2. \A d \in Calls \ {c} : calls'[d] = calls[d]
    BY DEF Goes, TransportInv, Shaped
  <1>3. \A d \in Calls : calls[d].at = "forgetting" => ToldGone(d)
    BY DEF ToldGone
  <1>4. /\ calls'[c].sends = calls[c].sends
        /\ calls'[c].session = calls[c].session
        /\ calls'[c].at # "waiting"
        /\ calls'[c].at = "forgetting" => ToldGone(c)
    BY DEF Goes
  <1>5. QED
    BY <1>1, <1>2, <1>3, <1>4, CallMoves

(* What a client does by itself leaves what was handled as it is. *)
LEMMA ClientKeepsInv ==
    ASSUME TransportInv, NEW c \in Calls,
           \/ BeginCall(c) \/ StartHandshake(c) \/ FailHandshake(c)
           \/ TimeOut(c) \/ SessionUnknown(c) \/ ForgetSession(c) \/ ReportRefusal(c)
           \/ TakeAnswer(c) \/ SendEvent(c) \/ EndStream(c)
           \/ \E k \in 1..MaxOutcomes : ReadEvent(c, k)
    PROVE  TransportInv'
  <1> DEFINE Onward == Ats \ {"waiting", "forgetting"}
  <1>1. calls \in [Calls -> CallRecords] /\ calls[c] \in CallRecords
    BY DEF TransportInv, Shaped
  <1>2. /\ kept \in ClientSessions /\ kept.id <= opened /\ opened \in Nat
        /\ NoSession \in ClientSessions /\ NoSession.id <= opened
    BY DEF TransportInv, Shaped, NoSession, ClientSessions
  <1>3. kept' \in ClientSessions /\ kept'.id <= opened
    BY <1>2 DEF BeginCall, StartHandshake, FailHandshake, TimeOut, SessionUnknown, ForgetSession,
                ReportRefusal, TakeAnswer, SendEvent, EndStream, ReadEvent
  <1>4. UNCHANGED <<clock, offset, known, opened, wire, ran>>
    BY DEF BeginCall, StartHandshake, FailHandshake, TimeOut, SessionUnknown, ForgetSession,
           ReportRefusal, TakeAnswer, SendEvent, EndStream, ReadEvent
  <1>5. ASSUME NEW a \in Onward, CallStep(c, a)
        PROVE  Goes(c, Onward)
    BY <1>1, <1>5 DEF CallStep, CallRecords, Goes
  <1>6. CASE \/ BeginCall(c) \/ StartHandshake(c) \/ FailHandshake(c) \/ ForgetSession(c)
             \/ ReportRefusal(c) \/ TakeAnswer(c) \/ EndStream(c)
    <2>1. \E a \in Onward : CallStep(c, a)
      BY <1>6 DEF BeginCall, StartHandshake, FailHandshake, ForgetSession, ReportRefusal,
                  TakeAnswer, EndStream, Ats
    <2>2. QED
      BY <1>3, <1>4, <1>5, <2>1, CallGoes
  <1>7. CASE TimeOut(c)
    <2>1. CASE "transport" \in calls[c].again
      BY <1>3, <1>4, <1>5, <1>7, <2>1, CallGoes DEF TimeOut, Ats
    <2>2. CASE "transport" \notin calls[c].again
      <3>1. Goes(c, Onward)
        BY <1>1, <1>7, <2>2 DEF TimeOut, Tried, CallRecords, Goes, Ats
      <3>2. QED
        BY <1>3, <1>4, <3>1, CallGoes
    <2>3. QED
      BY <2>1, <2>2
  <1>8. CASE SessionUnknown(c)
    <2>1. ToldGone(c)
      BY <1>8 DEF SessionUnknown, ToldGone
    <2>2. CASE "session" \in calls[c].again
      BY <1>3, <1>4, <1>5, <1>8, <2>2, CallGoes DEF SessionUnknown, Ats
    <2>3. CASE "session" \notin calls[c].again
      <3>1. Goes(c, {"forgetting"})
        BY <1>1, <1>8, <2>3 DEF SessionUnknown, Tried, CallRecords, Goes, Ats
      <3>2. QED
        BY <1>3, <1>4, <2>1, <3>1, CallGoes
    <2>4. QED
      BY <2>2, <2>3
  <1>9. CASE SendEvent(c)
    <2>1. Goes(c, Onward)
      BY <1>1, <1>9 DEF SendEvent, CallRecords, Goes, Ats
    <2>2. QED
      BY <1>3, <1>4, <2>1, CallGoes
  <1>10. CASE \E k \in 1..MaxOutcomes : ReadEvent(c, k)
    <2>1. PICK k \in 1..MaxOutcomes : ReadEvent(c, k)
      BY <1>10
    <2>2. k \in Nat /\ calls[c].at = "reading"
      BY <2>1, Constants DEF ReadEvent
    <2>3. \/ calls' = [calls EXCEPT ![c].read = k]
          \/ calls' = [calls EXCEPT ![c].at = "failed"]
      BY <2>1 DEF ReadEvent
    <2>4. Goes(c, Onward)
      BY <1>1, <2>2, <2>3 DEF CallRecords, Goes, Ats
    <2>5. QED
      BY <1>3, <1>4, <2>4, CallGoes
  <1>11. QED
    BY <1>6, <1>7, <1>8, <1>9, <1>10

(* A session the client takes up is one the server made. *)
LEMMA TakeSessionKeepsInv ==
    ASSUME TransportInv, NEW c \in Calls, TakeSession(c)
    PROVE  TransportInv'
  <1>1. /\ calls \in [Calls -> CallRecords] /\ calls[c] \in CallRecords
        /\ kept \in ClientSessions /\ kept.id <= opened
    BY DEF TransportInv, Shaped
  <1>2. /\ calls' = [calls EXCEPT ![c].at = "sending", ![c].session = kept]
        /\ UNCHANGED <<clock, offset, known, opened, kept, wire, ran>>
    BY DEF TakeSession
  <1>3. /\ calls'[c] \in CallRecords /\ calls'[c].at = "sending" /\ calls'[c].session = kept
        /\ calls'[c].sends = calls[c].sends
        /\ \A d \in Calls \ {c} : calls'[d] = calls[d]
    BY <1>1, <1>2 DEF CallRecords, Ats
  <1>4. calls' \in [Calls -> CallRecords]
    BY <1>1, <1>2, <1>3
  <1>5. \A d \in Calls : calls[d].at = "forgetting" => ToldGone(d)
    BY DEF ToldGone
  <1>6. QED
    BY <1>1, <1>2, <1>3, <1>4, <1>5, CallMoves

(* A new session has a number no message and no call can have. *)
LEMMA FinishHandshakeKeepsInv ==
    ASSUME TransportInv, NEW c \in Calls, FinishHandshake(c)
    PROVE  TransportInv'
  <1> DEFINE fresh == [id |-> opened + 1, expires |-> clock + SessionLife]
             blank == [expires |-> fresh.expires, messages |-> 0, seen |-> {}]
  <1>1. /\ calls \in [Calls -> CallRecords] /\ calls[c] \in CallRecords
        /\ opened \in Nat /\ clock \in Int /\ wire \subseteq Messages
    BY DEF TransportInv, Shaped
  <1>2. fresh \in ClientSessions /\ blank \in ServerSessions /\ fresh.id = opened + 1
    BY <1>1, Constants DEF ClientSessions, ServerSessions, Memories
  <1>3. /\ known' = [s \in DOMAIN known \cup {opened + 1} |->
                        IF s = opened + 1 THEN blank ELSE known[s]]
        /\ opened' = opened + 1 /\ kept' = fresh
        /\ calls' = [calls EXCEPT ![c].at = "sending", ![c].session = fresh]
        /\ UNCHANGED <<clock, offset, wire, ran>>
    BY <1>2 DEF FinishHandshake
  <1> HIDE DEF fresh, blank
  <1>4. /\ calls'[c] \in CallRecords /\ calls'[c].at = "sending" /\ calls'[c].session = fresh
        /\ calls'[c].sends = calls[c].sends
        /\ \A d \in Calls \ {c} : calls'[d] = calls[d]
    BY <1>1, <1>2, <1>3 DEF CallRecords, Ats
  <1>5. /\ DOMAIN known' = DOMAIN known \cup {opened + 1}
        /\ \A s \in DOMAIN known : s # opened + 1 /\ known'[s] = known[s]
        /\ known'[opened + 1] = blank
    BY <1>1, <1>3 DEF TransportInv, Shaped
  <1>6. Shaped'
    <2>1. calls' \in [Calls -> CallRecords]
      BY <1>1, <1>3, <1>4
    <2>2. \A s \in DOMAIN known' : s \in 1..opened' /\ known'[s] \in ServerSessions
      BY <1>1, <1>2, <1>3, <1>5 DEF TransportInv, Shaped
    <2>3. QED
      BY <1>1, <1>2, <1>3, <2>1, <2>2 DEF TransportInv, Shaped
  <1>7. Numbered'
    <2>1. \A d \in Calls : calls'[d].session.id <= opened'
      BY <1>1, <1>2, <1>3, <1>4 DEF TransportInv, Numbered, CallRecords, ClientSessions
    <2>2. \A m \in wire : m.session <= opened + 1
      BY <1>1 DEF TransportInv, Numbered, Messages
    <2>3. \A m \in wire : m.request[2] <= calls'[m.request[1]].sends
      BY <1>1, <1>4 DEF TransportInv, Numbered, Messages
    <2>4. QED
      BY <1>3, <2>1, <2>2, <2>3 DEF Numbered
  <1>8. OneMessage' /\ HandledOnce'
    BY <1>3 DEF TransportInv, OneMessage, HandledOnce
  <1>9. HandledAreClosed'
    <2>1. \A m \in wire : m.session # opened + 1
      BY <1>1 DEF TransportInv, Numbered, Messages
    <2>2. \A m \in wire : Closed(m) => Closed(m)'
      BY <1>3, <1>5, <2>1 DEF Closed
    <2>3. QED
      BY <1>3, <2>2 DEF TransportInv, HandledAreClosed
  <1>10. SameSession'
    BY <1>1, <1>3, <1>4 DEF TransportInv, SameSession, Messages
  <1>11. GoneIsGone'
    <2>1. \A d \in Calls : calls[d].session.id # opened + 1
      BY <1>1 DEF TransportInv, Numbered, CallRecords, ClientSessions
    <2>2. QED
      BY <1>4, <1>5, <2>1 DEF TransportInv, GoneIsGone, ToldGone
  <1>12. QED
    BY <1>6, <1>7, <1>8, <1>9, <1>10, <1>11 DEF TransportInv

(* What is sent is a request of its own, even when it is a retry. *)
LEMMA SendKeepsInv ==
    ASSUME TransportInv, NEW c \in Calls, SendRequest(c)
    PROVE  TransportInv'
  <1> DEFINE n == calls[c].sends + 1
             msg == [request |-> <<c, n>>, session |-> calls[c].session.id, time |-> ClientClock]
  <1>1. /\ calls \in [Calls -> CallRecords] /\ calls[c] \in CallRecords
        /\ wire \subseteq Messages /\ clock \in Int /\ offset \in Int /\ n \in Nat
        /\ calls[c].sends \in Nat /\ calls[c].session.id <= opened
    BY DEF TransportInv, Shaped, CallRecords, Numbered
  <1>2. /\ wire' = wire \cup {msg}
        /\ calls' = [calls EXCEPT ![c].at = "waiting", ![c].sends = n, ![c].reply = "none"]
        /\ UNCHANGED <<clock, offset, known, opened, kept, ran>>
    BY DEF SendRequest
  <1>3. /\ msg \in Messages /\ msg.request = <<c, n>> /\ msg.session = calls[c].session.id
    BY <1>1 DEF Messages, ClientClock, CallRecords, ClientSessions
  <1>4. \A m \in wire : m.request # <<c, n>>
    BY <1>1 DEF TransportInv, Numbered, Messages
  <1>5. /\ calls'[c] \in CallRecords /\ calls'[c].at = "waiting" /\ calls'[c].sends = n
        /\ calls'[c].session = calls[c].session /\ calls'[c].reply = "none"
        /\ \A d \in Calls \ {c} : calls'[d] = calls[d]
    BY <1>1, <1>2 DEF CallRecords, Ats, Replies
  <1>6. msg.request[1] = c /\ msg.request[2] = n
    BY <1>3
  <1>7. \A m \in wire : /\ m.request[1] \in Calls /\ m.request[2] \in Nat
                        /\ m.request[2] <= calls[m.request[1]].sends
    BY <1>1 DEF TransportInv, Numbered, Messages
  <1> HIDE DEF msg, n
  <1>8. Shaped'
    <2>1. calls' \in [Calls -> CallRecords]
      BY <1>1, <1>2, <1>5
    <2>2. QED
      BY <1>1, <1>2, <1>3, <2>1 DEF TransportInv, Shaped
  <1>9. Numbered'
    <2>1. n = calls[c].sends + 1
      BY DEF n
    <2>2. QED
      BY <1>1, <1>2, <1>3, <1>5, <1>6, <1>7, <2>1 DEF TransportInv, Numbered
  <1>10. OneMessage'
    BY <1>2, <1>3, <1>4 DEF TransportInv, OneMessage
  <1>11. HandledOnce'
    BY <1>2 DEF TransportInv, HandledOnce
  <1>12. HandledAreClosed'
    <2>1. \A m \in wire : Closed(m) => Closed(m)'
      BY <1>2 DEF Closed
    <2>2. \A r \in TransportRequests : ran[r] > 0 => r # <<c, n>>
      BY <1>4 DEF TransportInv, HandledAreClosed
    <2>3. QED
      BY <1>2, <1>3, <2>1, <2>2 DEF TransportInv, HandledAreClosed
  <1>13. SameSession'
    <2>1. \A m \in wire : m.request[1] = c => m.request[2] # n
      BY <1>1, <1>7 DEF n
    <2>2. \A m \in wire : m.request[1] # c => calls'[m.request[1]] = calls[m.request[1]]
      BY <1>5, <1>7
    <2> SUFFICES ASSUME NEW m \in wire', calls'[m.request[1]].at = "waiting",
                        m.request[2] = calls'[m.request[1]].sends
                 PROVE  m.session = calls'[m.request[1]].session.id
      BY DEF SameSession
    <2>3. CASE m = msg
      BY <1>3, <1>5, <1>6, <2>3
    <2>4. CASE m \in wire /\ m.request[1] = c
      BY <1>5, <2>1, <2>4
    <2>5. CASE m \in wire /\ m.request[1] # c
      BY <2>2, <2>5 DEF TransportInv, SameSession
    <2>6. QED
      BY <1>2, <2>3, <2>4, <2>5
  <1>14. GoneIsGone'
    BY <1>2, <1>5 DEF TransportInv, GoneIsGone, ToldGone
  <1>15. QED
    BY <1>8, <1>9, <1>10, <1>11, <1>12, <1>13, <1>14 DEF TransportInv

(***************************************************************************)
(* The server.                                                             *)
(***************************************************************************)

(* What the server does to the sessions it keeps: it drops some, and what  *)
(* it drops of the memory of another is too old to matter.                 *)
Forgets(s) == /\ known[s].seen \in Memories
              /\ \A e \in known[s].seen : e.at >= clock - ReplayWindow => e \in known'[s].seen

(* A reply changes what its caller was told, and nothing else.             *)
LEMMA ReplyTypes ==
    ASSUME TransportInv, NEW m \in wire, NEW reply \in Replies \ {"none"},
           ReplyTo(m.request, reply)
    PROVE  /\ calls' \in [Calls -> CallRecords]
           /\ \A c \in Calls :
                  /\ calls'[c].at = calls[c].at
                  /\ calls'[c].session = calls[c].session
                  /\ calls'[c].sends = calls[c].sends
                  /\ calls'[c].reply = "unknown" =>
                         \/ calls[c].reply = "unknown"
                         \/ reply = "unknown" /\ m.session = calls[c].session.id
  <1> DEFINE c == m.request[1]
  <1>1. /\ calls \in [Calls -> CallRecords] /\ c \in Calls /\ calls[c] \in CallRecords
        /\ m.request = <<c, m.request[2]>>
    BY DEF TransportInv, Shaped, Messages
  <1>2. CASE UNCHANGED calls
    BY <1>1, <1>2
  <1>3. CASE calls[c].at = "waiting" /\ RequestOf(c) = m.request
             /\ calls' = [calls EXCEPT ![c].reply = reply]
    <2>1. m.request[2] = calls[c].sends
      BY <1>1, <1>3 DEF RequestOf
    <2>2. m.session = calls[c].session.id
      BY <1>3, <2>1 DEF TransportInv, SameSession
    <2>3. /\ calls'[c] \in CallRecords /\ calls'[c].reply = reply
          /\ calls'[c].at = calls[c].at /\ calls'[c].session = calls[c].session
          /\ calls'[c].sends = calls[c].sends
          /\ \A d \in Calls \ {c} : calls'[d] = calls[d]
      BY <1>1, <1>3 DEF CallRecords
    <2>4. calls' \in [Calls -> CallRecords]
      BY <1>1, <1>3, <2>3
    <2> HIDE DEF c
    <2>5. QED
      BY <2>2, <2>3, <2>4
  <1>4. QED
    BY <1>2, <1>3 DEF ReplyTo

(* A step of the server that handles no request keeps what is known.       *)
LEMMA ServerMoves ==
    ASSUME TransportInv, UNCHANGED <<offset, opened, kept, wire, ran>>,
           clock' \in Int, clock' >= clock,
           calls' \in [Calls -> CallRecords],
           \A c \in Calls : /\ calls'[c].at = calls[c].at
                            /\ calls'[c].session = calls[c].session
                            /\ calls'[c].sends = calls[c].sends
                            /\ calls'[c].reply = "unknown" =>
                                   \/ calls[c].reply = "unknown"
                                   \/ calls[c].session.id \notin DOMAIN known',
           \A s \in DOMAIN known' : /\ s \in DOMAIN known
                                    /\ known'[s] \in ServerSessions
                                    /\ Forgets(s)
    PROVE  TransportInv'
  <1>1. Shaped'
    BY DEF TransportInv, Shaped
  <1>2. Numbered'
    BY DEF TransportInv, Shaped, Numbered, Messages
  <1>3. OneMessage' /\ HandledOnce'
    BY DEF TransportInv, OneMessage, HandledOnce
  <1>4. ASSUME NEW m \in wire, Closed(m)
        PROVE  Closed(m)'
    <2>1. m.time \in Int /\ clock \in Int /\ Skew \in Nat /\ ReplayWindow \in Nat
          /\ ReplayWindow >= 2 * Skew
      BY Constants DEF TransportInv, Shaped, Messages
    <2>2. CASE clock > m.time + Skew
      BY <2>1, <2>2 DEF Closed
    <2>3. CASE m.session \notin DOMAIN known
      BY <2>3 DEF Closed
    <2>4. CASE m.session \in DOMAIN known' /\ clock <= m.time + Skew
      <3>1. PICK e \in known[m.session].seen : e.request = m.request /\ e.at >= m.time - Skew
        BY <1>4, <2>1, <2>4 DEF Closed
      <3>2. e.at \in Int
        BY <2>4 DEF Forgets, Memories
      <3>3. e.at >= clock - ReplayWindow
        BY <2>1, <2>4, <3>1, <3>2
      <3>4. e \in known'[m.session].seen
        BY <2>4, <3>1, <3>3 DEF Forgets
      <3>5. QED
        BY <3>1, <3>4 DEF Closed
    <2>5. QED
      BY <2>1, <2>2, <2>3, <2>4 DEF Closed
  <1>5. HandledAreClosed'
    BY <1>4 DEF TransportInv, HandledAreClosed
  <1>6. SameSession'
    BY DEF TransportInv, Shaped, Messages, SameSession
  <1>7. GoneIsGone'
    BY DEF TransportInv, GoneIsGone, ToldGone
  <1>8. QED
    BY <1>1, <1>2, <1>3, <1>5, <1>6, <1>7 DEF TransportInv

(* A refusal tells the client no more than the server knows. *)
LEMMA RefusalKeepsInv ==
    ASSUME TransportInv, NEW m \in wire, NEW reply \in Replies \ {"none"},
           UNCHANGED <<clock, offset, opened, kept, wire>>, Refuse(m.request, reply),
           reply = "unknown" => m.session \notin DOMAIN known',
           \A s \in DOMAIN known' : /\ s \in DOMAIN known
                                    /\ known'[s] \in ServerSessions
                                    /\ Forgets(s)
    PROVE  TransportInv'
  <1>1. clock \in Int /\ UNCHANGED ran /\ ReplyTo(m.request, reply)
    BY DEF TransportInv, Shaped, Refuse
  <1>2. /\ calls' \in [Calls -> CallRecords]
        /\ \A c \in Calls :
               /\ calls'[c].at = calls[c].at
               /\ calls'[c].session = calls[c].session
               /\ calls'[c].sends = calls[c].sends
               /\ calls'[c].reply = "unknown" =>
                      \/ calls[c].reply = "unknown"
                      \/ reply = "unknown" /\ m.session = calls[c].session.id
    BY <1>1, ReplyTypes
  <1>3. clock' \in Int /\ clock' >= clock
    BY <1>1
  <1>4. QED
    BY <1>1, <1>2, <1>3, ServerMoves

(* A request that is handled was not before, and is remembered. *)
LEMMA HandleKeepsInv ==
    ASSUME TransportInv, NEW m \in wire, TimestampAcceptable(m.time),
           m.session \in DOMAIN known,
           ~\E e \in Remembered(known[m.session].seen, clock) : e.request = m.request,
           Observe(m), UNCHANGED <<clock, offset, opened, kept, wire>>
    PROVE  TransportInv'
  <1> DEFINE kep == Remembered(known[m.session].seen, clock)
             now == [request |-> m.request, at |-> clock]
  <1>1. /\ m.time \in Int /\ clock \in Int /\ Skew \in Nat /\ ReplayWindow \in Nat
        /\ ReplayWindow >= 2 * Skew /\ m.request \in Calls \X Nat
        /\ known[m.session] \in ServerSessions
    BY Constants DEF TransportInv, Shaped, Messages
  <1>2. clock - Skew <= m.time /\ m.time <= clock + Skew
    BY DEF TimestampAcceptable
  <1>3. PICK reply \in {"answer", "error"} : ReplyTo(m.request, reply)
    BY DEF Observe, Handle
  <1>4. /\ known' = [known EXCEPT ![m.session].seen = kep \cup {now},
                                ![m.session].messages = @ + 1]
        /\ ran' = [ran EXCEPT ![m.request] = @ + 1]
    BY DEF Observe, Handle
  <1>5. kep \cup {now} \in Memories /\ kep \in Memories /\ now.at = clock /\ now.request = m.request
        /\ \A e \in known[m.session].seen : e.at >= clock - ReplayWindow => e \in kep
    BY <1>1 DEF Remembered, ServerSessions, Memories
  <1>6. \A e \in kep : e.request # m.request
    OBVIOUS
  <1>7. known[m.session].seen \in Memories
    BY <1>1 DEF ServerSessions
  <1> HIDE DEF kep, now
  <1>8. /\ DOMAIN known' = DOMAIN known
        /\ \A s \in DOMAIN known : s # m.session => known'[s] = known[s]
        /\ known'[m.session].seen = kep \cup {now}
        /\ known'[m.session] \in ServerSessions
    <2>1. known[m.session].messages + 1 \in Nat
      BY <1>1 DEF ServerSessions
    <2>2. QED
      BY <1>1, <1>4, <1>5, <2>1 DEF ServerSessions
  <1>9. ~Closed(m)
    <2> SUFFICES ASSUME NEW e \in known[m.session].seen, e.request = m.request,
                        e.at >= m.time - Skew
                 PROVE  FALSE
      BY <1>1, <1>2 DEF Closed
    <2>1. e.at \in Int
      BY <1>7 DEF Memories
    <2>2. e.at >= clock - ReplayWindow
      BY <1>1, <1>2, <2>1
    <2>3. QED
      BY <1>5, <1>6, <2>2
  <1>10. m.request \in TransportRequests => ran[m.request] = 0
    BY <1>9 DEF TransportInv, HandledAreClosed, Shaped
  <1>11. /\ calls' \in [Calls -> CallRecords]
         /\ \A c \in Calls :
                /\ calls'[c].at = calls[c].at
                /\ calls'[c].session = calls[c].session
                /\ calls'[c].sends = calls[c].sends
                /\ calls'[c].reply = "unknown" => calls[c].reply = "unknown"
    BY <1>3, ReplyTypes DEF Replies
  <1>12. Shaped'
    <2>1. ran' \in [TransportRequests -> Nat]
      <3>1. ran \in [TransportRequests -> Nat]
        BY DEF TransportInv, Shaped
      <3>2. \A r \in TransportRequests : ran[r] + 1 \in Nat
        BY <3>1
      <3>3. QED
        BY <1>4, <3>1, <3>2
    <2>2. \A s \in DOMAIN known' : s \in 1..opened' /\ known'[s] \in ServerSessions
      BY <1>8 DEF TransportInv, Shaped
    <2>3. QED
      BY <1>11, <2>1, <2>2 DEF TransportInv, Shaped
  <1>13. Numbered'
    BY <1>11 DEF TransportInv, Shaped, Numbered, Messages
  <1>14. OneMessage'
    BY DEF TransportInv, OneMessage
  <1>15. HandledOnce'
    BY <1>4, <1>10 DEF TransportInv, HandledOnce, Shaped
  <1>16. Closed(m)'
    BY <1>1, <1>2, <1>5, <1>8 DEF Closed
  <1>17. ASSUME NEW o \in wire, Closed(o)
         PROVE  Closed(o)'
    <2>1. o.time \in Int
      BY DEF TransportInv, Shaped, Messages
    <2>2. CASE clock > o.time + Skew \/ o.session \notin DOMAIN known
      BY <1>8, <2>2 DEF Closed
    <2>3. CASE clock <= o.time + Skew /\ o.session \in DOMAIN known /\ o.session # m.session
      <3>1. known'[o.session] = known[o.session]
        BY <1>8, <2>3
      <3>2. QED
        BY <1>1, <1>17, <2>1, <2>3, <3>1 DEF Closed
    <2>4. CASE clock <= o.time + Skew /\ o.session = m.session
      <3>1. PICK e \in known[m.session].seen : e.request = o.request /\ e.at >= o.time - Skew
        BY <1>1, <1>17, <2>1, <2>4 DEF Closed
      <3>2. e.at \in Int
        BY <1>7 DEF Memories
      <3>3. e \in kep
        BY <1>1, <1>5, <2>1, <2>4, <3>1, <3>2
      <3>4. QED
        BY <1>8, <2>4, <3>1, <3>3 DEF Closed
    <2>5. QED
      BY <1>1, <2>1, <2>2, <2>3, <2>4
  <1>18. HandledAreClosed'
    <2> SUFFICES ASSUME NEW r \in TransportRequests, ran'[r] > 0
                 PROVE  /\ \E o \in wire : o.request = r
                        /\ \A o \in wire : o.request = r => Closed(o)'
      BY DEF HandledAreClosed
    <2>1. CASE r = m.request
      BY <1>16, <2>1 DEF TransportInv, OneMessage
    <2>2. CASE r # m.request
      <3>1. ran'[r] = ran[r]
        BY <1>4, <2>2 DEF TransportInv, Shaped
      <3>2. QED
        BY <1>17, <3>1 DEF TransportInv, HandledAreClosed
    <2>3. QED
      BY <2>1, <2>2
  <1>19. SameSession'
    BY <1>11 DEF TransportInv, Shaped, Messages, SameSession
  <1>20. GoneIsGone'
    BY <1>8, <1>11 DEF TransportInv, GoneIsGone, ToldGone
  <1>21. QED
    BY <1>12, <1>13, <1>14, <1>15, <1>18, <1>19, <1>20 DEF TransportInv

(* A request that arrives is handled if its id is new to the window. *)
LEMMA ArriveKeepsInv ==
    ASSUME TransportInv, NEW m \in wire, Arrive(m)
    PROVE  TransportInv'
  <1>1. UNCHANGED <<clock, offset, opened, kept, wire>>
    BY DEF Arrive
  <1>2. \A s \in DOMAIN known : known[s] \in ServerSessions /\ known[s].seen \in Memories
    BY DEF TransportInv, Shaped, ServerSessions
  <1>3. CASE ~TimestampAcceptable(m.time)
    <2>1. Refuse(m.request, "skew") /\ UNCHANGED known
      BY <1>3 DEF Arrive
    <2>2. \A s \in DOMAIN known' : /\ s \in DOMAIN known
                                   /\ known'[s] \in ServerSessions
                                   /\ Forgets(s)
      BY <1>2, <2>1 DEF Forgets
    <2>3. QED
      BY <1>1, <2>1, <2>2, RefusalKeepsInv DEF Replies
  <1>4. CASE TimestampAcceptable(m.time) /\ ~Found(m.session)
    <2>1. Refuse(m.request, "unknown") /\ DropWorn(m.session)
      BY <1>4 DEF Arrive
    <2>2. DOMAIN known' = DOMAIN known \ {m.session} /\ \A s \in DOMAIN known' : known'[s] = known[s]
      BY <2>1 DEF DropWorn
    <2>3. \A s \in DOMAIN known' : /\ s \in DOMAIN known
                                   /\ known'[s] \in ServerSessions
                                   /\ Forgets(s)
      BY <1>2, <2>2 DEF Forgets
    <2>4. QED
      BY <1>1, <2>1, <2>2, <2>3, RefusalKeepsInv DEF Replies
  <1>5. CASE TimestampAcceptable(m.time) /\ Found(m.session)
    <2>1. Observe(m) /\ m.session \in DOMAIN known
      BY <1>5 DEF Arrive, Found
    <2>2. CASE \E e \in Remembered(known[m.session].seen, clock) : e.request = m.request
      <3> DEFINE kep == Remembered(known[m.session].seen, clock)
      <3>1. Refuse(m.request, "replay") /\ known' = [known EXCEPT ![m.session].seen = kep]
        BY <2>1, <2>2 DEF Observe
      <3>2. /\ kep \in Memories
            /\ \A e \in known[m.session].seen : e.at >= clock - ReplayWindow => e \in kep
        BY <1>2, <2>1 DEF Remembered, Memories
      <3> HIDE DEF kep
      <3>3. /\ DOMAIN known' = DOMAIN known
            /\ \A s \in DOMAIN known : s # m.session => known'[s] = known[s]
            /\ known'[m.session] \in ServerSessions /\ known'[m.session].seen = kep
        BY <1>2, <2>1, <3>1, <3>2 DEF ServerSessions
      <3>4. \A s \in DOMAIN known' : /\ s \in DOMAIN known
                                     /\ known'[s] \in ServerSessions
                                     /\ Forgets(s)
        BY <1>2, <3>2, <3>3 DEF Forgets
      <3>5. QED
        BY <1>1, <3>1, <3>4, RefusalKeepsInv DEF Replies
    <2>3. QED
      BY <1>1, <1>5, <2>1, <2>2, HandleKeepsInv
  <1>6. QED
    BY <1>3, <1>4, <1>5

(* Sweeps, restarts and time only make the server forget. *)
LEMMA UpkeepKeepsInv ==
    ASSUME TransportInv, SweepSessions \/ RestartServer \/ Tick
    PROVE  TransportInv'
  <1>1. \A s \in DOMAIN known : known[s] \in ServerSessions /\ known[s].seen \in Memories
    BY DEF TransportInv, Shaped, ServerSessions
  <1>2. clock \in Int /\ calls \in [Calls -> CallRecords]
    BY DEF TransportInv, Shaped
  <1>3. /\ clock' \in Int /\ clock' >= clock
        /\ UNCHANGED <<offset, opened, kept, calls, wire, ran>>
    BY <1>2 DEF SweepSessions, RestartServer, Tick
  <1>4. \A s \in DOMAIN known' : s \in DOMAIN known /\ known'[s] = known[s]
    BY DEF SweepSessions, RestartServer, Tick
  <1>5. \A s \in DOMAIN known' : /\ s \in DOMAIN known
                                 /\ known'[s] \in ServerSessions
                                 /\ Forgets(s)
    BY <1>1, <1>4 DEF Forgets
  <1>6. QED
    BY <1>2, <1>3, <1>5, ServerMoves

(***************************************************************************)
(* The theorems.                                                           *)
(***************************************************************************)
THEOREM TransportAlways == TransportSpec => []TransportInv
  <1>1. TransportInit => TransportInv
    <2> SUFFICES ASSUME TransportInit PROVE TransportInv
      OBVIOUS
    <2>1. Unbegun \in CallRecords /\ NoSession \in ClientSessions /\ NoSession.id = 0
          /\ Unbegun.session.id = 0 /\ Unbegun.at = "idle"
      BY DEF Unbegun, NoSession, CallRecords, ClientSessions, Ats, Replies
    <2>2. /\ calls = [c \in Calls |-> Unbegun] /\ wire = {} /\ opened = 0 /\ kept = NoSession
          /\ ran = [r \in TransportRequests |-> 0] /\ clock = 0 /\ offset \in Int
          /\ DOMAIN known = {}
      BY Constants DEF TransportInit
    <2>3. Shaped
      BY <2>1, <2>2 DEF Shaped
    <2>4. Numbered /\ OneMessage /\ HandledAreClosed /\ HandledOnce /\ SameSession /\ GoneIsGone
      BY <2>1, <2>2 DEF Numbered, OneMessage, HandledAreClosed, HandledOnce, SameSession,
                        GoneIsGone, ToldGone
    <2>5. QED
      BY <2>3, <2>4 DEF TransportInv
  <1>2. TransportInv /\ [TransportNext]_transportVars => TransportInv'
    <2> SUFFICES ASSUME TransportInv, [TransportNext]_transportVars PROVE TransportInv'
      OBVIOUS
    <2>1. CASE UNCHANGED transportVars
      <3>1. UNCHANGED <<clock, offset, known, opened, kept, calls, wire, ran>>
        BY <2>1 DEF transportVars
      <3>2. /\ calls \in [Calls -> CallRecords] /\ clock \in Int
            /\ \A s \in DOMAIN known : known[s] \in ServerSessions /\ known[s].seen \in Memories
        BY DEF TransportInv, Shaped, ServerSessions
      <3>3. clock' \in Int /\ clock' >= clock
        BY <3>1, <3>2
      <3>4. \A s \in DOMAIN known' : /\ s \in DOMAIN known
                                     /\ known'[s] \in ServerSessions
                                     /\ Forgets(s)
        BY <3>1, <3>2 DEF Forgets
      <3>5. QED
        BY <3>1, <3>2, <3>3, <3>4, ServerMoves
    <2>2. CASE TransportNext
      BY <2>2, ArriveKeepsInv, UpkeepKeepsInv, TakeSessionKeepsInv, FinishHandshakeKeepsInv,
         SendKeepsInv, ClientKeepsInv DEF TransportNext
    <2>3. QED
      BY <2>1, <2>2
  <1>3. QED
    BY <1>1, <1>2, PTL DEF TransportSpec

(* However often and late the network brings a request, it is handled at   *)
(* most once: a session remembers an id for as long as the server would    *)
(* accept the time it was sent at.                                         *)
THEOREM RequestsHandledOnce == TransportSpec => []HandledOnce
  <1>1. TransportInv => HandledOnce
    BY DEF TransportInv
  <1>2. QED
    BY <1>1, TransportAlways, PTL

(* The client forgets a session only when the server lacks it, whichever   *)
(* calls were told so and whatever was opened meanwhile.                   *)
THEOREM ForgottenAreLost == TransportSpec => ForgetsOnlyLost
  <1> DEFINE OnlyLost == kept.id # 0 /\ kept'.id = 0 => kept.id \notin DOMAIN known
  <1>1. TransportInv /\ [TransportNext]_transportVars => [OnlyLost]_transportVars
    <2> SUFFICES ASSUME TransportInv, TransportNext PROVE OnlyLost
      OBVIOUS
    <2>1. CASE \E c \in Calls : ForgetSession(c)
      <3>1. PICK c \in Calls : ForgetSession(c)
        BY <2>1
      <3>2. calls[c].session.id \notin DOMAIN known
        BY <3>1 DEF ForgetSession, TransportInv, GoneIsGone, ToldGone
      <3>3. QED
        BY <3>1, <3>2 DEF ForgetSession
    <2>2. CASE \E c \in Calls : FinishHandshake(c)
      <3>1. kept'.id = opened + 1 /\ opened \in Nat
        BY <2>2 DEF FinishHandshake, TransportInv, Shaped
      <3>2. QED
        BY <3>1
    <2>3. CASE /\ ~\E c \in Calls : ForgetSession(c)
               /\ ~\E c \in Calls : FinishHandshake(c)
      <3>1. UNCHANGED kept
        BY <2>3 DEF TransportNext, Arrive, SweepSessions, RestartServer, Tick, BeginCall, TakeSession,
                    StartHandshake, FailHandshake, SendRequest, TimeOut, SessionUnknown,
                    ReportRefusal, TakeAnswer, SendEvent, EndStream, ReadEvent
      <3>2. QED
        BY <3>1
    <2>4. QED
      BY <2>1, <2>2, <2>3
  <1>2. QED
    BY <1>1, TransportAlways, PTL DEF TransportSpec, ForgetsOnlyLost

(***************************************************************************)
(* What a call costs.  An attempt that was given up is dead, it was not    *)
(* handled and its session is gone, except one: the attempt whose answer   *)
(* did not come, which is repeated once only.                              *)
(***************************************************************************)
Early == {"idle", "session", "greeting", "sending", "forgetting"}

DeadTry(c, n) ==
    /\ ran[<<c, n>>] = 0
    /\ \A m \in wire : m.request = <<c, n>> => m.session \notin DOMAIN known

TryBounded(r) ==
    /\ r.sends <= 1 + Cardinality(r.again)
    /\ r.at \in Early => r.sends <= Cardinality(r.again)
    /\ r.read <= r.events

\* A call in its present attempt has given up those before it.
GivenUp(r, n) == n # r.sends \/ r.at \in Early

TryTold(c, r) ==
    /\ "transport" \notin r.again => \A n \in 1..3 : GivenUp(r, n) => DeadTry(c, n)
    /\ "transport" \in r.again =>
          \E k \in Nat : \A n \in 1..3 : n # k /\ GivenUp(r, n) => DeadTry(c, n)
    /\ r.at = "waiting" /\ r.reply \in {"none", "unknown"} =>
          \A n \in 1..3 : n = r.sends => ran[<<c, n>>] = 0
    /\ r.at = "waiting" /\ r.reply = "unknown" =>
          \A n \in 1..3 : n = r.sends => DeadTry(c, n)

CostsInv ==
    /\ clock \in 0..LastTick /\ opened <= MaxSessions
    /\ greeter # NoGreeter => opened < MaxSessions
    /\ \A c \in Calls : calls[c].at = "greeting" <=> greeter = c
    /\ \A c \in Calls : TryBounded(calls[c])
    /\ \A c \in Calls : TryTold(c, calls[c])

(* How often a call tries again.                                           *)
LEMMA Again ==
    ASSUME NEW again \in SUBSET {"transport", "session"}
    PROVE  /\ Cardinality(again) \in Nat
           /\ \A x \in {"transport", "session"} :
                 x \notin again => Cardinality(again \cup {x}) = Cardinality(again) + 1
  <1>1. IsFiniteSet({"transport", "session"})
    <2>1. IsFiniteSet({"transport"}) /\ {"transport"} \cup {"session"} = {"transport", "session"}
      BY FS_Singleton
    <2>2. QED
      BY <2>1, FS_AddElement
  <1>2. IsFiniteSet(again)
    BY <1>1, FS_Subset
  <1>3. QED
    BY <1>2, FS_AddElement, FS_CardinalityType

(* A dead attempt stays dead.                                              *)
LEMMA DeadStays ==
    ASSUME TransportInv, wire' = wire,
           \A s \in DOMAIN known' : s \in DOMAIN known \/ s = opened + 1,
           \A r \in TransportRequests :
              ran'[r] = ran[r] \/ \E m \in wire : m.request = r /\ m.session \in DOMAIN known,
           NEW c \in Calls, NEW n \in 1..3, DeadTry(c, n)
    PROVE  DeadTry(c, n)'
  <1>1. <<c, n>> \in TransportRequests
    BY DEF TransportRequests
  <1>2. ran'[<<c, n>>] = 0
    BY <1>1 DEF DeadTry
  <1>3. ASSUME NEW m \in wire, m.request = <<c, n>> PROVE m.session \notin DOMAIN known'
    <2>1. m.session <= opened /\ m.session \in Nat /\ opened \in Nat
      BY DEF TransportInv, Numbered, Shaped, Messages
    <2>2. m.session \notin DOMAIN known
      BY <1>3 DEF DeadTry
    <2>3. QED
      BY <2>1, <2>2
  <1>4. QED
    BY <1>2, <1>3 DEF DeadTry

LEMMA ToldStays ==
    ASSUME TransportInv, wire' = wire,
           \A s \in DOMAIN known' : s \in DOMAIN known \/ s = opened + 1,
           UNCHANGED ran,
           NEW c \in Calls, NEW r, TryTold(c, r)
    PROVE  TryTold(c, r)'
  <1>1. \A n \in 1..3 : DeadTry(c, n) => DeadTry(c, n)'
    BY DeadStays
  <1>2. QED
    BY <1>1 DEF TryTold, GivenUp

(* A step of one call that sends nothing.                                  *)
LEMMA CallCosts ==
    ASSUME TransportInv, CostsInv, UNCHANGED <<clock, wire, ran>>,
           \A s \in DOMAIN known' : s \in DOMAIN known \/ s = opened + 1,
           NEW c \in Calls, NEW r \in CallRecords, calls' = [calls EXCEPT ![c] = r],
           \A d \in Calls : d # c => (greeter' = d <=> greeter = d),
           r.at = "greeting" <=> greeter' = c,
           opened' <= MaxSessions, greeter' # NoGreeter => opened' < MaxSessions,
           TryBounded(r), TryTold(c, r)
    PROVE  CostsInv'
  <1>1. calls \in [Calls -> CallRecords]
    BY DEF TransportInv, Shaped
  <1>2. calls'[c] = r /\ \A d \in Calls : d # c => calls'[d] = calls[d]
    BY <1>1
  <1>3. ASSUME NEW d \in Calls
        PROVE  /\ calls'[d].at = "greeting" <=> greeter' = d
               /\ TryBounded(calls'[d])
               /\ TryTold(d, calls[d])'
    <2>1. CASE d = c
      <3>1. TryTold(c, r)'
        BY ToldStays
      <3>2. QED
        BY <1>2, <2>1, <3>1 DEF TryTold, GivenUp
    <2>2. CASE d # c
      <3>1. PICK q : q = calls[d]
        OBVIOUS
      <3>2. TryTold(d, q)
        BY <3>1 DEF CostsInv
      <3>3. TryTold(d, q)'
        BY <3>2, ToldStays
      <3>4. calls'[d] = q
        BY <1>2, <2>2, <3>1
      <3>5. TryTold(d, calls[d])'
        BY <3>3, <3>4 DEF TryTold, GivenUp
      <3>6. TryBounded(calls'[d]) /\ (calls'[d].at = "greeting" <=> greeter' = d)
        BY <1>2, <2>2 DEF CostsInv
      <3>7. QED
        BY <3>5, <3>6
    <2>3. QED
      BY <2>1, <2>2
  <1>4. clock' \in 0..LastTick
    BY DEF CostsInv
  <1>5. QED
    BY <1>3, <1>4 DEF CostsInv, TryBounded

(* A call that only goes on, or ends.                                      *)
LEMMA CallGoesOn ==
    ASSUME TransportInv, CostsInv, UNCHANGED <<clock, wire, ran, known, opened>>,
           NEW c \in Calls, NEW state \in Ats \ {"waiting"}, CallStep(c, state),
           state \in Early => calls[c].at \in Early,
           \A d \in Calls : d # c => (greeter' = d <=> greeter = d),
           state = "greeting" <=> greeter' = c, greeter' # NoGreeter => opened < MaxSessions
    PROVE  CostsInv'
  <1> DEFINE r == [calls[c] EXCEPT !.at = state]
  <1>1. calls \in [Calls -> CallRecords] /\ calls[c] \in CallRecords
    BY DEF TransportInv, Shaped
  <1>2. calls' = [calls EXCEPT ![c] = r]
    BY <1>1 DEF CallStep
  <1>3. /\ r \in CallRecords /\ r.at = state /\ r.sends = calls[c].sends /\ r.again = calls[c].again
        /\ r.read = calls[c].read /\ r.events = calls[c].events
    BY <1>1 DEF CallRecords
  <1>4. TryBounded(calls[c]) /\ TryTold(c, calls[c])
    BY DEF CostsInv
  <1>5. opened <= MaxSessions
    BY DEF CostsInv
  <1> HIDE DEF r
  <1>6. TryBounded(r)
    BY <1>3, <1>4 DEF TryBounded
  <1>7. TryTold(c, r)
    BY <1>3, <1>4 DEF TryTold, GivenUp
  <1>8. QED
    BY <1>2, <1>3, <1>5, <1>6, <1>7, CallCosts

(* Only the greeter greets.                                                *)
LEMMA GreeterGreets ==
    ASSUME CostsInv, NEW c \in Calls
    PROVE  /\ c # NoGreeter
           /\ calls[c].at = "greeting" => greeter = c /\ opened < MaxSessions
           /\ calls[c].at # "greeting" => greeter # c
           /\ greeter = NoGreeter => calls[c].at # "greeting"
  BY TransportAssumption DEF CostsInv

(* The client takes the steps of a call.                                   *)
LEMMA ClientCosts ==
    ASSUME TransportInv, CostsInv, NEW c \in Calls,
           \/ BeginCall(c) \/ TakeSession(c) \/ StartHandshake(c) \/ FinishHandshake(c)
           \/ FailHandshake(c) \/ TimeOut(c) \/ SessionUnknown(c)
           \/ ForgetSession(c) \/ ReportRefusal(c) \/ TakeAnswer(c) \/ SendEvent(c)
           \/ EndStream(c)
           \/ \E k \in 1..MaxOutcomes : ReadEvent(c, k)
    PROVE  CostsInv'
  <1>1. /\ calls \in [Calls -> CallRecords] /\ calls[c] \in CallRecords /\ opened \in Nat
        /\ kept \in ClientSessions /\ clock \in Int
    BY DEF TransportInv, Shaped
  <1>2. /\ calls[c].again \in SUBSET {"transport", "session"} /\ calls[c].sends \in Nat
        /\ calls[c].events \in Nat /\ calls[c].read \in Nat /\ calls[c].at \in Ats
        /\ Cardinality(calls[c].again) \in Nat
    BY <1>1, Again DEF CallRecords
  <1>3. /\ TryBounded(calls[c]) /\ TryTold(c, calls[c]) /\ opened <= MaxSessions
        /\ greeter # NoGreeter => opened < MaxSessions
        /\ calls[c].at = "greeting" <=> greeter = c
    BY DEF CostsInv
  <1>4. /\ "session" \in Ats \ {"waiting"} /\ "greeting" \in Ats \ {"waiting"}
        /\ "failed" \in Ats \ {"waiting"} /\ "reading" \in Ats \ {"waiting"}
        /\ "answered" \in Ats \ {"waiting"} /\ "sending" \in Ats \ {"waiting"}
        /\ "forgetting" \in Ats \ {"waiting"}
        /\ "failed" \notin Early /\ "reading" \notin Early /\ "answered" \notin Early /\ "waiting" \notin Early
        /\ "idle" \in Early /\ "session" \in Early /\ "greeting" \in Early /\ "sending" \in Early
        /\ "forgetting" \in Early
    BY DEF Ats, Early
  <1>5. CASE BeginCall(c)
    <2>1. /\ UNCHANGED <<clock, wire, ran, known, opened, greeter>> /\ CallStep(c, "session")
          /\ calls[c].at = "idle"
      BY <1>5 DEF BeginCall
    <2>2. QED
      BY <1>3, <1>4, <2>1, CallGoesOn
  <1>6. CASE StartHandshake(c)
    <2>1. /\ UNCHANGED <<clock, wire, ran, known, opened>> /\ CallStep(c, "greeting")
          /\ calls[c].at = "session" /\ greeter = NoGreeter /\ greeter' = c /\ opened < MaxSessions
      BY <1>6 DEF StartHandshake
    <2>2. \A d \in Calls : d # NoGreeter
      BY GreeterGreets
    <2>3. \A d \in Calls : d # c => (greeter' = d <=> greeter = d)
      BY <2>1, <2>2
    <2>4. QED
      BY <1>4, <2>1, <2>3, CallGoesOn
  <1>7. CASE FailHandshake(c)
    <2>1. /\ UNCHANGED <<clock, wire, ran, known, opened>> /\ CallStep(c, "failed")
          /\ greeter = c /\ greeter' = NoGreeter
      BY <1>3, <1>7 DEF FailHandshake
    <2>2. \A d \in Calls : d # NoGreeter
      BY GreeterGreets
    <2>3. \A d \in Calls : d # c => (greeter' = d <=> greeter = d)
      BY <2>1, <2>2
    <2>4. QED
      BY <1>4, <2>1, <2>2, <2>3, CallGoesOn
  <1>8. CASE ForgetSession(c)
    <2>1. /\ UNCHANGED <<clock, wire, ran, known, opened, greeter>> /\ CallStep(c, "session")
          /\ calls[c].at = "forgetting"
      BY <1>8 DEF ForgetSession
    <2>2. QED
      BY <1>3, <1>4, <2>1, CallGoesOn
  <1>9. ASSUME NEW state \in {"failed", "reading", "answered"}, CallStep(c, state), calls[c].at # "greeting",
               UNCHANGED <<clock, wire, ran, known, opened, greeter>>
        PROVE  CostsInv'
    BY <1>3, <1>4, <1>9, CallGoesOn
  <1>10. CASE ReportRefusal(c) \/ TakeAnswer(c) \/ EndStream(c)
    <2>1. /\ UNCHANGED <<clock, wire, ran, known, opened, greeter>> /\ calls[c].at # "greeting"
          /\ \E state \in {"failed", "reading", "answered"} : CallStep(c, state)
      BY <1>10 DEF ReportRefusal, TakeAnswer, EndStream
    <2>2. QED
      BY <1>9, <2>1
  <1>11. CASE TakeSession(c)
    <2> DEFINE r == [calls[c] EXCEPT !.at = "sending", !.session = kept]
    <2>1. /\ UNCHANGED <<clock, wire, ran, known, opened, greeter>> /\ calls' = [calls EXCEPT ![c] = r]
          /\ calls[c].at = "session"
      BY <1>1, <1>11 DEF TakeSession
    <2>2. /\ r \in CallRecords /\ r.at = "sending" /\ r.sends = calls[c].sends
          /\ r.again = calls[c].again /\ r.read = calls[c].read /\ r.events = calls[c].events
      BY <1>1, <1>4 DEF CallRecords
    <2> HIDE DEF r
    <2>3. TryBounded(r) /\ TryTold(c, r)
      BY <1>3, <1>4, <2>1, <2>2 DEF TryBounded, TryTold, GivenUp
    <2>4. r.at = "greeting" <=> greeter' = c
      BY <1>3, <2>1, <2>2
    <2>5. QED
      BY <1>3, <2>1, <2>2, <2>3, <2>4, CallCosts
  <1>12. CASE FinishHandshake(c)
    <2> DEFINE fresh == [id |-> opened + 1, expires |-> clock + SessionLife]
               r == [calls[c] EXCEPT !.at = "sending", !.session = fresh]
    <2>1. /\ UNCHANGED <<clock, wire, ran>> /\ calls' = [calls EXCEPT ![c] = r]
          /\ opened' = opened + 1 /\ greeter' = NoGreeter /\ calls[c].at = "greeting"
          /\ \A s \in DOMAIN known' : s \in DOMAIN known \/ s = opened + 1
      BY <1>1, <1>12 DEF FinishHandshake
    <2>2. fresh \in ClientSessions
      BY <1>1, Constants DEF ClientSessions
    <2> HIDE DEF fresh
    <2>3. /\ r \in CallRecords /\ r.at = "sending" /\ r.sends = calls[c].sends
          /\ r.again = calls[c].again /\ r.read = calls[c].read /\ r.events = calls[c].events
      BY <1>1, <1>4, <2>2 DEF CallRecords
    <2> HIDE DEF r
    <2>4. TryBounded(r) /\ TryTold(c, r)
      BY <1>3, <1>4, <2>1, <2>3 DEF TryBounded, TryTold, GivenUp
    <2>5. greeter = c /\ opened < MaxSessions /\ \A d \in Calls : d # NoGreeter
      BY <2>1, GreeterGreets
    <2>6. opened' <= MaxSessions /\ MaxSessions \in Nat
      BY <1>1, <2>1, <2>5, TransportAssumption
    <2>7. /\ \A d \in Calls : d # c => (greeter' = d <=> greeter = d)
          /\ r.at = "greeting" <=> greeter' = c
      BY <2>1, <2>3, <2>5
    <2>8. QED
      BY <2>1, <2>3, <2>4, <2>6, <2>7, CallCosts
  <1>13. ASSUME NEW what \in {"transport", "session"}, what \notin calls[c].again,
                NEW state \in {"session", "forgetting"}, calls[c].at = "waiting",
                calls' = [calls EXCEPT ![c].at = state, ![c].again = Tried(c, what)],
                UNCHANGED <<clock, wire, ran, known, opened, greeter>>,
                what = "session" => calls[c].reply = "unknown"
         PROVE  CostsInv'
    <2> DEFINE again == calls[c].again \cup {what}
               r == [calls[c] EXCEPT !.at = state, !.again = again]
    <2>1. /\ UNCHANGED <<clock, wire, ran, known, opened, greeter>> /\ calls' = [calls EXCEPT ![c] = r]
      BY <1>1, <1>13 DEF Tried
    <2>2. again \in SUBSET {"transport", "session"} /\ Cardinality(again) = Cardinality(calls[c].again) + 1
      BY <1>2, <1>13, Again
    <2>3. "transport" \in again <=> what = "transport" \/ "transport" \in calls[c].again
      OBVIOUS
    <2> HIDE DEF again
    <2>4. /\ r \in CallRecords /\ r.at = state /\ r.at \in Early /\ r.sends = calls[c].sends
          /\ r.again = again /\ r.read = calls[c].read /\ r.events = calls[c].events
      BY <1>1, <1>4, <2>2 DEF CallRecords
    <2> HIDE DEF r
    <2>5. calls[c].sends <= 1 + Cardinality(calls[c].again) /\ calls[c].read <= calls[c].events
      BY <1>3 DEF TryBounded
    <2>6. TryBounded(r)
      BY <1>2, <2>2, <2>4, <2>5 DEF TryBounded
    <2>7. \A n \in 1..3 : GivenUp(calls[c], n) <=> n # calls[c].sends
      BY <1>4, <1>13 DEF GivenUp
    <2>8. TryTold(c, r)
      <3>1. CASE what = "transport"
        <4>1. \A n \in 1..3 : n # calls[c].sends => DeadTry(c, n)
          BY <1>3, <1>13, <2>7, <3>1 DEF TryTold
        <4>2. QED
          BY <1>2, <1>4, <1>13, <2>3, <2>4, <3>1, <4>1 DEF TryTold
      <3>2. CASE what = "session"
        <4>1. \A n \in 1..3 : n = calls[c].sends => DeadTry(c, n)
          BY <1>3, <1>13, <3>2 DEF TryTold
        <4>2. "transport" \notin again => \A n \in 1..3 : DeadTry(c, n)
          BY <1>3, <2>3, <2>7, <4>1 DEF TryTold
        <4>3. "transport" \in again => \E k \in Nat : \A n \in 1..3 : n # k => DeadTry(c, n)
          BY <1>3, <2>3, <2>7, <3>2, <4>1 DEF TryTold
        <4>4. QED
          BY <1>4, <2>4, <4>2, <4>3 DEF TryTold
      <3>3. QED
        BY <1>13, <3>1, <3>2
    <2>9. r.at # "greeting" /\ greeter # c
      BY <1>3, <1>13, <2>4
    <2>10. QED
      BY <1>3, <2>1, <2>4, <2>6, <2>8, <2>9, CallCosts
  <1>14. CASE TimeOut(c)
    <2>1. /\ UNCHANGED <<clock, wire, ran, known, opened, greeter>> /\ calls[c].at = "waiting"
      BY <1>14 DEF TimeOut
    <2>2. CASE "transport" \in calls[c].again
      BY <1>9, <1>14, <2>1, <2>2 DEF TimeOut
    <2>3. CASE "transport" \notin calls[c].again
      BY <1>13, <1>14, <2>1, <2>3 DEF TimeOut
    <2>4. QED
      BY <2>2, <2>3
  <1>15. CASE SessionUnknown(c)
    <2>1. /\ UNCHANGED <<clock, wire, ran, known, opened, greeter>> /\ calls[c].at = "waiting"
          /\ calls[c].reply = "unknown"
      BY <1>15 DEF SessionUnknown
    <2>2. CASE "session" \in calls[c].again
      BY <1>9, <1>15, <2>1, <2>2 DEF SessionUnknown
    <2>3. CASE "session" \notin calls[c].again
      BY <1>13, <1>15, <2>1, <2>3 DEF SessionUnknown
    <2>4. QED
      BY <2>2, <2>3
  <1>16. ASSUME NEW r \in CallRecords, calls' = [calls EXCEPT ![c] = r], calls[c].at = "reading",
                UNCHANGED <<clock, wire, ran, known, opened, greeter>>,
                r.at = "reading", r.sends = calls[c].sends, r.again = calls[c].again, r.read <= r.events
         PROVE  CostsInv'
    <2>1. TryBounded(r) /\ TryTold(c, r)
      BY <1>3, <1>4, <1>16 DEF TryBounded, TryTold, GivenUp
    <2>2. QED
      BY <1>3, <1>16, <2>1, CallCosts
  <1>17. CASE SendEvent(c)
    <2> DEFINE r == [calls[c] EXCEPT !.events = @ + 1]
    <2>1. /\ UNCHANGED <<clock, wire, ran, known, opened, greeter>> /\ calls' = [calls EXCEPT ![c] = r]
          /\ calls[c].at = "reading"
      BY <1>1, <1>17 DEF SendEvent
    <2>2. /\ r \in CallRecords /\ r.at = calls[c].at /\ r.sends = calls[c].sends
          /\ r.again = calls[c].again /\ r.read = calls[c].read /\ r.events = calls[c].events + 1
      BY <1>1, <1>2 DEF CallRecords
    <2> HIDE DEF r
    <2>3. r.read <= r.events
      BY <1>2, <1>3, <2>2 DEF TryBounded
    <2>4. QED
      BY <1>16, <2>1, <2>2, <2>3
  <1>18. CASE \E k \in 1..MaxOutcomes : ReadEvent(c, k)
    <2>1. PICK k \in 1..MaxOutcomes : ReadEvent(c, k)
      BY <1>18
    <2>2. /\ k \in Nat /\ k <= calls[c].events /\ calls[c].at = "reading"
          /\ UNCHANGED <<clock, wire, ran, known, opened, greeter>>
      BY <1>2, <2>1, Constants DEF ReadEvent
    <2>3. CASE calls' = [calls EXCEPT ![c].read = k]
      <3> DEFINE r == [calls[c] EXCEPT !.read = k]
      <3>1. calls' = [calls EXCEPT ![c] = r]
        BY <1>1, <2>3
      <3>2. /\ r \in CallRecords /\ r.at = calls[c].at /\ r.sends = calls[c].sends
            /\ r.again = calls[c].again /\ r.read = k /\ r.events = calls[c].events
        BY <1>1, <2>2 DEF CallRecords
      <3> HIDE DEF r
      <3>3. QED
        BY <1>16, <2>2, <3>1, <3>2
    <2>4. CASE CallStep(c, "failed")
      BY <1>9, <2>2, <2>4
    <2>5. QED
      BY <2>1, <2>3, <2>4 DEF ReadEvent, CallStep
  <1>19. QED
    BY <1>5, <1>6, <1>7, <1>8, <1>10, <1>11, <1>12, <1>14, <1>15, <1>17, <1>18

(* An attempt that was not sent yet is dead.                               *)
LEMMA UnsentIsDead ==
    ASSUME TransportInv, NEW c \in Calls, NEW n \in 1..3, n > calls[c].sends
    PROVE  ran[<<c, n>>] = 0 /\ \A m \in wire : m.request # <<c, n>>
  <1>1. <<c, n>> \in TransportRequests /\ ran[<<c, n>>] \in Nat
    BY DEF TransportRequests, TransportInv, Shaped
  <1>2. calls[c].sends \in Nat
    BY DEF TransportInv, Shaped, CallRecords
  <1>3. \A m \in wire : m.request # <<c, n>>
    <2>1. SUFFICES ASSUME NEW m \in wire, m.request = <<c, n>> PROVE FALSE
      OBVIOUS
    <2>2. m.request[1] = c /\ m.request[2] = n
      BY <2>1
    <2>3. n <= calls[c].sends
      BY <2>2 DEF TransportInv, Numbered
    <2>4. QED
      BY <1>2, <2>3
  <1>4. ~(ran[<<c, n>>] > 0)
    BY <1>1, <1>3 DEF TransportInv, HandledAreClosed
  <1>5. QED
    BY <1>1, <1>3, <1>4

LEMMA SendCosts ==
    ASSUME TransportInv, CostsInv, NEW c \in Calls, SendRequest(c)
    PROVE  CostsInv'
  <1> DEFINE n == calls[c].sends + 1
             msg == [request |-> <<c, n>>, session |-> calls[c].session.id, time |-> ClientClock]
             r == [calls[c] EXCEPT !.at = "waiting", !.sends = n, !.reply = "none"]
  <1>1. /\ calls \in [Calls -> CallRecords] /\ calls[c] \in CallRecords /\ calls[c].sends \in Nat
        /\ calls[c].again \in SUBSET {"transport", "session"}
    BY DEF TransportInv, Shaped, CallRecords
  <1>2. /\ calls[c].at = "sending" /\ wire' = wire \cup {msg} /\ calls' = [calls EXCEPT ![c] = r]
        /\ UNCHANGED <<clock, offset, known, opened, kept, greeter, ran>>
    BY <1>1 DEF SendRequest
  <1>3. /\ r \in CallRecords /\ r.at = "waiting" /\ r.sends = n /\ r.reply = "none"
        /\ r.again = calls[c].again /\ r.read = calls[c].read /\ r.events = calls[c].events
    <2>1. n \in Nat /\ "waiting" \in Ats /\ "none" \in Replies
      BY <1>1 DEF Ats, Replies
    <2> HIDE DEF n
    <2>2. QED
      BY <1>1, <2>1 DEF CallRecords
  <1>4. msg.request = <<c, n>> /\ n = calls[c].sends + 1 /\ n \in Nat
    BY <1>1
  <1>5. /\ TryBounded(calls[c]) /\ TryTold(c, calls[c]) /\ Cardinality(calls[c].again) \in Nat
        /\ "sending" \in Early /\ "waiting" \notin Early
    BY <1>1, Again DEF CostsInv, Early
  <1> HIDE DEF r, msg, n
  <1>6. ASSUME NEW d \in Calls, NEW i \in 1..3, DeadTry(d, i), d # c \/ i # n
        PROVE  DeadTry(d, i)'
    <2>1. msg.request # <<d, i>>
      BY <1>4, <1>6
    <2>2. QED
      BY <1>2, <1>6, <2>1 DEF DeadTry
  <1>7. calls'[c] = r /\ \A d \in Calls : d # c => calls'[d] = calls[d]
    BY <1>1, <1>2
  <1>8. TryBounded(r)
    BY <1>1, <1>3, <1>4, <1>5, <1>2 DEF TryBounded
  <1>9. ASSUME NEW q, q = r PROVE TryTold(c, q)'
    <2>1. \A i \in 1..3 : GivenUp(calls[c], i)
      BY <1>2, <1>5 DEF GivenUp
    <2>2. \A i \in 1..3 : GivenUp(q, i) => i # n
      BY <1>3, <1>5, <1>9 DEF GivenUp
    <2>3. "transport" \notin q.again => \A i \in 1..3 : i # n => DeadTry(c, i)'
      BY <1>3, <1>5, <1>6, <1>9, <2>1 DEF TryTold
    <2>4. ASSUME "transport" \in q.again
          PROVE  \E k \in Nat : \A i \in 1..3 : i # k /\ i # n => DeadTry(c, i)'
      <3>1. PICK k \in Nat : \A i \in 1..3 : i # k => DeadTry(c, i)
        BY <1>3, <1>5, <1>9, <2>1, <2>4 DEF TryTold
      <3>2. \A i \in 1..3 : i # k /\ i # n => DeadTry(c, i)'
        BY <1>6, <3>1
      <3>3. QED
        BY <3>2
    <2>5. ASSUME NEW i \in 1..3, i = q.sends PROVE ran'[<<c, i>>] = 0
      <3>1. i > calls[c].sends
        BY <1>1, <1>3, <1>4, <1>9, <2>5
      <3>2. QED
        BY <1>2, <3>1, UnsentIsDead
    <2>6. q.reply # "unknown"
      BY <1>3, <1>9
    <2>7. "transport" \notin q.again => \A i \in 1..3 : GivenUp(q, i) => DeadTry(c, i)'
      BY <2>2, <2>3
    <2>8. "transport" \in q.again =>
             \E k \in Nat : \A i \in 1..3 : i # k /\ GivenUp(q, i) => DeadTry(c, i)'
      BY <2>2, <2>4
    <2>9. QED
      BY <2>5, <2>6, <2>7, <2>8 DEF TryTold, GivenUp
  <1>10. ASSUME NEW d \in Calls
         PROVE  /\ calls'[d].at = "greeting" <=> greeter' = d
                /\ TryBounded(calls'[d])
                /\ TryTold(d, calls[d])'
    <2>1. CASE d = c
      <3>1. calls[c].at # "greeting" /\ greeter # c
        BY <1>2, GreeterGreets
      <3>2. calls'[d] = r
        BY <1>7, <2>1
      <3>3. PICK q : q = r
        OBVIOUS
      <3>4. TryTold(d, q)' /\ calls'[d] = q
        BY <1>9, <2>1, <3>2, <3>3
      <3>5. TryTold(d, calls[d])'
        BY <3>4 DEF TryTold, GivenUp
      <3>6. QED
        BY <1>2, <1>3, <1>8, <2>1, <3>1, <3>2, <3>5
    <2>2. CASE d # c
      <3>1. PICK q : q = calls[d]
        OBVIOUS
      <3>2. TryTold(d, q)
        BY <3>1 DEF CostsInv
      <3>3. \A i \in 1..3 : DeadTry(d, i) => DeadTry(d, i)'
        BY <1>6, <2>2
      <3>4. TryTold(d, q)'
        BY <1>2, <3>2, <3>3 DEF TryTold, GivenUp
      <3>5. calls'[d] = q
        BY <1>7, <2>2, <3>1
      <3>6. TryTold(d, calls[d])'
        BY <3>4, <3>5 DEF TryTold, GivenUp
      <3>7. TryBounded(calls'[d]) /\ (calls'[d].at = "greeting" <=> greeter' = d)
        BY <1>2, <1>7, <2>2 DEF CostsInv
      <3>8. QED
        BY <3>6, <3>7
    <2>3. QED
      BY <2>1, <2>2
  <1>11. /\ clock' \in 0..LastTick /\ opened' <= MaxSessions
         /\ greeter' # NoGreeter => opened' < MaxSessions
    BY <1>2 DEF CostsInv
  <1>12. QED
    BY <1>10, <1>11 DEF CostsInv, TryBounded

(* The server handles a request, or refuses it, or forgets.                *)
LEMMA ServerCosts ==
    ASSUME TransportInv, CostsInv, UNCHANGED <<opened, greeter, wire>>, clock' \in 0..LastTick,
           DOMAIN known' \subseteq DOMAIN known,
           \A r \in TransportRequests :
              ran'[r] = ran[r] \/ \E m \in wire : m.request = r /\ m.session \in DOMAIN known,
           \A c \in Calls :
              /\ calls'[c].at = calls[c].at /\ calls'[c].sends = calls[c].sends
              /\ calls'[c].again = calls[c].again
              /\ calls'[c].events = calls[c].events /\ calls'[c].read = calls[c].read,
           \A c \in Calls : \A n \in 1..3 :
              /\ calls[c].at = "waiting" /\ n = calls[c].sends
              /\ calls'[c].reply \in {"none", "unknown"}
              => /\ calls[c].reply \in {"none", "unknown"} /\ ran'[<<c, n>>] = ran[<<c, n>>]
                 /\ calls'[c].reply = "unknown" /\ calls[c].reply = "none" =>
                       \A m \in wire : m.request = <<c, n>> => m.session \notin DOMAIN known'
    PROVE  CostsInv'
  <1>1. ASSUME NEW c \in Calls, NEW n \in 1..3, DeadTry(c, n) PROVE DeadTry(c, n)'
    BY <1>1, DeadStays
  <1>2. ASSUME NEW c \in Calls PROVE TryTold(c, calls[c])'
    <2>1. PICK q : q = calls[c]
      OBVIOUS
    <2>2. PICK r : r = calls'[c]
      OBVIOUS
    <2>3. TryTold(c, q)
      BY <2>1 DEF CostsInv
    <2>4. r.at = q.at /\ r.sends = q.sends /\ r.again = q.again
      BY <2>1, <2>2
    <2>5. \A n \in 1..3 : GivenUp(r, n) <=> GivenUp(q, n)
      BY <2>4 DEF GivenUp
    <2>6. "transport" \notin r.again => \A n \in 1..3 : GivenUp(r, n) => DeadTry(c, n)'
      BY <1>1, <2>3, <2>4, <2>5 DEF TryTold
    <2>7. ASSUME "transport" \in r.again
          PROVE  \E k \in Nat : \A n \in 1..3 : n # k /\ GivenUp(r, n) => DeadTry(c, n)'
      <3>1. PICK k \in Nat : \A n \in 1..3 : n # k /\ GivenUp(q, n) => DeadTry(c, n)
        BY <2>3, <2>4, <2>7 DEF TryTold
      <3>2. \A n \in 1..3 : n # k /\ GivenUp(r, n) => DeadTry(c, n)'
        BY <1>1, <2>5, <3>1
      <3>3. QED
        BY <3>2
    <2>8. ASSUME r.at = "waiting", NEW n \in 1..3, n = r.sends, r.reply \in {"none", "unknown"}
          PROVE  ran'[<<c, n>>] = 0 /\ (r.reply = "unknown" => DeadTry(c, n)')
      <3>1. /\ q.at = "waiting" /\ n = q.sends /\ q.reply \in {"none", "unknown"}
            /\ ran'[<<c, n>>] = ran[<<c, n>>]
            /\ r.reply = "unknown" /\ q.reply = "none" =>
                  \A m \in wire : m.request = <<c, n>> => m.session \notin DOMAIN known'
        BY ZenonT(30), <2>1, <2>2, <2>4, <2>8
      <3>2. ran'[<<c, n>>] = 0
        BY <2>3, <3>1 DEF TryTold
      <3>3. q.reply = "unknown" => DeadTry(c, n)'
        BY <1>1, <2>3, <3>1 DEF TryTold
      <3>4. r.reply = "unknown" /\ q.reply = "none" => DeadTry(c, n)'
        BY <3>1, <3>2 DEF DeadTry
      <3>5. QED
        BY <3>1, <3>2, <3>3, <3>4
    <2>9. TryTold(c, r)'
      BY <2>6, <2>7, <2>8 DEF TryTold, GivenUp
    <2>10. QED
      BY <2>2, <2>9 DEF TryTold, GivenUp
  <1>3. ASSUME NEW c \in Calls
        PROVE  TryBounded(calls'[c]) /\ (calls'[c].at = "greeting" <=> greeter' = c)
    BY DEF CostsInv, TryBounded
  <1>4. QED
    BY <1>2, <1>3 DEF CostsInv, TryBounded

(* What a reply tells the call it is for.                                  *)
LEMMA ReplyCosts ==
    ASSUME TransportInv, NEW m \in wire, NEW reply \in Replies \ {"none"}, ReplyTo(m.request, reply),
           NEW c \in Calls
    PROVE  /\ calls'[c].at = calls[c].at /\ calls'[c].sends = calls[c].sends
           /\ calls'[c].again = calls[c].again
           /\ calls'[c].events = calls[c].events /\ calls'[c].read = calls[c].read
           /\ \/ calls'[c].reply = calls[c].reply
              \/ /\ calls[c].at = "waiting" /\ m.request = <<c, calls[c].sends>>
                 /\ calls[c].reply = "none" /\ calls'[c].reply = reply
           /\ calls[c].at = "waiting" /\ m.request = <<c, calls[c].sends>> /\ calls[c].reply = "none"
                 => calls'[c].reply = reply
  <1> DEFINE d == m.request[1]
  <1>1. /\ calls \in [Calls -> CallRecords] /\ d \in Calls /\ calls[d] \in CallRecords
        /\ m.request = <<d, m.request[2]>>
    BY DEF TransportInv, Shaped, Messages
  <1>2. CASE ~(calls[d].at = "waiting" /\ RequestOf(d) = m.request /\ calls[d].reply = "none")
    <2>1. calls' = calls
      BY <1>2 DEF ReplyTo
    <2>2. ~(calls[c].at = "waiting" /\ m.request = <<c, calls[c].sends>> /\ calls[c].reply = "none")
      <3>1. m.request = <<c, calls[c].sends>> => d = c
        OBVIOUS
      <3>2. QED
        BY <1>2, <3>1 DEF RequestOf
    <2>3. QED
      BY <2>1, <2>2
  <1>3. CASE calls[d].at = "waiting" /\ RequestOf(d) = m.request /\ calls[d].reply = "none"
    <2>1. calls' = [calls EXCEPT ![d].reply = reply]
      BY <1>3 DEF ReplyTo
    <2>2. m.request = <<d, calls[d].sends>>
      BY <1>3 DEF RequestOf
    <2>3. /\ calls'[d].reply = reply /\ calls'[d].again = calls[d].again
          /\ calls'[d].at = calls[d].at /\ calls'[d].sends = calls[d].sends
          /\ calls'[d].events = calls[d].events /\ calls'[d].read = calls[d].read
          /\ \A e \in Calls \ {d} : calls'[e] = calls[e]
      BY <1>1, <2>1 DEF CallRecords
    <2> HIDE DEF d
    <2>4. CASE c = d
      BY <1>3, <2>2, <2>3, <2>4
    <2>5. CASE c # d
      <3>1. m.request # <<c, calls[c].sends>> /\ calls'[c] = calls[c]
        BY <2>2, <2>3, <2>5
      <3>2. QED
        BY <3>1
    <2>6. QED
      BY <2>4, <2>5
  <1>4. QED
    BY <1>2, <1>3

LEMMA ArriveCosts ==
    ASSUME TransportInv, CostsInv, NEW m \in wire, Arrive(m)
    PROVE  CostsInv'
  <1>1. UNCHANGED <<clock, opened, greeter, wire>> /\ clock \in 0..LastTick
    BY DEF Arrive, CostsInv
  <1>2. m.request \in Calls \X Nat /\ \A k \in wire : k.request = m.request => k = m
    BY DEF TransportInv, Shaped, Messages, OneMessage
  <1>3. ASSUME NEW reply \in Replies \ {"none"}, Refuse(m.request, reply),
               DOMAIN known' \subseteq DOMAIN known, reply = "unknown" => m.session \notin DOMAIN known'
        PROVE  CostsInv'
    <2>1. ReplyTo(m.request, reply) /\ ran' = ran
      BY <1>3 DEF Refuse
    <2>2. ASSUME NEW c \in Calls
          PROVE  /\ calls'[c].at = calls[c].at /\ calls'[c].sends = calls[c].sends
                 /\ calls'[c].again = calls[c].again
                 /\ calls'[c].events = calls[c].events /\ calls'[c].read = calls[c].read
      BY <2>1, ReplyCosts
    <2>3. ASSUME NEW c \in Calls, NEW n \in 1..3, calls[c].at = "waiting", n = calls[c].sends,
                 calls'[c].reply \in {"none", "unknown"}
          PROVE  /\ calls[c].reply \in {"none", "unknown"} /\ ran'[<<c, n>>] = ran[<<c, n>>]
                 /\ calls'[c].reply = "unknown" /\ calls[c].reply = "none" =>
                       \A k \in wire : k.request = <<c, n>> => k.session \notin DOMAIN known'
      <3>1. \/ calls'[c].reply = calls[c].reply
            \/ /\ m.request = <<c, n>> /\ calls[c].reply = "none" /\ calls'[c].reply = reply
        BY <2>1, <2>3, ReplyCosts
      <3>2. CASE calls'[c].reply = calls[c].reply
        BY <2>1, <2>3, <3>2
      <3>3. CASE m.request = <<c, n>> /\ calls[c].reply = "none" /\ calls'[c].reply = reply
        BY <1>2, <1>3, <2>1, <3>3
      <3>4. QED
        BY <3>1, <3>2, <3>3
    <2>4. QED
      BY <1>1, <1>3, <2>1, <2>2, <2>3, ServerCosts
  <1>4. "skew" \in Replies \ {"none"} /\ "unknown" \in Replies \ {"none"} /\ "replay" \in Replies \ {"none"}
        /\ \A reply \in {"answer", "error"} : reply \in Replies \ {"none"} /\ reply # "unknown"
    BY DEF Replies
  <1>5. CASE ~TimestampAcceptable(m.time)
    <2>1. Refuse(m.request, "skew") /\ DOMAIN known' \subseteq DOMAIN known
      BY <1>5 DEF Arrive
    <2>2. QED
      BY <1>3, <1>4, <2>1
  <1>6. CASE TimestampAcceptable(m.time) /\ ~Found(m.session)
    <2>1. Refuse(m.request, "unknown") /\ DropWorn(m.session)
      BY <1>6 DEF Arrive
    <2>2. DOMAIN known' = DOMAIN known \ {m.session}
      BY <2>1 DEF DropWorn
    <2>3. QED
      BY <1>3, <1>4, <2>1, <2>2
  <1>7. CASE TimestampAcceptable(m.time) /\ Found(m.session)
    <2>1. Observe(m) /\ m.session \in DOMAIN known
      BY <1>7 DEF Arrive, Found
    <2>2. CASE \E e \in Remembered(known[m.session].seen, clock) : e.request = m.request
      <3>1. Refuse(m.request, "replay") /\ DOMAIN known' = DOMAIN known
        BY <2>1, <2>2 DEF Observe
      <3>2. QED
        BY <1>3, <1>4, <3>1
    <2>3. CASE ~\E e \in Remembered(known[m.session].seen, clock) : e.request = m.request
      <3>1. DOMAIN known' = DOMAIN known /\ Handle(m.request)
        BY <2>1, <2>3 DEF Observe
      <3>2. PICK reply \in {"answer", "error"} : ReplyTo(m.request, reply)
        BY <3>1 DEF Handle
      <3>3. ran' = [ran EXCEPT ![m.request] = @ + 1] /\ ran \in [TransportRequests -> Nat]
        BY <3>1 DEF Handle, TransportInv, Shaped
      <3>4. \A r \in TransportRequests : r # m.request => ran'[r] = ran[r]
        BY <3>3
      <3>5. \A r \in TransportRequests :
               ran'[r] = ran[r] \/ \E k \in wire : k.request = r /\ k.session \in DOMAIN known
        BY <2>1, <3>4
      <3>6. ASSUME NEW c \in Calls
            PROVE  /\ calls'[c].at = calls[c].at /\ calls'[c].sends = calls[c].sends
                   /\ calls'[c].again = calls[c].again
                   /\ calls'[c].events = calls[c].events /\ calls'[c].read = calls[c].read
        BY <1>4, <3>2, ReplyCosts
      <3>7. ASSUME NEW c \in Calls, NEW n \in 1..3, calls[c].at = "waiting", n = calls[c].sends,
                   calls'[c].reply \in {"none", "unknown"}
            PROVE  /\ calls[c].reply \in {"none", "unknown"} /\ ran'[<<c, n>>] = ran[<<c, n>>]
                   /\ calls'[c].reply = "unknown" /\ calls[c].reply = "none" =>
                         \A k \in wire : k.request = <<c, n>> => k.session \notin DOMAIN known'
        <4>1. /\ calls'[c].reply = calls[c].reply
              /\ ~(m.request = <<c, n>> /\ calls[c].reply = "none")
          BY <1>4, <3>2, <3>7, ReplyCosts
        <4>2. CASE m.request # <<c, n>>
          <5>1. <<c, n>> \in TransportRequests
            BY DEF TransportRequests
          <5>2. QED
            BY <3>4, <3>7, <4>1, <4>2, <5>1
        <4>3. CASE m.request = <<c, n>>
          <5>1. calls[c].reply = "unknown"
            BY <3>7, <4>1, <4>3
          <5>2. DeadTry(c, n)
            BY <3>7, <5>1 DEF CostsInv, TryTold
          <5>3. QED
            BY <2>1, <4>3, <5>2 DEF DeadTry
        <4>4. QED
          BY <4>2, <4>3
      <3>8. QED
        BY <1>1, <3>1, <3>5, <3>6, <3>7, ServerCosts
    <2>4. QED
      BY <2>2, <2>3
  <1>8. QED
    BY <1>5, <1>6, <1>7

LEMMA UpkeepCosts ==
    ASSUME TransportInv, CostsInv, SweepSessions \/ RestartServer \/ Tick \/ UNCHANGED transportVars
    PROVE  CostsInv'
  <1>1. UNCHANGED <<opened, greeter, wire, ran, calls>>
    BY DEF SweepSessions, RestartServer, Tick, transportVars
  <1>2. clock' \in 0..LastTick
    BY TransportAssumption DEF CostsInv, SweepSessions, RestartServer, Tick, transportVars
  <1>3. DOMAIN known' \subseteq DOMAIN known
    BY DEF SweepSessions, RestartServer, Tick, transportVars
  <1>4. ASSUME NEW c \in Calls, NEW n \in 1..3, calls[c].at = "waiting", n = calls[c].sends,
               calls'[c].reply \in {"none", "unknown"}
        PROVE  /\ calls[c].reply \in {"none", "unknown"} /\ ran'[<<c, n>>] = ran[<<c, n>>]
               /\ calls'[c].reply = "unknown" /\ calls[c].reply = "none" =>
                     \A m \in wire : m.request = <<c, n>> => m.session \notin DOMAIN known'
    BY <1>1, <1>4
  <1>5. QED
    BY <1>1, <1>2, <1>3, <1>4, ServerCosts

LEMMA CostsAlways == TransportSpec => [](TransportInv /\ CostsInv)
  <1>1. TransportInit => CostsInv
    <2> SUFFICES ASSUME TransportInit PROVE CostsInv
      OBVIOUS
    <2>1. /\ calls = [c \in Calls |-> Unbegun] /\ wire = {} /\ opened = 0 /\ clock = 0
          /\ ran = [r \in TransportRequests |-> 0] /\ greeter = NoGreeter
      BY DEF TransportInit
    <2>2. /\ Unbegun.at = "idle" /\ Unbegun.sends = 0 /\ Unbegun.again = {} /\ Unbegun.read = 0
          /\ Unbegun.events = 0
      BY DEF Unbegun
    <2>3. LastTick \in Nat /\ MaxSessions \in Nat /\ \A c \in Calls : c # NoGreeter
      BY TransportAssumption
    <2>4. Cardinality({}) = 0
      BY FS_EmptySet
    <2>5. \A c \in Calls : TryBounded(calls[c])
      BY <2>1, <2>2, <2>4 DEF TryBounded
    <2>6. ASSUME NEW c \in Calls PROVE TryTold(c, calls[c])
      <3>1. \A n \in 1..3 : <<c, n>> \in TransportRequests
        BY DEF TransportRequests
      <3>2. \A n \in 1..3 : DeadTry(c, n)
        BY <2>1, <3>1 DEF DeadTry
      <3>3. calls[c].at = "idle" /\ "transport" \notin calls[c].again
        BY <2>1, <2>2
      <3>4. QED
        BY <3>2, <3>3 DEF TryTold
    <2>7. QED
      BY <2>1, <2>2, <2>3, <2>5, <2>6 DEF CostsInv
  <1>2. TransportInv /\ CostsInv /\ [TransportNext]_transportVars => CostsInv'
    BY ArriveCosts, UpkeepCosts, ClientCosts, SendCosts DEF TransportNext
  <1>3. QED
    BY <1>1, <1>2, TransportAlways, PTL DEF TransportSpec

LEMMA TransportsShaped == TransportInv /\ CostsInv => TransportTypeOK
  <1> SUFFICES ASSUME TransportInv, CostsInv PROVE TransportTypeOK
    OBVIOUS
  <1>1. clock \in 0..LastTick /\ opened \in 0..MaxSessions
    BY TransportAssumption DEF TransportInv, Shaped, CostsInv
  <1>2. DOMAIN known \subseteq 1..opened /\ kept.id \in 0..opened
    BY DEF TransportInv, Shaped, ClientSessions
  <1>3. \A c \in Calls : calls[c].at \in Ats
    BY DEF TransportInv, Shaped, CallRecords
  <1>4. QED
    BY <1>1, <1>2, <1>3 DEF TransportTypeOK, CostsInv, TryBounded, Ats

LEMMA TwoAtMost ==
    ASSUME NEW S, NEW a, NEW b, S \subseteq {a, b}
    PROVE  Cardinality(S) \in Nat /\ Cardinality(S) <= 2 /\ (a = b => Cardinality(S) <= 1)
  <1>1. IsFiniteSet({a}) /\ Cardinality({a}) = 1 /\ {a} \cup {b} = {a, b}
    BY FS_Singleton
  <1>2. IsFiniteSet({a, b}) /\ Cardinality({a, b}) = IF b \in {a} THEN 1 ELSE 2
    BY <1>1, FS_AddElement
  <1>3. /\ Cardinality(S) \in Nat /\ Cardinality({a, b}) \in Nat
        /\ Cardinality(S) <= Cardinality({a, b})
    BY <1>2, FS_Subset, FS_CardinalityType
  <1>4. QED
    BY <1>2, <1>3

LEMMA CallsCostTheirTries == TransportInv /\ CostsInv => CallsCostOnce
  <1> SUFFICES ASSUME TransportInv, CostsInv, NEW c \in Calls
               PROVE  Cardinality({n \in 1..3 : ran[<<c, n>>] > 0})
                        <= 1 + Cardinality(calls[c].again \cap {"transport"})
    BY DEF CallsCostOnce
  <1> DEFINE S == {n \in 1..3 : ran[<<c, n>>] > 0}
  <1>1. TryTold(c, calls[c])
    BY DEF CostsInv
  <1>2. \A n \in 1..3 : DeadTry(c, n) => n \notin S
    BY DEF DeadTry
  <1>3. CASE "transport" \notin calls[c].again
    <2>1. S \subseteq {calls[c].sends, calls[c].sends}
      BY <1>1, <1>2, <1>3 DEF TryTold, GivenUp
    <2>2. Cardinality(S) \in Nat /\ Cardinality(S) <= 1
      BY <2>1, TwoAtMost
    <2>3. calls[c].again \cap {"transport"} = {} /\ Cardinality({}) = 0
      BY <1>3, FS_EmptySet
    <2>4. QED
      BY <2>2, <2>3
  <1>4. CASE "transport" \in calls[c].again
    <2>1. PICK k \in Nat : \A n \in 1..3 : n # k /\ GivenUp(calls[c], n) => DeadTry(c, n)
      BY <1>1, <1>4 DEF TryTold
    <2>2. S \subseteq {k, calls[c].sends}
      BY <1>2, <2>1 DEF GivenUp
    <2>3. Cardinality(S) \in Nat /\ Cardinality(S) <= 2
      BY <2>2, TwoAtMost
    <2>4. calls[c].again \cap {"transport"} = {"transport"} /\ Cardinality({"transport"}) = 1
      BY <1>4, FS_Singleton
    <2>5. QED
      BY <2>3, <2>4
  <1>5. QED
    BY <1>3, <1>4

\* The transport's variables keep their shapes through every call, refusal and
\* restart (owe1_client.rs, owe1/handler.rs, owe1/session.rs).
THEOREM TransportTyped == TransportSpec => []TransportTypeOK
  BY CostsAlways, TransportsShaped, PTL

(* A request that was handled is handled again, under a new id, only after *)
(* its answer was lost: a call is run once more at most, and once if every *)
(* answer arrives (owe1_client's single retry of a lost request).          *)
THEOREM CallsAreCheap == TransportSpec => []CallsCostOnce
  BY CostsAlways, CallsCostTheirTries, PTL

(***************************************************************************)
(* Rate limits.                                                            *)
(*                                                                         *)
(* What a key's window holds is the end of the list of all the calls that  *)
(* passed, which is in the order of time, and what the window has let go   *)
(* of has aged out.                                                        *)
(***************************************************************************)
EndOf(last, all, span, limit, now) ==
    /\ last \in Seq(Nat) /\ all \in Seq(Nat)
    /\ Len(last) <= Len(all) /\ Len(last) <= limit
    /\ \A i \in 1..Len(last) : last[i] = all[i + (Len(all) - Len(last))]
    /\ \A i \in 1..(Len(all) - Len(last)) : all[i] + span <= now
    /\ \A i \in 1..Len(all) : all[i] \in 1..now
    /\ \A i, j \in 1..Len(all) : i <= j => all[i] <= all[j]

KeyHolds(k) == EndOf(windows[k], passed[k], WindowOf[k[1]], LimitedTo[k[1]], second)

LimitsInv ==
    /\ second \in Nat \ {0}
    /\ windows \in [Keys -> Seq(Nat)] /\ passed \in [Keys -> Seq(Nat)]
    /\ refusedAt \in [Keys -> [at : Nat, wait : Nat]]
    /\ \A k \in Keys : KeyHolds(k)
    /\ WindowsHold /\ WaitsAreExact

(* A set of numbers that is not empty and has a bound has a greatest one.  *)
LEMMA GreatestOf ==
    ASSUME NEW N \in Nat, NEW S \in SUBSET (0..N), S # {}
    PROVE  Max(S) \in S /\ \A d \in S : Max(S) >= d
  <1> DEFINE T == {n \in Nat : N - n \in S}
  <1>1. T \subseteq Nat /\ T # {}
    <2>1. PICK d \in S : TRUE
      OBVIOUS
    <2>2. d \in 0..N /\ N - d \in Nat /\ N - (N - d) = d
      OBVIOUS
    <2>3. QED
      BY <2>2
  <1>2. PICK n \in T : \A m \in T : ~(<<m, n>> \in OpToRel(<, Nat))
    BY <1>1, NatLessThanWellFounded, WFMin
  <1>3. \A m \in T : ~(m < n)
    BY <1>1, <1>2 DEF OpToRel
  <1>4. n \in Nat /\ N - n \in S
    OBVIOUS
  <1>5. ASSUME NEW d \in S PROVE N - n >= d
    <2>1. d \in 0..N /\ N - d \in Nat /\ N - (N - d) = d
      OBVIOUS
    <2>2. N - d \in T
      BY <2>1
    <2>3. ~(N - d < n)
      BY <1>3, <2>2
    <2>4. QED
      BY <1>4, <2>1, <2>3
  <1>6. QED
    BY <1>4, <1>5 DEF Max

LEMMA LimitKeys ==
    ASSUME NEW k \in Keys
    PROVE  k[1] \in Buckets /\ WindowOf[k[1]] \in Nat \ {0} /\ LimitedTo[k[1]] \in Nat
  BY LimitsAssumption DEF Keys

(* What has aged out is the longest beginning that has.                    *)
LEMMA AgedOut ==
    ASSUME NEW stamps \in Seq(Nat), NEW bucket \in Buckets, NEW now \in Nat
    PROVE  /\ Aged(stamps, bucket, now) \in 0..Len(stamps)
           /\ \A i \in 1..Aged(stamps, bucket, now) : stamps[i] + WindowOf[bucket] <= now
           /\ Aged(stamps, bucket, now) < Len(stamps) =>
                 ~(stamps[Aged(stamps, bucket, now) + 1] + WindowOf[bucket] <= now)
           /\ Counted(stamps, bucket, now) \in Seq(Nat)
           /\ Len(Counted(stamps, bucket, now)) = Len(stamps) - Aged(stamps, bucket, now)
           /\ \A i \in 1..Len(Counted(stamps, bucket, now)) :
                 Counted(stamps, bucket, now)[i] = stamps[i + Aged(stamps, bucket, now)]
  <1> DEFINE S == {n \in 0..Len(stamps) : \A i \in 1..n : stamps[i] + WindowOf[bucket] <= now}
             n == Aged(stamps, bucket, now)
  <1>1. Len(stamps) \in Nat
    OBVIOUS
  <1>2. 0 \in S
    BY <1>1
  <1>3. n \in S /\ \A d \in S : n >= d
    BY <1>1, <1>2, GreatestOf DEF Aged
  <1> HIDE DEF n
  <1>4. n \in 0..Len(stamps) /\ \A i \in 1..n : stamps[i] + WindowOf[bucket] <= now
    BY <1>3
  <1>5. ASSUME n < Len(stamps), stamps[n + 1] + WindowOf[bucket] <= now PROVE FALSE
    <2>1. n + 1 \in 0..Len(stamps) /\ \A i \in 1..(n + 1) : i \in 1..n \/ i = n + 1
      BY <1>1, <1>4, <1>5
    <2>2. n + 1 \in S
      BY <1>4, <1>5, <2>1
    <2>3. QED
      BY <1>3, <1>4, <2>2
  <1> DEFINE c == Counted(stamps, bucket, now)
  <1>6. c = SubSeq(stamps, n + 1, Len(stamps))
    BY DEF Counted, n
  <1>7. /\ c \in Seq(Nat) /\ Len(c) = Len(stamps) - n
        /\ \A i \in 1..Len(c) : c[i] = stamps[i + n]
    <2>1. n + 1 \in 1..(Len(stamps) + 1) /\ Len(stamps) \in n..Len(stamps)
      BY <1>1, <1>4
    <2>2. \A i \in (n + 1)..Len(stamps) : stamps[i] \in Nat
      BY <2>1
    <2>3. /\ c \in Seq(Nat)
          /\ Len(c) = IF n + 1 <= Len(stamps) THEN Len(stamps) - (n + 1) + 1 ELSE 0
          /\ \A i \in 1..(Len(stamps) - (n + 1) + 1) : c[i] = stamps[(n + 1) + i - 1]
      BY <1>1, <1>4, <1>6, <2>2, SubSeqProperties
    <2>4. QED
      BY <1>1, <1>4, <2>3
  <1>8. QED
    BY <1>4, <1>5, <1>7 DEF n

(* Letting go of what has aged out.                                        *)
LEMMA DropAged ==
    ASSUME NEW b \in Buckets, NEW now \in Nat, NEW limit \in Nat, NEW last, NEW all,
           EndOf(last, all, WindowOf[b], limit, now)
    PROVE  /\ EndOf(Counted(last, b, now), all, WindowOf[b], limit, now)
           /\ \A i \in 1..Len(Counted(last, b, now)) : Counted(last, b, now)[i] + WindowOf[b] > now
  <1> DEFINE n == Aged(last, b, now)
             c == Counted(last, b, now)
             gone == Len(all) - Len(last)
  <1>1. /\ last \in Seq(Nat) /\ all \in Seq(Nat) /\ WindowOf[b] \in Nat \ {0}
        /\ Len(last) \in Nat /\ Len(all) \in Nat /\ Len(last) <= Len(all) /\ Len(last) <= limit
        /\ gone \in Nat
    BY LimitsAssumption DEF EndOf
  <1>2. /\ n \in 0..Len(last) /\ \A i \in 1..n : last[i] + WindowOf[b] <= now
        /\ n < Len(last) => ~(last[n + 1] + WindowOf[b] <= now)
        /\ c \in Seq(Nat) /\ Len(c) = Len(last) - n
        /\ \A i \in 1..Len(c) : c[i] = last[i + n]
    BY <1>1, AgedOut
  <1>3. /\ \A i \in 1..Len(last) : last[i] = all[i + gone]
        /\ \A i \in 1..gone : all[i] + WindowOf[b] <= now
        /\ \A i \in 1..Len(all) : all[i] \in 1..now
        /\ \A i, j \in 1..Len(all) : i <= j => all[i] <= all[j]
    BY DEF EndOf
  <1> HIDE DEF n, c
  <1>9. /\ n \in Nat /\ gone \in Nat /\ Len(c) \in Nat /\ Len(last) = Len(c) + n
        /\ Len(all) = gone + Len(last) /\ Len(last) \in Nat /\ Len(all) \in Nat
    <2>1. n \in 0..Len(last) /\ Len(c) = Len(last) - n
      BY <1>2
    <2>2. QED
      BY <1>1, <2>1
  <1> HIDE DEF gone
  <1>4. ASSUME NEW i \in 1..Len(c)
        PROVE  /\ i + n \in 1..Len(last) /\ c[i] = last[i + n] /\ last[i + n] = all[i + n + gone]
               /\ i + n + gone = i + (Len(all) - Len(c)) /\ i + n + gone \in 1..Len(all)
    <2>1. /\ i + n \in 1..Len(last) /\ i + n + gone = i + (Len(all) - Len(c))
          /\ i + n + gone \in 1..Len(all)
      BY <1>9
    <2>2. last[i + n] = all[(i + n) + gone]
      BY <1>3, <2>1
    <2>3. c[i] = last[i + n]
      BY <1>2
    <2>4. QED
      BY <2>1, <2>2, <2>3
  <1>5. ASSUME NEW i \in 1..(Len(all) - Len(c)) PROVE all[i] + WindowOf[b] <= now
    <2>1. CASE i \in 1..gone
      BY <1>3, <2>1
    <2>2. CASE ~(i \in 1..gone)
      <3>1. i - gone \in 1..n /\ i - gone \in 1..Len(last) /\ (i - gone) + gone = i
        BY <1>9, <2>2
      <3>2. last[i - gone] = all[i]
        BY <1>3, <3>1
      <3>3. QED
        BY <1>2, <3>1, <3>2
    <2>3. QED
      BY <2>1, <2>2
  <1>6. ASSUME NEW i \in 1..Len(c) PROVE c[i] + WindowOf[b] > now
    <2>1. 1 \in 1..Len(c) /\ n < Len(last) /\ n + 1 \in 1..Len(last) /\ 1 + n = n + 1
      BY <1>9
    <2>2. last[n + 1] = all[1 + n + gone] /\ c[i] = all[i + n + gone]
      BY <1>4, <2>1
    <2>3. all[1 + n + gone] <= all[i + n + gone]
      <3>1. 1 + n + gone <= i + n + gone /\ 1 + n + gone \in 1..Len(all) /\ i + n + gone \in 1..Len(all)
        BY <1>9
      <3>2. QED
        BY <1>3, <3>1
    <2>4. ~(last[n + 1] + WindowOf[b] <= now)
      BY <1>2, <2>1
    <2>5. WindowOf[b] \in Nat /\ last[n + 1] \in Nat /\ c[i] \in Nat
      <3>1. c \in Seq(Nat) /\ i \in 1..Len(c)
        BY <1>2
      <3>2. c[i] \in Nat
        BY <3>1
      <3>3. last[n + 1] \in Nat
        BY SMTT(30), <1>1, <2>1
      <3>4. QED
        BY <1>1, <3>2, <3>3
    <2>6. QED
      BY <2>2, <2>3, <2>4, <2>5
  <1>7. EndOf(c, all, WindowOf[b], limit, now)
    <2>1. Len(c) <= Len(all) /\ Len(c) <= limit
      BY <1>1, <1>9
    <2>2. \A i \in 1..Len(c) : c[i] = all[i + (Len(all) - Len(c))]
      BY <1>4
    <2>3. QED
      BY <1>1, <1>2, <1>3, <1>5, <2>1, <2>2 DEF EndOf
  <1>8. QED
    BY <1>6, <1>7 DEF c

(* Letting go of all, when the last of a window has aged out.              *)
LEMMA DropAll ==
    ASSUME NEW span \in Nat \ {0}, NEW now \in Nat, NEW limit \in Nat, NEW last, NEW all,
           EndOf(last, all, span, limit, now),
           last = <<>> \/ last[Len(last)] + span <= now
    PROVE  EndOf(<<>>, all, span, limit, now)
  <1>1. /\ last \in Seq(Nat) /\ all \in Seq(Nat) /\ Len(last) \in Nat /\ Len(all) \in Nat
        /\ Len(last) <= Len(all) /\ <<>> \in Seq(Nat) /\ Len(<<>>) = 0
    BY DEF EndOf
  <1>2. /\ \A i \in 1..Len(last) : last[i] = all[i + (Len(all) - Len(last))]
        /\ \A i \in 1..(Len(all) - Len(last)) : all[i] + span <= now
        /\ \A i \in 1..Len(all) : all[i] \in 1..now
        /\ \A i, j \in 1..Len(all) : i <= j => all[i] <= all[j]
    BY DEF EndOf
  <1>3. ASSUME NEW i \in 1..Len(all) PROVE all[i] + span <= now
    <2>1. CASE last = <<>>
      BY <1>1, <1>2, <2>1
    <2>2. CASE last # <<>>
      <3>1. Len(last) \in 1..Len(last) /\ Len(last) + (Len(all) - Len(last)) = Len(all)
            /\ Len(all) \in 1..Len(all) /\ i <= Len(all)
        BY <1>1, <2>2
      <3>2. last[Len(last)] = all[Len(all)] /\ all[i] <= all[Len(all)]
        BY <1>2, <3>1
      <3>3. all[i] \in Nat /\ all[Len(all)] \in Nat
        BY <1>1, <3>1
      <3>4. QED
        BY <2>2, <3>2, <3>3
    <2>3. QED
      BY <2>1, <2>2
  <1>4. QED
    BY <1>1, <1>2, <1>3 DEF EndOf

(* Letting a call through.                                                 *)
LEMMA LetThrough ==
    ASSUME NEW span \in Nat \ {0}, NEW now \in Nat \ {0}, NEW limit \in Nat, NEW last, NEW all,
           EndOf(last, all, span, limit, now), Len(last) < limit
    PROVE  EndOf(Append(last, now), Append(all, now), span, limit, now)
  <1> DEFINE k == Append(last, now)
             a == Append(all, now)
  <1>1. /\ last \in Seq(Nat) /\ all \in Seq(Nat) /\ Len(last) \in Nat /\ Len(all) \in Nat
        /\ Len(last) <= Len(all)
    BY DEF EndOf
  <1>2. /\ \A i \in 1..Len(last) : last[i] = all[i + (Len(all) - Len(last))]
        /\ \A i \in 1..(Len(all) - Len(last)) : all[i] + span <= now
        /\ \A i \in 1..Len(all) : all[i] \in 1..now
        /\ \A i, j \in 1..Len(all) : i <= j => all[i] <= all[j]
    BY DEF EndOf
  <1>3. /\ k \in Seq(Nat) /\ a \in Seq(Nat) /\ Len(k) = Len(last) + 1 /\ Len(a) = Len(all) + 1
        /\ \A i \in 1..Len(last) : k[i] = last[i]
        /\ \A i \in 1..Len(all) : a[i] = all[i]
        /\ k[Len(last) + 1] = now /\ a[Len(all) + 1] = now
    BY <1>1
  <1>11. Len(last) \in Nat /\ Len(all) \in Nat /\ Len(last) <= Len(all)
    BY <1>1
  <1> HIDE DEF k, a
  <1>4. Len(a) - Len(k) = Len(all) - Len(last) /\ Len(k) <= Len(a) /\ Len(k) <= limit
    BY <1>1, <1>3
  <1>5. ASSUME NEW i \in 1..Len(k) PROVE k[i] = a[i + (Len(all) - Len(last))]
    <2>1. CASE i \in 1..Len(last)
      <3>1. i + (Len(all) - Len(last)) \in 1..Len(all)
        BY <1>11, <2>1
      <3>2. QED
        BY <1>2, <1>3, <2>1, <3>1
    <2>2. CASE i = Len(last) + 1
      <3>1. i + (Len(all) - Len(last)) = Len(all) + 1
        BY <1>11, <2>2
      <3>2. QED
        BY <1>3, <2>2, <3>1
    <2>3. QED
      BY <1>3, <1>11, <2>1, <2>2
  <1>6. ASSUME NEW i \in 1..(Len(all) - Len(last)) PROVE a[i] + span <= now
    <2>1. i \in 1..Len(all)
      BY <1>11
    <2>2. QED
      BY <1>2, <1>3, <2>1
  <1>7. \A i \in 1..Len(a) : i \in 1..Len(all) \/ i = Len(all) + 1
    BY <1>3, <1>11
  <1>8. ASSUME NEW i \in 1..Len(a) PROVE a[i] \in 1..now
    <2>1. CASE i \in 1..Len(all)
      BY <1>2, <1>3, <2>1
    <2>2. CASE i = Len(all) + 1
      BY <1>3, <2>2
    <2>3. QED
      BY <1>7, <2>1, <2>2
  <1>9. ASSUME NEW i \in 1..Len(a), NEW j \in 1..Len(a), i <= j PROVE a[i] <= a[j]
    <2>1. CASE j = Len(all) + 1
      BY <1>3, <1>8, <2>1
    <2>2. CASE j \in 1..Len(all)
      <3>1. i \in 1..Len(all)
        BY <1>1, <1>9, <2>2
      <3>2. QED
        BY <1>2, <1>3, <1>9, <2>2, <3>1
    <2>3. QED
      BY <1>7, <2>1, <2>2
  <1>10. QED
    BY <1>3, <1>4, <1>5, <1>6, <1>8, <1>9 DEF EndOf, k, a

(* A refusal names the time at which the oldest call counted ages out.     *)
LEMMA RefusalIsExact ==
    ASSUME NEW b \in Buckets, NEW now \in Nat, NEW limit \in Nat \ {0}, NEW c, NEW all,
           EndOf(c, all, WindowOf[b], limit, now),
           \A i \in 1..Len(c) : c[i] + WindowOf[b] > now,
           Len(c) >= limit
    PROVE  /\ RetryAfter(c, b, now) \in Nat
           /\ Len(Counted(all, b, now + RetryAfter(c, b, now))) < limit
           /\ \A later \in now..(now + RetryAfter(c, b, now) - 1) : Len(Counted(all, b, later)) >= limit
  <1> DEFINE g == Len(all) - Len(c)
             W == WindowOf[b]
             oldest == all[g + 1]
  <1>1. /\ c \in Seq(Nat) /\ all \in Seq(Nat) /\ W \in Nat \ {0}
        /\ Len(c) \in Nat /\ Len(all) \in Nat /\ Len(c) <= Len(all) /\ Len(c) <= limit
    BY LimitsAssumption DEF EndOf
  <1>2. Len(c) = limit /\ g \in Nat /\ g + 1 \in 1..Len(all) /\ 1 \in 1..Len(c) /\ Len(all) = g + limit
    <2>1. Len(c) = limit
      BY <1>1
    <2>2. Len(all) \in Nat /\ limit <= Len(all)
      BY <1>1, <2>1
    <2>3. g = Len(all) - limit
      BY <2>1
    <2>4. QED
      BY <2>1, <2>2, <2>3
  <1>3. /\ \A i \in 1..Len(c) : c[i] = all[i + g]
        /\ \A i, j \in 1..Len(all) : i <= j => all[i] <= all[j]
    BY DEF EndOf
  <1>4. Head(c) = oldest /\ oldest + W > now /\ oldest \in Nat
    <2>1. c[1] = all[1 + g] /\ 1 + g = g + 1 /\ c[1] + W > now
      BY <1>2, <1>3
    <2>2. Head(c) = c[1] /\ oldest \in Nat
      BY <1>1, <1>2
    <2>3. QED
      BY <2>1, <2>2
  <1> HIDE DEF g, W, oldest
  <1>5. RetryAfter(c, b, now) \in Nat /\ now + RetryAfter(c, b, now) = oldest + W
    <2>1. Head(c) + WindowOf[b] - now = oldest + W - now /\ oldest + W - now \in Nat \ {0}
      BY SMTT(30), <1>1, <1>4 DEF W
    <2>2. RetryAfter(c, b, now) = oldest + W - now
      BY <2>1 DEF RetryAfter
    <2>3. QED
      BY <1>1, <1>4, <2>1, <2>2
  <1>6. ASSUME NEW later \in Nat
        PROVE  /\ later >= oldest + W => Len(Counted(all, b, later)) < limit
               /\ later < oldest + W => Len(Counted(all, b, later)) >= limit
    <2> DEFINE A == Aged(all, b, later)
    <2>1. /\ A \in 0..Len(all) /\ \A i \in 1..A : all[i] + W <= later
          /\ A < Len(all) => ~(all[A + 1] + W <= later)
          /\ Len(Counted(all, b, later)) = Len(all) - A
      BY <1>1, AgedOut DEF W
    <2> HIDE DEF A
    <2>2. ASSUME later >= oldest + W, A <= g PROVE FALSE
      <3>1. A < Len(all) /\ A + 1 \in 1..Len(all) /\ A + 1 <= g + 1
        BY <1>1, <1>2, <2>1, <2>2
      <3>2. all[A + 1] <= oldest
        BY <1>2, <1>3, <3>1 DEF oldest
      <3>3. all[A + 1] \in Nat
        BY <1>1, <3>1
      <3>4. ~(all[A + 1] + W <= later)
        BY <2>1, <3>1
      <3>5. QED
        BY <1>1, <1>4, <2>2, <3>2, <3>3, <3>4
    <2>3. ASSUME later < oldest + W, A > g PROVE FALSE
      <3>1. g + 1 \in 1..A
        BY <1>1, <1>2, <2>1, <2>3
      <3>2. oldest + W <= later
        BY <2>1, <3>1 DEF oldest
      <3>3. QED
        BY <1>1, <1>4, <2>3, <3>2
    <2>4. QED
      BY <1>1, <1>2, <2>1, <2>2, <2>3
  <1>7. QED
    <2>1. oldest + W \in Nat
      BY <1>1, <1>4
    <2>2. Len(Counted(all, b, oldest + W)) < limit
      BY <1>6, <2>1
    <2>3. ASSUME NEW later \in now..(oldest + W - 1) PROVE later \in Nat /\ later < oldest + W
      <3>1. oldest + W - 1 \in Int
        BY <1>1, <1>4
      <3>2. QED
        BY <1>1, <1>4, <2>1, <3>1
    <2>4. QED
      BY <1>5, <1>6, <2>2, <2>3

CallsIn(all, start, span) == {i \in DOMAIN all : all[i] \in start..(start + span - 1)}

(* A window of time that a call is let into holds only calls still counted. *)
LEMMA WindowStaysFull ==
    ASSUME NEW span \in Nat \ {0}, NEW now \in Nat \ {0}, NEW limit \in Nat, NEW c, NEW all,
           EndOf(c, all, span, limit, now), Len(c) < limit, NEW start \in Nat,
           Cardinality(CallsIn(all, start, span)) <= limit
    PROVE  Cardinality(CallsIn(Append(all, now), start, span)) <= limit
  <1> DEFINE a == Append(all, now)
             g == Len(all) - Len(c)
  <1>1. /\ c \in Seq(Nat) /\ all \in Seq(Nat) /\ Len(c) \in Nat /\ Len(all) \in Nat
        /\ Len(c) <= Len(all) /\ g \in Nat
    BY DEF EndOf
  <1>2. /\ \A i \in 1..Len(all) : a[i] = all[i]
        /\ a[Len(all) + 1] = now
        /\ DOMAIN a = 1..(Len(all) + 1) /\ DOMAIN all = 1..Len(all)
    BY <1>1
  <1>3. \A i \in 1..g : all[i] + span <= now /\ all[i] \in Nat
    <2>1. \A i \in 1..g : i \in 1..Len(all)
      BY <1>1
    <2>2. QED
      BY <1>1, <2>1 DEF EndOf
  <1> HIDE DEF a, g
  <1>4. \A i \in 1..(Len(all) + 1) : i \in 1..Len(all) \/ i = Len(all) + 1
    BY <1>1
  <1>5. CASE now \notin start..(start + span - 1)
    <2>1. CallsIn(a, start, span) = CallsIn(all, start, span)
      BY <1>2, <1>4, <1>5 DEF CallsIn
    <2>2. QED
      BY <2>1 DEF a
  <1>6. CASE now \in start..(start + span - 1)
    <2>1. ASSUME NEW i \in CallsIn(a, start, span) PROVE i \in (g + 1)..(Len(all) + 1)
      <3>1. i \in 1..(Len(all) + 1) /\ a[i] \in start..(start + span - 1)
        BY <1>2 DEF CallsIn
      <3>2. ASSUME i \in 1..g PROVE FALSE
        <4>1. i \in 1..Len(all)
          BY <1>1, <3>2 DEF g
        <4>2. a[i] = all[i] /\ all[i] + span <= now /\ all[i] \in Nat
          BY <1>2, <1>3, <3>2, <4>1
        <4>3. QED
          BY <1>6, <3>1, <4>2
      <3>3. QED
        BY <1>1, <3>1, <3>2
    <2>2. /\ IsFiniteSet((g + 1)..(Len(all) + 1))
          /\ Cardinality((g + 1)..(Len(all) + 1)) = Len(c) + 1
      <3>1. g + 1 \in Int /\ Len(all) + 1 \in Int /\ ~(g + 1 > Len(all) + 1)
            /\ (Len(all) + 1) - (g + 1) + 1 = Len(c) + 1
        BY <1>1 DEF g
      <3>2. QED
        BY <3>1, FS_Interval
    <2>3. /\ Cardinality(CallsIn(a, start, span)) <= Len(c) + 1
          /\ Cardinality(CallsIn(a, start, span)) \in Nat
      <3>1. CallsIn(a, start, span) \subseteq (g + 1)..(Len(all) + 1)
        BY <2>1
      <3>2. IsFiniteSet(CallsIn(a, start, span))
        BY <2>2, <3>1, FS_Subset
      <3>3. QED
        BY <2>2, <3>1, <3>2, FS_Subset, FS_CardinalityType
    <2>4. QED
      BY <1>1, <2>3 DEF a
  <1>7. QED
    BY <1>5, <1>6

LEMMA LimitsStart == LimitsInit => LimitsInv
  <1> SUFFICES ASSUME LimitsInit PROVE LimitsInv
    OBVIOUS
  <1>1. /\ windows \in [Keys -> Seq(Nat)] /\ passed \in [Keys -> Seq(Nat)]
        /\ refusedAt \in [Keys -> [at : Nat, wait : Nat]] /\ second = 1
    BY DEF LimitsInit, Never
  <1>2. \A k \in Keys : KeyHolds(k)
    <2>1. SUFFICES ASSUME NEW k \in Keys PROVE KeyHolds(k)
      OBVIOUS
    <2>2. windows[k] = <<>> /\ passed[k] = <<>> /\ Len(<<>>) = 0 /\ <<>> \in Seq(Nat)
      BY DEF LimitsInit
    <2>3. LimitedTo[k[1]] \in Nat
      BY LimitKeys
    <2>4. QED
      BY <2>2, <2>3 DEF KeyHolds, EndOf
  <1>3. WindowsHold
    <2>1. SUFFICES ASSUME NEW k \in Keys, NEW start \in 1..LastSecond, LimitedTo[k[1]] > 0
                   PROVE  Cardinality({i \in DOMAIN passed[k] :
                             passed[k][i] \in start..(start + WindowOf[k[1]] - 1)}) <= LimitedTo[k[1]]
      BY DEF WindowsHold
    <2>2. passed[k] = <<>>
      BY DEF LimitsInit
    <2>3. {i \in DOMAIN passed[k] : passed[k][i] \in start..(start + WindowOf[k[1]] - 1)} = {}
      BY <2>2
    <2>4. Cardinality({}) = 0 /\ LimitedTo[k[1]] \in Nat
      BY FS_EmptySet, LimitKeys
    <2>5. 0 <= LimitedTo[k[1]]
      BY <2>4
    <2>6. QED
      BY <2>3, <2>4, <2>5
  <1>4. WaitsAreExact
    BY DEF LimitsInit, WaitsAreExact
  <1>5. QED
    BY <1>1, <1>2, <1>3, <1>4 DEF LimitsInv

(* Time, a sweep and a restart change no call that passed and is counted   *)
(* still, and no refusal.                                                  *)
LEMMA TimeKeeps ==
    ASSUME NEW span \in Nat \ {0}, NEW limit \in Nat, NEW now \in Nat, NEW later \in Nat, now <= later,
           NEW last, NEW all, EndOf(last, all, span, limit, now)
    PROVE  EndOf(last, all, span, limit, later)
  <1>1. /\ last \in Seq(Nat) /\ all \in Seq(Nat) /\ Len(last) \in Nat /\ Len(all) \in Nat
        /\ Len(last) <= Len(all)
    BY DEF EndOf
  <1>2. ASSUME NEW i \in 1..Len(all) PROVE all[i] \in 1..later
    <2>1. all[i] \in 1..now
      BY DEF EndOf
    <2>2. QED
      BY <2>1
  <1>3. ASSUME NEW i \in 1..(Len(all) - Len(last)) PROVE all[i] + span <= later
    <2>1. all[i] + span <= now /\ i \in 1..Len(all)
      BY <1>1 DEF EndOf
    <2>2. all[i] \in Nat
      BY <1>1, <2>1
    <2>3. QED
      BY <2>1, <2>2
  <1>4. QED
    BY <1>1, <1>2, <1>3 DEF EndOf

(* A step that lets no call through and refuses none.                      *)
LEMMA LimitsIdle ==
    ASSUME LimitsInv,
           \/ SweepWindows
           \/ RestartLimits
           \/ NextSecond
           \/ UNCHANGED limitsVars
    PROVE  LimitsInv'
  <1>1. /\ second \in Nat \ {0} /\ second' \in Nat \ {0} /\ second <= second'
    BY DEF LimitsInv, SweepWindows, RestartLimits, NextSecond, limitsVars
  <1>2. /\ windows \in [Keys -> Seq(Nat)] /\ passed \in [Keys -> Seq(Nat)]
        /\ refusedAt \in [Keys -> [at : Nat, wait : Nat]]
        /\ \A k \in Keys : EndOf(windows[k], passed[k], WindowOf[k[1]], LimitedTo[k[1]], second)
    BY DEF LimitsInv, KeyHolds
  <1>3. CASE RestartLimits
    <2>1. /\ windows' = [k \in Keys |-> <<>>] /\ passed' = [k \in Keys |-> <<>>]
          /\ refusedAt' = [k \in Keys |-> Never]
      BY <1>3 DEF RestartLimits
    <2>2. /\ windows' \in [Keys -> Seq(Nat)] /\ passed' \in [Keys -> Seq(Nat)]
          /\ refusedAt' \in [Keys -> [at : Nat, wait : Nat]]
      BY <2>1 DEF Never
    <2>3. \A k \in Keys : KeyHolds(k)'
      <3>1. SUFFICES ASSUME NEW k \in Keys
                     PROVE  EndOf(windows'[k], passed'[k], WindowOf[k[1]], LimitedTo[k[1]], second')
        BY DEF KeyHolds
      <3>2. windows'[k] = <<>> /\ passed'[k] = <<>> /\ Len(<<>>) = 0 /\ <<>> \in Seq(Nat)
        BY <2>1
      <3>3. LimitedTo[k[1]] \in Nat
        BY LimitKeys
      <3>4. QED
        BY <3>2, <3>3 DEF EndOf
    <2>4. WindowsHold'
      <3>1. SUFFICES ASSUME NEW k \in Keys, NEW start \in 1..LastSecond, LimitedTo[k[1]] > 0
                     PROVE  Cardinality({i \in DOMAIN passed'[k] :
                               passed'[k][i] \in start..(start + WindowOf[k[1]] - 1)}) <= LimitedTo[k[1]]
        BY DEF WindowsHold
      <3>2. passed'[k] = <<>>
        BY <2>1
      <3>3. {i \in DOMAIN passed'[k] : passed'[k][i] \in start..(start + WindowOf[k[1]] - 1)} = {}
        BY <3>2
      <3>4. Cardinality({}) = 0 /\ LimitedTo[k[1]] \in Nat
        BY FS_EmptySet, LimitKeys
      <3>5. QED
        BY <3>3, <3>4
    <2>5. WaitsAreExact'
      BY <2>1 DEF WaitsAreExact
    <2>6. QED
      BY <1>1, <2>2, <2>3, <2>4, <2>5 DEF LimitsInv
  <1>4. CASE ~RestartLimits
    <2>1. UNCHANGED <<passed, refusedAt>>
      BY <1>4 DEF SweepWindows, NextSecond, limitsVars
    <2>2. WindowsHold' /\ WaitsAreExact'
      BY <2>1 DEF LimitsInv, WindowsHold, WaitsAreExact
    <2>3. CASE UNCHANGED windows
      <3>1. ASSUME NEW k \in Keys PROVE EndOf(windows[k], passed[k], WindowOf[k[1]], LimitedTo[k[1]], second')
        BY <1>1, <1>2, LimitKeys, TimeKeeps
      <3>2. QED
        BY <1>1, <1>2, <2>1, <2>2, <2>3, <3>1 DEF LimitsInv, KeyHolds
    <2>4. CASE SweepWindows
      <3>1. /\ windows' = [k \in Keys |->
                              IF windows[k] # <<>> /\ Last(windows[k]) + WindowOf[k[1]] > second
                              THEN windows[k] ELSE <<>>]
            /\ second' = second
        BY <2>4 DEF SweepWindows
      <3>2. windows' \in [Keys -> Seq(Nat)]
        BY <1>2, <3>1
      <3>3. ASSUME NEW k \in Keys
            PROVE  EndOf(windows'[k], passed[k], WindowOf[k[1]], LimitedTo[k[1]], second)
        <4>1. CASE windows[k] # <<>> /\ Last(windows[k]) + WindowOf[k[1]] > second
          BY <1>2, <3>1, <4>1
        <4>2. CASE ~(windows[k] # <<>> /\ Last(windows[k]) + WindowOf[k[1]] > second)
          <5>1. windows'[k] = <<>>
            BY <3>1, <4>2
          <5>2. WindowOf[k[1]] \in Nat \ {0} /\ LimitedTo[k[1]] \in Nat
            BY LimitKeys
          <5>3. windows[k] = <<>> \/ windows[k][Len(windows[k])] + WindowOf[k[1]] <= second
            <6>1. SUFFICES ASSUME windows[k] # <<>>
                           PROVE  windows[k][Len(windows[k])] + WindowOf[k[1]] <= second
              OBVIOUS
            <6>2. windows[k][Len(windows[k])] \in Nat
              BY <1>2, <6>1
            <6>3. ~(windows[k][Len(windows[k])] + WindowOf[k[1]] > second)
              BY <4>2, <6>1 DEF Last
            <6>4. QED
              BY <1>1, <5>2, <6>2, <6>3
          <5>4. QED
            BY <1>1, <1>2, <5>1, <5>2, <5>3, DropAll
        <4>3. QED
          BY <4>1, <4>2
      <3>4. QED
        BY <1>1, <1>2, <2>1, <2>2, <3>1, <3>2, <3>3 DEF LimitsInv, KeyHolds
    <2>5. QED
      BY <1>4, <2>3, <2>4 DEF NextSecond, limitsVars
  <1>5. QED
    BY <1>3, <1>4

(* A call that is let through, and one that is refused.                    *)
LEMMA CheckKeeps ==
    ASSUME LimitsInv, NEW bucket \in Buckets, NEW caller \in Callers, CheckLimit(bucket, caller)
    PROVE  LimitsInv'
  <1> DEFINE k == <<bucket, caller>>
             c == Counted(windows[k], bucket, second)
             limit == LimitedTo[bucket]
             says == [at |-> second, wait |-> RetryAfter(c, bucket, second)]
  <1>1. /\ k \in Keys /\ k[1] = bucket
        /\ WindowOf[bucket] \in Nat \ {0} /\ limit \in Nat \ {0} /\ limit > 0
    BY LimitsAssumption DEF Keys, CheckLimit
  <1>2. /\ windows \in [Keys -> Seq(Nat)] /\ passed \in [Keys -> Seq(Nat)]
        /\ refusedAt \in [Keys -> [at : Nat, wait : Nat]] /\ second \in Nat \ {0} /\ second' = second
    BY DEF LimitsInv, CheckLimit
  <1>3. /\ \A j \in Keys : EndOf(windows[j], passed[j], WindowOf[j[1]], LimitedTo[j[1]], second)
        /\ WindowsHold /\ WaitsAreExact
    BY DEF LimitsInv, KeyHolds
  <1>4. /\ EndOf(c, passed[k], WindowOf[bucket], limit, second)
        /\ \A i \in 1..Len(c) : c[i] + WindowOf[bucket] > second
        /\ c \in Seq(Nat) /\ Len(c) \in Nat
    <2>1. EndOf(windows[k], passed[k], WindowOf[bucket], limit, second)
      BY <1>1, <1>3
    <2>2. EndOf(c, passed[k], WindowOf[bucket], limit, second)
      BY <1>1, <1>2, <2>1, DropAged
    <2>3. c \in Seq(Nat)
      BY <2>2 DEF EndOf
    <2>4. \A i \in 1..Len(c) : c[i] + WindowOf[bucket] > second
      BY <1>1, <1>2, <2>1, DropAged
    <2>5. Len(c) \in Nat
      BY <2>3
    <2>6. QED
      BY <2>2, <2>3, <2>4, <2>5
  <1>5. \/ /\ Len(c) >= limit
           /\ windows' = [windows EXCEPT ![k] = c]
           /\ refusedAt' = [refusedAt EXCEPT ![k] = says]
           /\ passed' = passed
        \/ /\ ~(Len(c) >= limit)
           /\ windows' = [windows EXCEPT ![k] = Append(c, second)]
           /\ passed' = [passed EXCEPT ![k] = Append(@, second)]
           /\ refusedAt' = [refusedAt EXCEPT ![k] = Never]
    BY DEF CheckLimit
  <1> HIDE DEF k, c, limit, says
  <1>6. CASE /\ Len(c) >= limit
             /\ windows' = [windows EXCEPT ![k] = c]
             /\ refusedAt' = [refusedAt EXCEPT ![k] = says]
             /\ passed' = passed
    <2>1. /\ RetryAfter(c, bucket, second) \in Nat
          /\ Len(Counted(passed[k], bucket, second + RetryAfter(c, bucket, second))) < limit
          /\ \A later \in second..(second + RetryAfter(c, bucket, second) - 1) :
                Len(Counted(passed[k], bucket, later)) >= limit
      BY <1>1, <1>2, <1>4, <1>6, RefusalIsExact
    <2>2. says \in [at : Nat, wait : Nat] /\ says.at = second /\ says.wait = RetryAfter(c, bucket, second)
      BY <1>2, <2>1 DEF says
    <2>3. /\ windows' \in [Keys -> Seq(Nat)] /\ refusedAt' \in [Keys -> [at : Nat, wait : Nat]]
          /\ passed' \in [Keys -> Seq(Nat)]
      BY <1>1, <1>2, <1>4, <1>6, <2>2
    <2>4. ASSUME NEW j \in Keys
          PROVE  EndOf(windows'[j], passed'[j], WindowOf[j[1]], LimitedTo[j[1]], second')
      <3>1. CASE j = k
        BY <1>1, <1>2, <1>4, <1>6, <3>1 DEF limit
      <3>2. CASE j # k
        BY <1>2, <1>3, <1>6, <3>2
      <3>3. QED
        BY <3>1, <3>2
    <2>5. WindowsHold'
      BY <1>3, <1>6 DEF WindowsHold
    <2>6. WaitsAreExact'
      <3>1. SUFFICES ASSUME NEW j \in Keys, refusedAt'[j] # Never
                     PROVE  /\ Len(Counted(passed'[j], j[1], refusedAt'[j].at + refusedAt'[j].wait))
                                   < LimitedTo[j[1]]
                            /\ \A now \in refusedAt'[j].at..(refusedAt'[j].at + refusedAt'[j].wait - 1) :
                                  Len(Counted(passed'[j], j[1], now)) >= LimitedTo[j[1]]
        BY DEF WaitsAreExact
      <3>2. CASE j = k
        BY <1>1, <1>2, <1>6, <2>1, <2>2, <3>2 DEF limit
      <3>3. CASE j # k
        <4>1. refusedAt'[j] = refusedAt[j] /\ passed'[j] = passed[j]
          BY <1>2, <1>6, <3>3
        <4>2. QED
          BY <1>3, <3>1, <4>1 DEF WaitsAreExact
      <3>4. QED
        BY <3>2, <3>3
    <2>7. QED
      BY <1>2, <2>3, <2>4, <2>5, <2>6 DEF LimitsInv, KeyHolds
  <1>7. CASE /\ ~(Len(c) >= limit)
             /\ windows' = [windows EXCEPT ![k] = Append(c, second)]
             /\ passed' = [passed EXCEPT ![k] = Append(@, second)]
             /\ refusedAt' = [refusedAt EXCEPT ![k] = Never]
    <2>1. /\ windows'[k] = Append(c, second) /\ passed'[k] = Append(passed[k], second)
          /\ refusedAt'[k] = Never
          /\ \A j \in Keys : j # k => /\ windows'[j] = windows[j] /\ passed'[j] = passed[j]
                                       /\ refusedAt'[j] = refusedAt[j]
      BY <1>1, <1>2, <1>7
    <2>2. /\ windows' \in [Keys -> Seq(Nat)] /\ refusedAt' \in [Keys -> [at : Nat, wait : Nat]]
          /\ passed' \in [Keys -> Seq(Nat)]
      <3>1. Append(c, second) \in Seq(Nat) /\ Append(passed[k], second) \in Seq(Nat)
        BY <1>1, <1>2, <1>4
      <3>2. Never \in [at : Nat, wait : Nat]
        BY DEF Never
      <3>3. QED
        BY <1>1, <1>2, <1>7, <3>1, <3>2
    <2>3. Len(c) < limit
      BY <1>1, <1>4, <1>7
    <2>4. ASSUME NEW j \in Keys
          PROVE  EndOf(windows'[j], passed'[j], WindowOf[j[1]], LimitedTo[j[1]], second')
      <3>1. CASE j = k
        <4>1. EndOf(Append(c, second), Append(passed[k], second), WindowOf[bucket], limit, second)
          BY <1>1, <1>2, <1>4, <2>3, LetThrough
        <4>2. QED
          BY <1>1, <1>2, <2>1, <3>1, <4>1 DEF limit
      <3>2. CASE j # k
        BY <1>2, <1>3, <2>1, <3>2
      <3>3. QED
        BY <3>1, <3>2
    <2>5. WindowsHold'
      <3>1. SUFFICES ASSUME NEW j \in Keys, NEW start \in 1..LastSecond, LimitedTo[j[1]] > 0
                     PROVE  Cardinality({i \in DOMAIN passed'[j] :
                               passed'[j][i] \in start..(start + WindowOf[j[1]] - 1)}) <= LimitedTo[j[1]]
        BY DEF WindowsHold
      <3>2. CASE j = k
        <4>1. Cardinality(CallsIn(passed[k], start, WindowOf[bucket])) <= limit
          BY <1>1, <1>3 DEF WindowsHold, CallsIn, limit
        <4>2. start \in Nat
          BY LimitsAssumption
        <4>3. Cardinality(CallsIn(Append(passed[k], second), start, WindowOf[bucket])) <= limit
          BY <1>1, <1>2, <1>4, <2>3, <4>1, <4>2, WindowStaysFull
        <4>4. QED
          BY <1>1, <2>1, <3>2, <4>3 DEF CallsIn, limit
      <3>3. CASE j # k
        BY <1>3, <2>1, <3>1, <3>3 DEF WindowsHold
      <3>4. QED
        BY <3>2, <3>3
    <2>6. WaitsAreExact'
      BY <1>3, <2>1 DEF WaitsAreExact
    <2>7. QED
      BY <1>2, <2>2, <2>4, <2>5, <2>6 DEF LimitsInv, KeyHolds
  <1>8. QED
    BY <1>5, <1>6, <1>7

LEMMA LimitsStep == LimitsInv /\ [LimitsNext]_limitsVars => LimitsInv'
  <1> SUFFICES ASSUME LimitsInv, [LimitsNext]_limitsVars PROVE LimitsInv'
    OBVIOUS
  <1>1. ASSUME NEW caller \in Callers, NEW path \in Paths, NEW token \in BOOLEAN, EnforceLimit(caller, path, token)
        PROVE  LimitsInv'
    <2>1. PICK bucket \in Classify(path, token) : CheckLimit(bucket, caller)
      BY <1>1 DEF EnforceLimit
    <2>2. bucket \in Buckets
      BY DEF Classify, Buckets
    <2>3. QED
      BY <2>1, <2>2, CheckKeeps
  <1>2. ASSUME NEW workspace \in Callers, CountChatTurn(workspace) PROVE LimitsInv'
    <2>1. "chat" \in Buckets
      BY DEF Buckets
    <2>2. QED
      BY <1>2, <2>1, CheckKeeps DEF CountChatTurn
  <1>3. CASE SweepWindows \/ RestartLimits \/ NextSecond \/ UNCHANGED limitsVars
    BY <1>3, LimitsIdle
  <1>4. QED
    BY <1>1, <1>2, <1>3 DEF LimitsNext

LEMMA LimitsAlways == LimitsSpec => []LimitsInv
  BY LimitsStart, LimitsStep, PTL DEF LimitsSpec

(* A sliding window (limits.rs check): in no window of time do more calls  *)
(* pass than the limit says, at whatever moment it begins.                 *)
THEOREM WindowsAreKept == LimitsSpec => []WindowsHold
  <1>1. LimitsInv => WindowsHold
    BY DEF LimitsInv
  <1>2. QED
    BY <1>1, LimitsAlways, PTL

(* A caller that waits as long as it was told passes, and a caller that    *)
(* comes back a second earlier does not.                                   *)
THEOREM WaitsAreTold == LimitsSpec => []WaitsAreExact
  <1>1. LimitsInv => WaitsAreExact
    BY DEF LimitsInv
  <1>2. QED
    BY <1>1, LimitsAlways, PTL

(***************************************************************************)
(* The calls of a chat's tools.                                            *)
(*                                                                         *)
(* A call that still has a check before it names its turn, and one that    *)
(* has an entry before it names its entry; a row is open for a delete only *)
(* if it was put to the user.                                              *)
(***************************************************************************)
Budgets == [writes : Nat, deletes : Nat, created : Nat]
ToolCalls == [at : {"idle", "gate", "ask", "reserve", "work", "found", "clear"}, name : Tools,
              turn : Turns \cup {NoTurn}, chat : Chats \cup {NoChat},
              entry : Entries \cup {NoEntry}, confirmed : BOOLEAN, seen : 0..MaxEdits]

TurnsTold ==
    /\ turn \in [Turns -> [state : {"unknown", "open", "gone"}, budget : Budgets]]
    /\ spent \in [Turns -> Budgets]
    /\ \A t \in Turns :
          /\ turn[t].budget = (IF turn[t].state = "open" THEN spent[t] ELSE NoBudget)
          /\ turn[t].state = "unknown" => spent[t] = NoBudget

CallsTyped ==
    /\ challenge \in [Chats \X Entries -> BOOLEAN]
    /\ put \in [Chats \X Entries -> Turns \cup {NoTurn}]
    /\ entry \in [Entries -> [live : BOOLEAN, name : 0..MaxEdits]]
    /\ tool \in [Relayed -> ToolCalls]

CallsNamed ==
    \A c \in Relayed :
       /\ tool[c].at \in {"gate", "ask", "reserve"} => tool[c].turn \in Turns
       /\ tool[c].at \in {"gate", "ask", "clear"} => tool[c].name = "delete"
       /\ tool[c].at \in {"work", "found"} => tool[c].entry \in Entries
       /\ tool[c].at # "idle" /\ tool[c].name = "delete"
             => tool[c].chat \in Chats /\ tool[c].entry \in Entries

OpenWasPut == \A k \in Chats \X Entries : challenge[k] => put[k] # NoTurn

ToolsInv ==
    /\ TurnsTold /\ CallsTyped /\ CallsNamed /\ OpenWasPut
    /\ TurnKeepsCaps /\ DeletesWereAsked

LEMMA ToolsStart == ChatToolsInit => ToolsInv
  <1> SUFFICES ASSUME ChatToolsInit PROVE ToolsInv
    OBVIOUS
  <1>1. NoBudget \in Budgets /\ WithinCaps(NoBudget)
    BY ChatToolsAssumption DEF NoBudget, Budgets, WithinCaps
  <1>2. IdleTool \in ToolCalls /\ IdleTool.at = "idle"
    BY ChatToolsAssumption DEF IdleTool, ToolCalls, Tools
  <1>3. TurnsTold
    BY <1>1 DEF ChatToolsInit, TurnsTold
  <1>4. CallsTyped
    BY <1>2, ChatToolsAssumption DEF ChatToolsInit, CallsTyped
  <1>5. CallsNamed /\ DeletesWereAsked
    BY <1>2 DEF ChatToolsInit, CallsNamed, DeletesWereAsked
  <1>6. OpenWasPut /\ TurnKeepsCaps
    BY <1>1 DEF ChatToolsInit, OpenWasPut, TurnKeepsCaps
  <1>7. QED
    BY <1>3, <1>4, <1>5, <1>6 DEF ToolsInv

(* A call that moves on, or is answered, beside turns, rows and questions  *)
(* that stay as they are.                                                  *)
LEMMA CallMovesOn ==
    ASSUME ToolsInv, UNCHANGED <<turn, spent, challenge, put>>,
           entry' \in [Entries -> [live : BOOLEAN, name : 0..MaxEdits]],
           NEW c \in Relayed, NEW work \in ToolCalls, tool' = [tool EXCEPT ![c] = work],
           work.at \in {"gate", "ask", "reserve"} => work.turn \in Turns,
           work.at \in {"gate", "ask", "clear"} => work.name = "delete",
           work.at \in {"work", "found"} => work.entry \in Entries,
           work.at # "idle" /\ work.name = "delete"
                => work.chat \in Chats /\ work.entry \in Entries,
           work.name = "delete" /\ work.at \in {"reserve", "work", "found", "clear"}
                => put[<<work.chat, work.entry>>] # NoTurn
    PROVE  ToolsInv'
  <1>1. \A d \in Relayed : tool'[d] = IF d = c THEN work ELSE tool[d]
    BY DEF ToolsInv, CallsTyped
  <1>2. CallsTyped'
    BY DEF ToolsInv, CallsTyped
  <1>3. CallsNamed'
    BY <1>1 DEF ToolsInv, CallsNamed
  <1>4. DeletesWereAsked'
    BY <1>1 DEF ToolsInv, DeletesWereAsked, ChallengeOf
  <1>5. TurnsTold' /\ OpenWasPut' /\ TurnKeepsCaps'
    BY DEF ToolsInv, TurnsTold, OpenWasPut, TurnKeepsCaps
  <1>6. QED
    BY <1>2, <1>3, <1>4, <1>5 DEF ToolsInv

LEMMA CallAnswered ==
    ASSUME ToolsInv, UNCHANGED <<turn, spent, challenge, put>>,
           entry' \in [Entries -> [live : BOOLEAN, name : 0..MaxEdits]],
           NEW c \in Relayed, AnswerTool(c)
    PROVE  ToolsInv'
  <1>1. IdleTool \in ToolCalls /\ IdleTool.at = "idle"
    BY ChatToolsAssumption DEF IdleTool, ToolCalls, Tools
  <1>2. QED
    BY <1>1, CallMovesOn DEF AnswerTool

(* What the turns and the questions do around the calls.                   *)
LEMMA AroundTools ==
    ASSUME ToolsInv,
           \/ \E t \in Turns : OpenTurn(t) \/ TurnAges(t)
           \/ \E k \in Chats \X Entries : ChallengeAges(k)
           \/ RestartApi
           \/ \E e \in Entries : EditInWeb(e) \/ DeleteInWeb(e)
    PROVE  ToolsInv'
  <1>1. NoBudget \in Budgets
    BY DEF NoBudget, Budgets
  <1>2. CASE \E t \in Turns : OpenTurn(t) \/ TurnAges(t)
    <2>1. PICK t \in Turns : OpenTurn(t) \/ TurnAges(t)
      BY <1>2
    <2>2. TurnsTold'
      BY <1>1, <2>1 DEF ToolsInv, TurnsTold, OpenTurn, TurnAges
    <2>3. UNCHANGED <<challenge, entry, tool, put, spent>>
      BY <2>1 DEF OpenTurn, TurnAges
    <2>4. QED
      BY <2>2, <2>3 DEF ToolsInv, CallsTyped, CallsNamed, OpenWasPut, TurnKeepsCaps,
                        DeletesWereAsked, ChallengeOf
  <1>3. CASE \E k \in Chats \X Entries : ChallengeAges(k)
    <2>1. PICK k \in Chats \X Entries : ChallengeAges(k)
      BY <1>3
    <2>2. UNCHANGED <<turn, entry, tool, put, spent>>
      BY <2>1 DEF ChallengeAges
    <2>3. CallsTyped' /\ OpenWasPut'
      BY <2>1 DEF ToolsInv, CallsTyped, OpenWasPut, ChallengeAges
    <2>4. QED
      BY <2>2, <2>3 DEF ToolsInv, TurnsTold, CallsNamed, TurnKeepsCaps, DeletesWereAsked,
                        ChallengeOf
  <1>4. CASE RestartApi
    <2>1. IdleTool \in ToolCalls /\ IdleTool.at = "idle"
      BY ChatToolsAssumption DEF IdleTool, ToolCalls, Tools
    <2>2. TurnsTold'
      BY <1>1, <1>4 DEF ToolsInv, TurnsTold, RestartApi
    <2>3. UNCHANGED <<entry, put, spent>>
      BY <1>4 DEF RestartApi
    <2>4. CallsTyped' /\ OpenWasPut'
      BY <1>4, <2>1 DEF ToolsInv, CallsTyped, OpenWasPut, RestartApi
    <2>5. CallsNamed' /\ DeletesWereAsked'
      BY <1>4, <2>1 DEF CallsNamed, DeletesWereAsked, RestartApi
    <2>6. QED
      BY <2>2, <2>3, <2>4, <2>5 DEF ToolsInv, TurnKeepsCaps
  <1>5. CASE \E e \in Entries : EditInWeb(e) \/ DeleteInWeb(e)
    <2>1. PICK e \in Entries : EditInWeb(e) \/ DeleteInWeb(e)
      BY <1>5
    <2>2. UNCHANGED <<turn, challenge, tool, put, spent>>
      BY <2>1 DEF EditInWeb, DeleteInWeb
    <2>3. entry' \in [Entries -> [live : BOOLEAN, name : 0..MaxEdits]]
      <3>1. entry \in [Entries -> [live : BOOLEAN, name : 0..MaxEdits]] /\ MaxEdits \in Nat
        BY ChatToolsAssumption DEF ToolsInv, CallsTyped
      <3>2. CASE EditInWeb(e)
        <4>1. entry[e].name + 1 \in 0..MaxEdits
          BY <3>1, <3>2 DEF EditInWeb
        <4>2. PICK n \in 0..MaxEdits : n = entry[e].name + 1
          BY <4>1
        <4>3. [entry[e] EXCEPT !.name = n] \in [live : BOOLEAN, name : 0..MaxEdits]
          BY <3>1
        <4>4. entry' = [entry EXCEPT ![e] = [entry[e] EXCEPT !.name = n]]
          BY <3>1, <3>2, <4>2 DEF EditInWeb
        <4>5. QED
          BY <3>1, <4>3, <4>4
      <3>3. CASE DeleteInWeb(e)
        BY <3>1, <3>3 DEF DeleteInWeb
      <3>4. QED
        BY <2>1, <3>2, <3>3
    <2>4. QED
      BY <2>2, <2>3 DEF ToolsInv, TurnsTold, CallsTyped, CallsNamed, OpenWasPut, TurnKeepsCaps,
                        DeletesWereAsked, ChallengeOf
  <1>6. QED
    BY <1>2, <1>3, <1>4, <1>5

(* A charge is counted in the turn and in what it did at once.             *)
LEMMA ReserveKeeps ==
    ASSUME ToolsInv, NEW c \in Relayed, Reserve(c)
    PROVE  ToolsInv'
  <1>1. PICK t \in Turns : t = tool[c].turn
    BY DEF ToolsInv, CallsNamed, Reserve
  <1>2. CASE AnswerTool(c) /\ UNCHANGED <<turn, spent>>
    <2>1. UNCHANGED <<turn, spent, challenge, put>> /\ entry' \in [Entries -> [live : BOOLEAN, name : 0..MaxEdits]]
      BY <1>2 DEF Reserve, ToolsInv, CallsTyped
    <2>2. QED
      BY <1>2, <2>1, CallAnswered
  <1>3. CASE ~(AnswerTool(c) /\ UNCHANGED <<turn, spent>>)
    <2> DEFINE charged == Charge(turn[t].budget, tool[c].name)
    <2>1. /\ turn[t].state = "open" /\ WithinCaps(charged)
          /\ turn' = [turn EXCEPT ![t].budget = charged]
          /\ Reserved(c, t) /\ UNCHANGED <<challenge, entry, put>>
      BY <1>1, <1>3 DEF Reserve
    <2>2. turn[t].budget = spent[t] /\ charged \in Budgets /\ charged = Charge(spent[t], tool[c].name)
      BY <2>1 DEF ToolsInv, TurnsTold, Charge, Budgets
    <2> HIDE DEF charged
    <2>3. spent' = [spent EXCEPT ![t] = charged]
      BY <2>1, <2>2 DEF Reserved, ToolsInv, TurnsTold
    <2>4. TurnsTold'
      BY <2>1, <2>2, <2>3 DEF ToolsInv, TurnsTold
    <2>5. TurnKeepsCaps'
      BY <2>1, <2>3 DEF ToolsInv, TurnsTold, TurnKeepsCaps
    <2>6. PICK work \in ToolCalls :
              /\ tool' = [tool EXCEPT ![c] = work]
              /\ \/ work.at = "idle"
                 \/ /\ work.at = "work" /\ work.name = tool[c].name /\ work.chat = tool[c].chat
                    /\ work.entry = tool[c].entry /\ work.entry # NoEntry
      <3>1. CASE tool[c].entry = NoEntry
        <4>1. IdleTool \in ToolCalls /\ IdleTool.at = "idle"
          BY ChatToolsAssumption DEF IdleTool, ToolCalls, Tools
        <4>2. tool' = [tool EXCEPT ![c] = IdleTool]
          BY <2>1, <3>1 DEF Reserved, AnswerTool
        <4>3. QED
          BY <4>1, <4>2
      <3>2. CASE tool[c].entry # NoEntry
        <4> DEFINE w == [tool[c] EXCEPT !.at = "work", !.turn = NoTurn]
        <4>1. tool[c] \in ToolCalls
          BY DEF ToolsInv, CallsTyped
        <4>2. /\ w \in ToolCalls /\ w.at = "work" /\ w.name = tool[c].name
              /\ w.chat = tool[c].chat /\ w.entry = tool[c].entry
          BY <4>1 DEF ToolCalls
        <4>3. tool' = [tool EXCEPT ![c] = w]
          BY <2>1, <3>2 DEF Reserved, ToolsInv, CallsTyped
        <4>4. QED
          BY <3>2, <4>2, <4>3
      <3>3. QED
        BY <3>1, <3>2
    <2>7. \A d \in Relayed : tool'[d] = IF d = c THEN work ELSE tool[d]
      BY <2>6 DEF ToolsInv, CallsTyped
    <2>8. tool[c].at = "reserve" /\ tool[c] \in ToolCalls
      BY DEF Reserve, ToolsInv, CallsTyped
    <2>9. CallsTyped'
      BY <2>1, <2>6 DEF ToolsInv, CallsTyped
    <2>10. CallsNamed'
      BY <2>6, <2>7, <2>8 DEF ToolsInv, CallsNamed, ToolCalls
    <2>11. DeletesWereAsked'
      BY <2>1, <2>6, <2>7, <2>8 DEF ToolsInv, DeletesWereAsked, ChallengeOf
    <2>12. OpenWasPut'
      BY <2>1 DEF ToolsInv, OpenWasPut
    <2>13. QED
      BY <2>4, <2>5, <2>9, <2>10, <2>11, <2>12 DEF ToolsInv
  <1>4. QED
    BY <1>2, <1>3

(* The steps of a call that ask and clear.                                 *)
LEMMA AskKeeps ==
    ASSUME ToolsInv, NEW c \in Relayed, AskUser(c) \/ ClearChallenge(c)
    PROVE  ToolsInv'
  <1>1. PICK k \in Chats \X Entries : k = ChallengeOf(c)
    BY DEF ToolsInv, CallsNamed, AskUser, ClearChallenge, ChallengeOf
  <1>2. UNCHANGED <<turn, entry, spent>> /\ tool' = [tool EXCEPT ![c] = IdleTool]
    BY DEF AskUser, ClearChallenge, AnswerTool
  <1>3. IdleTool \in ToolCalls /\ IdleTool.at = "idle"
    BY ChatToolsAssumption DEF IdleTool, ToolCalls, Tools
  <1>4. \A d \in Relayed : tool'[d] = IF d = c THEN IdleTool ELSE tool[d]
    BY <1>2 DEF ToolsInv, CallsTyped
  <1>5. \A j \in Chats \X Entries : /\ put[j] # NoTurn => put'[j] # NoTurn
                                    /\ challenge'[j] => (put'[j] # NoTurn)
    BY <1>1, ChatToolsAssumption
       DEF ToolsInv, CallsTyped, CallsNamed, OpenWasPut, AskUser, ClearChallenge
  <1>6. CallsTyped'
    BY <1>1, <1>2, <1>3 DEF ToolsInv, CallsTyped, CallsNamed, AskUser, ClearChallenge
  <1>7. CallsNamed'
    BY <1>3, <1>4 DEF ToolsInv, CallsNamed
  <1>8. DeletesWereAsked'
    <2>1. SUFFICES ASSUME NEW d \in Relayed, tool'[d].name = "delete",
                          tool'[d].at \in {"reserve", "work", "found", "clear"}
                   PROVE  put'[<<tool'[d].chat, tool'[d].entry>>] # NoTurn
      BY DEF DeletesWereAsked, ChallengeOf
    <2>2. tool'[d] = tool[d]
      BY <1>3, <1>4, <2>1
    <2>3. <<tool[d].chat, tool[d].entry>> \in Chats \X Entries
      BY <2>1, <2>2 DEF ToolsInv, CallsNamed
    <2>4. put[<<tool[d].chat, tool[d].entry>>] # NoTurn
      BY <2>1, <2>2 DEF ToolsInv, DeletesWereAsked, ChallengeOf
    <2>5. QED
      BY <1>5, <2>2, <2>3, <2>4
  <1>9. OpenWasPut'
    BY <1>5 DEF OpenWasPut
  <1>10. TurnsTold' /\ TurnKeepsCaps'
    BY <1>2 DEF ToolsInv, TurnsTold, TurnKeepsCaps
  <1>11. QED
    BY <1>6, <1>7, <1>8, <1>9, <1>10 DEF ToolsInv

(* Any other step of a call.                                               *)
LEMMA ToolStepKeeps ==
    ASSUME ToolsInv, NEW c \in Relayed, ToolStep(c)
    PROVE  ToolsInv'
  <1>1. tool[c] \in ToolCalls /\ entry \in [Entries -> [live : BOOLEAN, name : 0..MaxEdits]]
    BY DEF ToolsInv, CallsTyped
  <1>2. ASSUME NEW t \in Turns, NEW s \in Chats \cup {NoChat}, NEW name \in Tools,
               NEW e \in Entries \cup {NoEntry}, NEW confirmed \in BOOLEAN,
               RelayTool(c, t, s, name, e, confirmed)
        PROVE  ToolsInv'
    <2> DEFINE w == [at |-> IF name = "delete" THEN "gate" ELSE "reserve", name |-> name, turn |-> t,
                     chat |-> s, entry |-> e, confirmed |-> confirmed, seen |-> 0]
    <2>1. /\ w \in ToolCalls /\ w.at \in {"gate", "reserve"} /\ w.turn \in Turns
          /\ w.at = "reserve" => w.name # "delete"
          /\ w.at = "gate" => w.name = "delete"
          /\ w.name = "delete" => w.chat \in Chats /\ w.entry \in Entries
      BY <1>2, ChatToolsAssumption DEF RelayTool, ToolCalls
    <2>2. /\ tool' = [tool EXCEPT ![c] = w] /\ UNCHANGED <<turn, spent, challenge, put>>
          /\ entry' = entry
      BY <1>2 DEF RelayTool
    <2> HIDE DEF w
    <2>3. QED
      BY <1>1, <2>1, <2>2, CallMovesOn
  <1>3. CASE PassGate(c)
    <2> DEFINE w == [tool[c] EXCEPT !.at = "reserve", !.confirmed = FALSE]
    <2>1. /\ w \in ToolCalls /\ w.at = "reserve" /\ w.turn = tool[c].turn /\ w.name = tool[c].name
          /\ w.chat = tool[c].chat /\ w.entry = tool[c].entry
      BY <1>1 DEF ToolCalls
    <2>2. /\ tool' = [tool EXCEPT ![c] = w] /\ UNCHANGED <<turn, spent, challenge, put>>
          /\ entry' = entry
      BY <1>3 DEF PassGate, ToolsInv, CallsTyped
    <2>3. /\ tool[c].turn \in Turns /\ tool[c].name = "delete" /\ tool[c].chat \in Chats
          /\ tool[c].entry \in Entries /\ put[<<tool[c].chat, tool[c].entry>>] # NoTurn
      BY <1>3 DEF PassGate, Confirmed, ChallengeOf, ToolsInv, CallsNamed, OpenWasPut
    <2> HIDE DEF w
    <2>4. QED
      BY <1>1, <2>1, <2>2, <2>3, CallMovesOn
  <1>4. CASE FindToAsk(c)
    <2>1. UNCHANGED <<turn, spent, challenge, put, entry>>
      BY <1>4 DEF FindToAsk
    <2>2. CASE AnswerTool(c)
      BY <1>1, <2>1, <2>2, CallAnswered
    <2>3. CASE ~AnswerTool(c)
      <3> DEFINE w == [tool[c] EXCEPT !.at = "ask"]
      <3>1. /\ w \in ToolCalls /\ w.at = "ask" /\ w.turn = tool[c].turn /\ w.name = tool[c].name
            /\ w.chat = tool[c].chat /\ w.entry = tool[c].entry
        BY <1>1 DEF ToolCalls
      <3>2. tool' = [tool EXCEPT ![c] = w]
        BY <1>4, <2>3 DEF FindToAsk, ToolsInv, CallsTyped
      <3>3. /\ tool[c].turn \in Turns /\ tool[c].name = "delete" /\ tool[c].chat \in Chats
            /\ tool[c].entry \in Entries
        BY <1>4 DEF FindToAsk, ToolsInv, CallsNamed
      <3> HIDE DEF w
      <3>4. QED
        BY <1>1, <2>1, <3>1, <3>2, <3>3, CallMovesOn
    <2>4. QED
      BY <2>2, <2>3
  <1>5. CASE AskUser(c) \/ ClearChallenge(c)
    BY <1>5, AskKeeps
  <1>6. CASE Reserve(c)
    BY <1>6, ReserveKeeps
  <1>7. CASE FindEntry(c)
    <2>1. UNCHANGED <<turn, spent, challenge, put, entry>>
      BY <1>7 DEF FindEntry
    <2>2. CASE AnswerTool(c)
      BY <1>1, <2>1, <2>2, CallAnswered
    <2>3. CASE ~AnswerTool(c)
      <3> DEFINE n == entry[tool[c].entry].name
                 w == [tool[c] EXCEPT !.at = "found", !.seen = n]
      <3>1. /\ tool[c].at = "work" /\ tool[c].entry \in Entries
            /\ tool[c].name = "delete" => tool[c].chat \in Chats /\ put[<<tool[c].chat, tool[c].entry>>] # NoTurn
        BY <1>7 DEF FindEntry, ToolsInv, CallsNamed, DeletesWereAsked, ChallengeOf
      <3>2. n \in 0..MaxEdits
        BY <1>1, <3>1
      <3>3. tool' = [tool EXCEPT ![c] = w]
        BY <1>7, <2>3 DEF FindEntry, ToolsInv, CallsTyped
      <3> HIDE DEF n
      <3>4. /\ w \in ToolCalls /\ w.at = "found" /\ w.turn = tool[c].turn /\ w.name = tool[c].name
            /\ w.chat = tool[c].chat /\ w.entry = tool[c].entry
        BY <1>1, <3>2 DEF ToolCalls
      <3> HIDE DEF w
      <3>5. QED
        BY <1>1, <2>1, <3>1, <3>3, <3>4, CallMovesOn
    <2>4. QED
      BY <2>2, <2>3
  <1>8. CASE WriteEntry(c)
    <2>1. tool[c].entry \in Entries /\ tool[c].seen \in 0..MaxEdits
      BY <1>1, <1>8 DEF WriteEntry, ToolsInv, CallsNamed, ToolCalls
    <2>2. entry' \in [Entries -> [live : BOOLEAN, name : 0..MaxEdits]]
      BY <1>1, <1>8, <2>1 DEF WriteEntry
    <2>3. QED
      BY <1>8, <2>2, CallAnswered DEF WriteEntry
  <1>9. CASE DeleteEntry(c)
    <2>1. /\ tool[c].entry \in Entries /\ tool[c].name = "delete" /\ tool[c].chat \in Chats
          /\ put[<<tool[c].chat, tool[c].entry>>] # NoTurn
      BY <1>9 DEF DeleteEntry, ToolsInv, CallsNamed, DeletesWereAsked, ChallengeOf
    <2>2. entry' \in [Entries -> [live : BOOLEAN, name : 0..MaxEdits]]
      BY <1>1, <1>9, <2>1 DEF DeleteEntry
    <2>3. UNCHANGED <<turn, challenge, put, spent>>
      BY <1>9 DEF DeleteEntry
    <2>4. CASE AnswerTool(c)
      BY <2>2, <2>3, <2>4, CallAnswered
    <2>5. CASE ~AnswerTool(c)
      <3> DEFINE w == [tool[c] EXCEPT !.at = "clear"]
      <3>1. /\ w \in ToolCalls /\ w.at = "clear" /\ w.turn = tool[c].turn /\ w.name = tool[c].name
            /\ w.chat = tool[c].chat /\ w.entry = tool[c].entry
        BY <1>1 DEF ToolCalls
      <3>2. tool' = [tool EXCEPT ![c] = w]
        BY <1>9, <2>5 DEF DeleteEntry, ToolsInv, CallsTyped
      <3> HIDE DEF w
      <3>3. QED
        BY <2>1, <2>2, <2>3, <3>1, <3>2, CallMovesOn
    <2>6. QED
      BY <2>4, <2>5
  <1>10. CASE FailTool(c)
    BY <1>1, <1>10, CallAnswered DEF FailTool
  <1>11. QED
    BY <1>2, <1>3, <1>4, <1>5, <1>6, <1>7, <1>8, <1>9, <1>10 DEF ToolStep

LEMMA ToolsAlways == ChatToolsSpec => []ToolsInv
  <1>1. ToolsInv /\ [ChatToolsNext]_chatToolsVars => ToolsInv'
    <2> SUFFICES ASSUME ToolsInv, [ChatToolsNext]_chatToolsVars PROVE ToolsInv'
      OBVIOUS
    <2>1. CASE UNCHANGED chatToolsVars
      BY <2>1 DEF chatToolsVars, ToolsInv, TurnsTold, CallsTyped, CallsNamed, OpenWasPut,
                  TurnKeepsCaps, DeletesWereAsked, ChallengeOf
    <2>2. CASE \E c \in Relayed : ToolStep(c)
      BY <2>2, ToolStepKeeps
    <2>3. QED
      BY <2>1, <2>2, AroundTools DEF ChatToolsNext
  <1>2. QED
    BY <1>1, ToolsStart, PTL DEF ChatToolsSpec

(* Every variable of the tool calls holds what its declaration says, and a *)
(* turn that is kept knows what it has spent.                              *)
THEOREM ToolsTyped == ChatToolsSpec => []ChatToolsTypeOK
  <1>1. ToolsInv => ChatToolsTypeOK
    BY DEF ToolsInv, TurnsTold, CallsTyped, ToolCalls, ChatToolsTypeOK
  <1>2. QED
    BY <1>1, ToolsAlways, PTL

(* The calls that name a turn never do more than its caps allow, and a     *)
(* delete was put to the user of its chat.                                 *)
THEOREM ToolsBounded == ChatToolsSpec => [](TurnKeepsCaps /\ DeletesWereAsked)
  <1>1. ToolsInv => TurnKeepsCaps /\ DeletesWereAsked
    BY DEF ToolsInv
  <1>2. QED
    BY <1>1, ToolsAlways, PTL

(***************************************************************************)
(* The calls of connected clients.                                         *)
(*                                                                         *)
(* A question pays for one run: it is open, or one call has taken it, or   *)
(* the handler has run on it.                                              *)
(***************************************************************************)
McpCallRecords == [at : {"idle", "confirm", "ask", "record", "spend"},
                   token : McpTokens \cup {NoToken},
                   key : CallKeys \cup {NoKey}, confirmed : BOOLEAN]

McpMinutes == [calls : 0..MaxCalls, writes : 0..MaxMcpWrites, deletes : 0..MaxMcpDeletes]

ClientsTyped ==
    /\ minute \in [McpTokens -> McpMinutes]
    /\ question \in [Questions -> BOOLEAN] /\ member \in BOOLEAN
    /\ pending \in [Pending -> McpCallRecords]
    /\ questions \in [Questions -> 0..MaxQuestions]
    /\ answers \in [Questions -> Nat]

ClientsNamed ==
    \A c \in Pending :
       /\ pending[c].at # "idle" => pending[c].token \in McpTokens
       /\ pending[c].at \in {"confirm", "ask", "record"} => pending[c].key \in CallKeys

\* The calls that have taken a question and not run yet.
Takers(q) == {c \in Pending : /\ pending[c].at = "spend" /\ pending[c].key # NoKey
                              /\ QuestionOf(c) = q}

QuestionsPay ==
    \A q \in Questions :
       answers[q] + (IF question[q] THEN 1 ELSE 0) + Cardinality(Takers(q)) <= questions[q]

ClientsInv == ClientsTyped /\ ClientsNamed /\ QuestionsPay

LEMMA TakersFinite ==
    ASSUME NEW q
    PROVE  IsFiniteSet(Takers(q)) /\ Cardinality(Takers(q)) \in Nat
  <1>1. Takers(q) \in SUBSET Pending
    BY DEF Takers
  <1>2. QED
    BY <1>1, McpCallsAssumption, FS_Subset, FS_CardinalityType

(* One call that changes leaves the takers, joins them or does neither.    *)
LEMMA TakersOfOne ==
    ASSUME ClientsTyped, NEW c \in Pending, NEW w \in McpCallRecords,
           pending' = [pending EXCEPT ![c] = w], NEW q
    PROVE  /\ Cardinality(Takers(q)') \in Nat
           /\ w.at = "spend" /\ w.key # NoKey /\ <<w.token, w.key>> = q
                => Cardinality(Takers(q)') <= Cardinality(Takers(q)) + 1
           /\ ~(w.at = "spend" /\ w.key # NoKey /\ <<w.token, w.key>> = q)
                => /\ Cardinality(Takers(q)') <= Cardinality(Takers(q))
                   /\ c \in Takers(q) => Cardinality(Takers(q)') = Cardinality(Takers(q)) - 1
  <1>1. \A d \in Pending : pending'[d] = IF d = c THEN w ELSE pending[d]
    BY DEF ClientsTyped
  <1>2. IsFiniteSet(Takers(q)) /\ Cardinality(Takers(q)) \in Nat
    BY TakersFinite
  <1>3. CASE w.at = "spend" /\ w.key # NoKey /\ <<w.token, w.key>> = q
    <2>1. Takers(q)' = Takers(q) \cup {c}
      BY <1>1, <1>3 DEF Takers, QuestionOf
    <2>2. Cardinality(Takers(q) \cup {c}) \in Nat
          /\ Cardinality(Takers(q) \cup {c}) <= Cardinality(Takers(q)) + 1
      <3>1. PICK S : S = Takers(q)
        OBVIOUS
      <3>2. Cardinality(S \cup {c}) = IF c \in S THEN Cardinality(S) ELSE Cardinality(S) + 1
        BY <1>2, <3>1, FS_AddElement
      <3>3. QED
        BY <1>2, <3>1, <3>2
    <2>3. QED
      BY <1>3, <2>1, <2>2
  <1>4. CASE ~(w.at = "spend" /\ w.key # NoKey /\ <<w.token, w.key>> = q)
    <2>1. Takers(q)' = Takers(q) \ {c}
      BY <1>1, <1>4 DEF Takers, QuestionOf
    <2>2. IsFiniteSet(Takers(q) \ {c})
          /\ Cardinality(Takers(q) \ {c}) =
                IF c \in Takers(q) THEN Cardinality(Takers(q)) - 1 ELSE Cardinality(Takers(q))
      BY <1>2, FS_RemoveElement
    <2>3. Cardinality(Takers(q) \ {c}) \in Nat
      BY <2>2, FS_CardinalityType
    <2>4. QED
      BY <1>2, <1>4, <2>1, <2>2, <2>3
  <1>5. QED
    BY <1>3, <1>4

LEMMA ClientsStart == McpCallsInit => ClientsInv
  <1> SUFFICES ASSUME McpCallsInit PROVE ClientsInv
    OBVIOUS
  <1>1. IdleCall \in McpCallRecords /\ IdleCall.at = "idle"
    BY DEF IdleCall, McpCallRecords
  <1>2. NothingSpent \in McpMinutes
    BY McpCallsAssumption DEF NothingSpent, McpMinutes
  <1>3. ClientsTyped
    BY <1>1, <1>2, McpCallsAssumption DEF McpCallsInit, ClientsTyped
  <1>4. ClientsNamed
    BY <1>1 DEF McpCallsInit, ClientsNamed
  <1>5. QuestionsPay
    <2>1. SUFFICES ASSUME NEW q \in Questions
                   PROVE  answers[q] + (IF question[q] THEN 1 ELSE 0) + Cardinality(Takers(q)) <= questions[q]
      BY DEF QuestionsPay
    <2>2. Takers(q) = {}
      BY <1>1 DEF McpCallsInit, Takers
    <2>3. Cardinality(Takers(q)) = 0
      BY <2>2, FS_EmptySet
    <2>4. QED
      BY <2>3 DEF McpCallsInit
  <1>6. QED
    BY <1>3, <1>4, <1>5 DEF ClientsInv

(* What happens around the calls.                                          *)
LEMMA AroundClients ==
    ASSUME ClientsInv,
           \/ \E t \in McpTokens : MinuteEnds(t)
           \/ \E q \in Questions : QuestionAges(q)
           \/ LeaveWorkspace
    PROVE  ClientsInv'
  <1>1. UNCHANGED <<pending, questions, answers>>
    BY DEF MinuteEnds, QuestionAges, LeaveWorkspace
  <1>2. NothingSpent \in McpMinutes
    BY McpCallsAssumption DEF NothingSpent, McpMinutes
  <1>3. ClientsTyped'
    BY <1>1, <1>2 DEF ClientsInv, ClientsTyped, MinuteEnds, QuestionAges, LeaveWorkspace
  <1>4. ClientsNamed'
    BY <1>1 DEF ClientsInv, ClientsNamed
  <1>5. \A q \in Questions : question'[q] => question[q]
    BY DEF ClientsInv, ClientsTyped, MinuteEnds, QuestionAges, LeaveWorkspace
  <1>6. QuestionsPay'
    <2>1. SUFFICES ASSUME NEW q \in Questions
                   PROVE  answers'[q] + (IF question'[q] THEN 1 ELSE 0) + Cardinality(Takers(q)') <= questions'[q]
      BY DEF QuestionsPay
    <2>2. Takers(q)' = Takers(q)
      BY <1>1 DEF Takers, QuestionOf
    <2>3. Cardinality(Takers(q)) \in Nat
      BY TakersFinite
    <2>4. answers[q] \in Nat /\ questions[q] \in Nat
      BY McpCallsAssumption DEF ClientsInv, ClientsTyped
    <2>5. answers[q] + (IF question[q] THEN 1 ELSE 0) + Cardinality(Takers(q)) <= questions[q]
      BY DEF ClientsInv, QuestionsPay
    <2>6. QED
      BY <1>1, <1>5, <2>2, <2>3, <2>4, <2>5
  <1>7. QED
    BY <1>3, <1>4, <1>6 DEF ClientsInv

LEMMA ClientsRestart ==
    ASSUME ClientsInv, RestartMcp
    PROVE  ClientsInv'
  <1>1. IdleCall \in McpCallRecords /\ IdleCall.at = "idle"
    BY DEF IdleCall, McpCallRecords
  <1>2. NothingSpent \in McpMinutes
    BY McpCallsAssumption DEF NothingSpent, McpMinutes
  <1>3. ClientsTyped'
    BY <1>1, <1>2 DEF ClientsInv, ClientsTyped, RestartMcp
  <1>4. ClientsNamed'
    BY <1>1 DEF ClientsNamed, RestartMcp
  <1>5. QuestionsPay'
    <2>1. SUFFICES ASSUME NEW q \in Questions
                   PROVE  answers'[q] + (IF question'[q] THEN 1 ELSE 0) + Cardinality(Takers(q)') <= questions'[q]
      BY DEF QuestionsPay
    <2>2. Takers(q)' = {}
      BY <1>1 DEF Takers, RestartMcp
    <2>3. Cardinality(Takers(q)') = 0
      BY <2>2, FS_EmptySet
    <2>4. Cardinality(Takers(q)) \in Nat
      BY TakersFinite
    <2>5. answers[q] \in Nat /\ questions[q] \in Nat
      BY McpCallsAssumption DEF ClientsInv, ClientsTyped
    <2>6. answers[q] + (IF question[q] THEN 1 ELSE 0) + Cardinality(Takers(q)) <= questions[q]
      BY DEF ClientsInv, QuestionsPay
    <2>7. answers' = answers /\ questions' = questions /\ ~question'[q]
      BY DEF RestartMcp
    <2>8. QED
      BY <2>3, <2>4, <2>5, <2>6, <2>7
  <1>6. QED
    BY <1>3, <1>4, <1>5 DEF ClientsInv

(* What a step of a call does about one question: nothing, or a call takes *)
(* it, or one that had taken it runs, or it is asked.                      *)
JoinsTakers(w, q) == w.at = "spend" /\ w.key # NoKey /\ <<w.token, w.key>> = q

Settles(c, w, q) ==
    \/ /\ answers'[q] = answers[q] /\ questions'[q] = questions[q]
       /\ question'[q] => question[q]
       /\ ~JoinsTakers(w, q)
    \/ /\ answers'[q] = answers[q] /\ questions'[q] = questions[q]
       /\ question[q] /\ ~question'[q]
    \/ /\ answers'[q] = answers[q] + 1 /\ questions'[q] = questions[q]
       /\ question'[q] => question[q]
       /\ ~JoinsTakers(w, q) /\ c \in Takers(q)
    \/ /\ answers'[q] = answers[q] /\ questions'[q] = questions[q] + 1
       /\ ~JoinsTakers(w, q)

(* A step of one call: what it has to pay for.                             *)
LEMMA ClientPays ==
    ASSUME ClientsInv, NEW c \in Pending, NEW w \in McpCallRecords,
           pending' = [pending EXCEPT ![c] = w],
           w.at # "idle" => w.token \in McpTokens,
           w.at \in {"confirm", "ask", "record"} => w.key \in CallKeys,
           ClientsTyped',
           \A q \in Questions : Settles(c, w, q)
    PROVE  ClientsInv'
  <1>1. ClientsNamed'
    BY DEF ClientsInv, ClientsNamed, ClientsTyped
  <1>2. QuestionsPay'
    <2>1. SUFFICES ASSUME NEW q \in Questions
                   PROVE  answers'[q] + (IF question'[q] THEN 1 ELSE 0) + Cardinality(Takers(q)') <= questions'[q]
      BY DEF QuestionsPay
    <2>2. /\ Cardinality(Takers(q)') \in Nat
          /\ w.at = "spend" /\ w.key # NoKey /\ <<w.token, w.key>> = q
               => Cardinality(Takers(q)') <= Cardinality(Takers(q)) + 1
          /\ ~(w.at = "spend" /\ w.key # NoKey /\ <<w.token, w.key>> = q)
               => /\ Cardinality(Takers(q)') <= Cardinality(Takers(q))
                  /\ c \in Takers(q) => Cardinality(Takers(q)') = Cardinality(Takers(q)) - 1
      BY TakersOfOne DEF ClientsInv
    <2>3. Cardinality(Takers(q)) \in Nat
      BY TakersFinite
    <2>4. /\ answers[q] \in Nat /\ questions[q] \in Nat
          /\ answers'[q] \in Nat /\ questions'[q] \in Nat
      BY McpCallsAssumption DEF ClientsInv, ClientsTyped
    <2>5. answers[q] + (IF question[q] THEN 1 ELSE 0) + Cardinality(Takers(q)) <= questions[q]
      BY DEF ClientsInv, QuestionsPay
    <2>6. Settles(c, w, q)
      OBVIOUS
    <2>7. CASE JoinsTakers(w, q)
      BY <2>2, <2>3, <2>4, <2>5, <2>6, <2>7 DEF Settles, JoinsTakers
    <2>8. CASE ~JoinsTakers(w, q)
      BY <2>2, <2>3, <2>4, <2>5, <2>6, <2>8 DEF Settles, JoinsTakers
    <2>9. QED
      BY <2>7, <2>8
  <1>3. QED
    BY <1>1, <1>2 DEF ClientsInv

LEMMA ClientStepKeeps ==
    ASSUME ClientsInv, NEW c \in Pending,
           \/ \E t \in McpTokens, k \in CallKeys \cup {NoKey}, confirmed \in BOOLEAN :
                 ResolveCall(c, t, k, confirmed)
           \/ TakeQuestion(c) \/ Unconfirmed(c) \/ AskBack(c) \/ RecordQuestion(c)
           \/ \E spend \in Spends : RunTool(c, spend)
    PROVE  ClientsInv'
  <1>1. /\ ClientsTyped /\ pending[c] \in McpCallRecords
        /\ \A q \in Questions : questions[q] \in Nat /\ answers[q] \in Nat
    BY McpCallsAssumption DEF ClientsInv, ClientsTyped
  <1>2. /\ pending[c].at # "idle" => pending[c].token \in McpTokens
        /\ pending[c].at \in {"confirm", "ask", "record"} =>
              pending[c].key \in CallKeys /\ pending[c].key # NoKey
    BY McpCallsAssumption DEF ClientsInv, ClientsNamed
  <1>3. IdleCall \in McpCallRecords /\ IdleCall.at = "idle"
    BY DEF IdleCall, McpCallRecords
  <1>4. \A q \in Questions : c \in Takers(q) => pending[c].at = "spend"
    BY DEF Takers
  <1>5. ASSUME NEW t \in McpTokens, NEW k \in CallKeys \cup {NoKey}, NEW confirmed \in BOOLEAN,
               ResolveCall(c, t, k, confirmed)
        PROVE  ClientsInv'
    <2> DEFINE w == [at |-> IF k = NoKey THEN "spend" ELSE "confirm",
                     token |-> t, key |-> k, confirmed |-> confirmed]
    <2>1. /\ w \in McpCallRecords /\ w.token \in McpTokens /\ w.at \in {"spend", "confirm"}
          /\ w.at = "spend" => w.key = NoKey
          /\ w.at = "confirm" => w.key \in CallKeys
      BY DEF McpCallRecords
    <2>2. /\ pending' = [pending EXCEPT ![c] = w] /\ pending[c].at = "idle"
          /\ UNCHANGED <<minute, question, member, questions, answers>>
      BY <1>5 DEF ResolveCall
    <2> HIDE DEF w
    <2>3. ClientsTyped'
      BY <1>1, <2>1, <2>2 DEF ClientsTyped
    <2>4. \A q \in Questions : Settles(c, w, q)
      BY <2>1, <2>2 DEF Settles, JoinsTakers
    <2>5. QED
      BY <2>1, <2>2, <2>3, <2>4, ClientPays
  <1>6. CASE TakeQuestion(c)
    <2> DEFINE q0 == <<pending[c].token, pending[c].key>>
               w == [pending[c] EXCEPT !.at = IF question[q0] THEN "spend" ELSE "ask"]
    <2>1. /\ w \in McpCallRecords /\ w.token = pending[c].token /\ w.key = pending[c].key
          /\ w.at = IF question[q0] THEN "spend" ELSE "ask"
      BY <1>1 DEF McpCallRecords
    <2>2. /\ pending' = [pending EXCEPT ![c] = w] /\ pending[c].at = "confirm"
          /\ question' = [question EXCEPT ![q0] = FALSE]
          /\ UNCHANGED <<minute, member, questions, answers>>
      BY <1>1, <1>6 DEF TakeQuestion, QuestionOf, ClientsTyped
    <2>3. q0 \in Questions /\ pending[c].token \in McpTokens /\ pending[c].key \in CallKeys
      BY <1>2, <2>2 DEF Questions
    <2>4. \A q \in Questions : question'[q] = IF q = q0 THEN FALSE ELSE question[q]
      BY <1>1, <2>2, <2>3 DEF ClientsTyped
    <2> HIDE DEF w
    <2>5. ClientsTyped'
      BY <1>1, <2>1, <2>2, <2>3 DEF ClientsTyped
    <2>6. ASSUME NEW q \in Questions PROVE Settles(c, w, q)
      <3>1. CASE question[q0] /\ q = q0
        BY <2>2, <2>4, <3>1 DEF Settles
      <3>2. CASE ~(question[q0] /\ q = q0)
        <4>1. ~JoinsTakers(w, q)
          BY <2>1, <3>2 DEF JoinsTakers
        <4>2. question'[q] => question[q]
          BY <2>4
        <4>3. QED
          BY <2>2, <4>1, <4>2 DEF Settles
      <3>3. QED
        BY <3>1, <3>2
    <2> HIDE DEF q0
    <2>7. w.at # "idle" /\ w.token \in McpTokens /\ w.key \in CallKeys
      BY <2>1, <2>3
    <2>8. QED
      BY <2>1, <2>2, <2>5, <2>6, <2>7, ClientPays
  <1>7. CASE Unconfirmed(c)
    <2> DEFINE w == [pending[c] EXCEPT !.at = "ask"]
    <2>1. w \in McpCallRecords /\ w.token = pending[c].token /\ w.key = pending[c].key /\ w.at = "ask"
      BY <1>1 DEF McpCallRecords
    <2>2. /\ pending' = [pending EXCEPT ![c] = w] /\ pending[c].at = "confirm"
          /\ UNCHANGED <<minute, question, member, questions, answers>>
      BY <1>1, <1>7 DEF Unconfirmed, ClientsTyped
    <2> HIDE DEF w
    <2>3. ClientsTyped'
      BY <1>1, <2>1, <2>2 DEF ClientsTyped
    <2>4. \A q \in Questions : Settles(c, w, q)
      BY <2>1, <2>2 DEF Settles, JoinsTakers
    <2>5. w.token \in McpTokens /\ w.key \in CallKeys
      BY <1>2, <2>1, <2>2
    <2>6. QED
      BY <2>1, <2>2, <2>3, <2>4, <2>5, ClientPays
  <1>8. ASSUME NEW t \in McpTokens, NEW n \in Spends, CanSpend(t, n), SpendMinute(t, n)
        PROVE  minute' \in [McpTokens -> McpMinutes]
    <2>1. /\ minute \in [McpTokens -> McpMinutes]
          /\ minute[t] \in [calls : 0..MaxCalls, writes : 0..MaxMcpWrites,
                             deletes : 0..MaxMcpDeletes]
      BY <1>1 DEF ClientsTyped, McpMinutes
    <2>2. WritesIn(n) \in {0, 1} /\ DeletesIn(n) \in {0, 1}
      BY DEF WritesIn, DeletesIn
    <2>3. PICK a \in 0..MaxCalls : a = minute[t].calls + 1
      BY <1>8, <2>1, McpCallsAssumption DEF CanSpend
    <2>4. PICK b \in 0..MaxMcpWrites : b = minute[t].writes + WritesIn(n)
      BY <1>8, <2>1, <2>2, McpCallsAssumption DEF CanSpend
    <2>5. PICK d \in 0..MaxMcpDeletes : d = minute[t].deletes + DeletesIn(n)
      BY <1>8, <2>1, <2>2, McpCallsAssumption DEF CanSpend
    <2>6. [minute[t] EXCEPT !.calls = a, !.writes = b, !.deletes = d] \in McpMinutes
      BY <2>1 DEF McpMinutes
    <2>7. minute' = [minute EXCEPT ![t] = [minute[t] EXCEPT !.calls = a, !.writes = b, !.deletes = d]]
      BY <1>8, <2>1, <2>3, <2>4, <2>5 DEF SpendMinute
    <2>8. QED
      BY <2>1, <2>6, <2>7
  <1>9. CASE AskBack(c)
    <2>1. pending[c].at = "ask" /\ UNCHANGED <<question, member, questions, answers>>
      BY <1>9 DEF AskBack
    <2>2. PICK t \in McpTokens : t = pending[c].token
      BY <1>2, <2>1
    <2>3. PICK w \in McpCallRecords :
              /\ pending' = [pending EXCEPT ![c] = w]
              /\ w.at = "idle" \/ (w.at = "record" /\ w.token = pending[c].token /\ w.key = pending[c].key)
      <3>1. CASE AnswerCall(c)
        BY <1>3, <3>1 DEF AnswerCall
      <3>2. CASE ~AnswerCall(c)
        <4>1. [pending[c] EXCEPT !.at = "record"] \in McpCallRecords
          BY <1>1 DEF McpCallRecords
        <4>2. pending' = [pending EXCEPT ![c] = [pending[c] EXCEPT !.at = "record"]]
          BY <1>1, <1>9, <3>2 DEF AskBack, ClientsTyped
        <4>3. /\ [pending[c] EXCEPT !.at = "record"].at = "record"
              /\ [pending[c] EXCEPT !.at = "record"].token = pending[c].token
              /\ [pending[c] EXCEPT !.at = "record"].key = pending[c].key
          BY <1>1 DEF McpCallRecords
        <4>4. QED
          BY <4>1, <4>2, <4>3
      <3>3. QED
        BY <3>1, <3>2
    <2>4. minute' \in [McpTokens -> McpMinutes]
      BY <1>1, <1>8, <1>9, <2>2 DEF AskBack, ClientsTyped, Spends
    <2>5. ClientsTyped'
      BY <1>1, <2>1, <2>3, <2>4 DEF ClientsTyped
    <2>6. \A q \in Questions : Settles(c, w, q)
      BY <2>1, <2>3 DEF Settles, JoinsTakers
    <2>7. /\ w.at # "idle" => w.token \in McpTokens
          /\ w.at \in {"confirm", "ask", "record"} => w.key \in CallKeys
      BY <1>2, <2>1, <2>3
    <2>8. QED
      BY <2>3, <2>5, <2>6, <2>7, ClientPays
  <1>10. CASE RecordQuestion(c)
    <2>1. PICK q0 \in Questions : q0 = QuestionOf(c)
      BY <1>2, <1>10 DEF RecordQuestion, QuestionOf, Questions
    <2>2. /\ pending[c].at = "record" /\ questions[q0] < MaxQuestions
          /\ question' = [question EXCEPT ![q0] = TRUE]
          /\ questions' = [questions EXCEPT ![q0] = questions[q0] + 1]
          /\ pending' = [pending EXCEPT ![c] = IdleCall]
          /\ UNCHANGED <<minute, member, answers>>
      BY <1>1, <1>10, <2>1 DEF RecordQuestion, AnswerCall, ClientsTyped
    <2>3. questions[q0] + 1 \in 0..MaxQuestions
      BY <1>1, <2>2, McpCallsAssumption DEF ClientsTyped
    <2>4. ClientsTyped'
      BY <1>1, <1>3, <2>2, <2>3 DEF ClientsTyped
    <2>5. \A q \in Questions : /\ question'[q] = (IF q = q0 THEN TRUE ELSE question[q])
                               /\ questions'[q] = IF q = q0 THEN questions[q] + 1 ELSE questions[q]
      BY <1>1, <2>2 DEF ClientsTyped
    <2>6. \A q \in Questions : Settles(c, IdleCall, q)
      BY <1>3, <2>2, <2>5 DEF Settles, JoinsTakers
    <2>7. QED
      BY <1>3, <2>2, <2>4, <2>6, ClientPays
  <1>11. ASSUME NEW spend \in Spends, RunTool(c, spend)
         PROVE  ClientsInv'
    <2>1. /\ pending[c].at = "spend" /\ UNCHANGED <<question, member, questions>>
          /\ pending' = [pending EXCEPT ![c] = IdleCall]
      BY <1>11 DEF RunTool, AnswerCall
    <2>2. PICK t \in McpTokens : t = pending[c].token
      BY <1>2, <2>1
    <2>3. minute' \in [McpTokens -> McpMinutes]
      BY <1>1, <1>8, <1>11, <2>2 DEF RunTool, ClientsTyped
    <2>4. /\ answers' \in [Questions -> Nat]
          /\ \A q \in Questions : \/ answers'[q] = answers[q]
                                  \/ answers'[q] = answers[q] + 1 /\ c \in Takers(q)
      <3>1. CASE answers' = answers
        BY <1>1, <3>1 DEF ClientsTyped
      <3>2. CASE answers' # answers
        <4>1. pending[c].key \in CallKeys /\ pending[c].key # NoKey
          BY <1>1, <1>11, <3>2 DEF RunTool, McpCallRecords
        <4>2. PICK q0 \in Questions : q0 = QuestionOf(c)
          BY <2>2, <4>1 DEF QuestionOf, Questions
        <4>3. answers' = [answers EXCEPT ![q0] = answers[q0] + 1]
          BY <1>1, <1>11, <3>2, <4>2 DEF RunTool, ClientsTyped
        <4>4. c \in Takers(q0)
          BY <2>1, <4>1, <4>2 DEF Takers
        <4>5. QED
          BY <1>1, <4>3, <4>4 DEF ClientsTyped
      <3>3. QED
        BY <3>1, <3>2
    <2>5. ClientsTyped'
      BY <1>1, <1>3, <2>1, <2>3, <2>4 DEF ClientsTyped
    <2>6. \A q \in Questions : Settles(c, IdleCall, q)
      BY <1>3, <2>1, <2>4 DEF Settles, JoinsTakers
    <2>7. QED
      BY <1>3, <2>1, <2>5, <2>6, ClientPays
  <1>12. QED
    BY <1>5, <1>6, <1>7, <1>9, <1>10, <1>11

LEMMA ClientsAlways == McpCallsSpec => []ClientsInv
  <1>1. ClientsInv /\ [McpCallsNext]_mcpCallsVars => ClientsInv'
    <2> SUFFICES ASSUME ClientsInv, [McpCallsNext]_mcpCallsVars PROVE ClientsInv'
      OBVIOUS
    <2>1. CASE UNCHANGED mcpCallsVars
      BY <2>1 DEF mcpCallsVars, ClientsInv, ClientsTyped, ClientsNamed, QuestionsPay, Takers,
                  QuestionOf
    <2>2. CASE McpCallsNext
      BY <2>2, AroundClients, ClientsRestart, ClientStepKeeps DEF McpCallsNext
    <2>3. QED
      BY <2>1, <2>2
  <1>2. QED
    BY <1>1, ClientsStart, PTL DEF McpCallsSpec

(* What the questions pay for is what was asked.                           *)
LEMMA QuestionsBound ==
    ASSUME ClientsInv
    PROVE  OneRunPerQuestion /\ answers \in [Questions -> 0..MaxQuestions]
  <1>1. ASSUME NEW q \in Questions
        PROVE  /\ answers[q] + (IF question[q] THEN 1 ELSE 0) <= questions[q]
               /\ answers[q] \in 0..MaxQuestions
    <2>1. Cardinality(Takers(q)) \in Nat
      BY TakersFinite
    <2>2. answers[q] \in Nat /\ questions[q] \in 0..MaxQuestions /\ MaxQuestions \in Nat
      BY McpCallsAssumption DEF ClientsInv, ClientsTyped
    <2>3. answers[q] + (IF question[q] THEN 1 ELSE 0) + Cardinality(Takers(q)) <= questions[q]
      BY DEF ClientsInv, QuestionsPay
    <2>4. QED
      BY <2>1, <2>2, <2>3
  <1>2. QED
    BY <1>1 DEF OneRunPerQuestion, ClientsInv, ClientsTyped

(* Every variable of the clients' calls holds what its declaration says,   *)
(* and no minute is overdrawn.                                             *)
THEOREM ClientsAreTyped == McpCallsSpec => []McpCallsTypeOK
  <1>1. ClientsInv => McpCallsTypeOK
    BY QuestionsBound DEF ClientsInv, ClientsTyped, McpCallRecords, McpMinutes, McpCallsTypeOK
  <1>2. QED
    BY <1>1, ClientsAlways, PTL

(* One question is answered by one run of the delete, however often and at *)
(* once the client repeats it.                                             *)
THEOREM QuestionsAreAnsweredOnce == McpCallsSpec => []OneRunPerQuestion
  <1>1. ClientsInv => OneRunPerQuestion
    BY QuestionsBound
  <1>2. QED
    BY <1>1, ClientsAlways, PTL

(***************************************************************************)
(* The arguments of a tool call.                                           *)
(*                                                                         *)
(* A call corrected as a reader told has nothing wrong but, at most, the   *)
(* order of its dates; one corrected as the ceiling told, nothing at all.  *)
(***************************************************************************)
Readers == {Texts, Ids, Options, Amounts, Dates, Months, Ints, Flags, StringLists, ItemLists}

LEMMA WriteReaders ==
    \A f \in DOMAIN WriteFields :
       /\ WriteFields[f] \in Readers
       /\ f \notin {"choices", "items", "from", "to"}
       /\ f \in {"amount", "to_amount"} => WriteFields[f] = Amounts
  BY DEF WriteFields, Readers

(* What each field of a tool is read with.                                 *)
LEMMA FieldReaders ==
    ASSUME NEW kind \in ToolShapes, NEW f \in DOMAIN ToolFields(kind)
    PROVE  /\ ToolFields(kind)[f] \in Readers
           /\ f = "choices" => ToolFields(kind)[f] = StringLists
           /\ f = "items" => ToolFields(kind)[f] = ItemLists
           /\ f \in {"from", "to"} => ToolFields(kind)[f] = Dates
           /\ kind \in {"create", "update"} /\ f \in {"amount", "to_amount"} =>
                 ToolFields(kind)[f] = Amounts
  <1>1. CASE kind = "context"
    <2>1. ToolFields(kind) = <<>>
      BY <1>1 DEF ToolFields
    <2>2. DOMAIN <<>> = {}
      OBVIOUS
    <2>3. QED
      BY <2>1, <2>2
  <1>2. CASE kind = "search"
    BY <1>2 DEF ToolFields, Readers
  <1>3. CASE kind = "analysis" \/ kind = "summary"
    BY <1>3 DEF ToolFields, Readers, RangeFields
  <1>4. CASE kind = "budget"
    BY <1>4 DEF ToolFields, Readers
  <1>5. CASE kind = "create"
    <2>1. ToolFields(kind) = WriteFields
      BY <1>5 DEF ToolFields
    <2>2. QED
      BY <1>5, <2>1, WriteReaders
  <1>6. CASE kind = "update"
    <2>1. ToolFields(kind) = [g \in DOMAIN WriteFields \cup {"transaction_id"} |->
                                IF g = "transaction_id" THEN Ids ELSE WriteFields[g]]
      BY <1>6 DEF ToolFields
    <2>2. CASE f = "transaction_id"
      BY <2>1, <2>2 DEF Readers
    <2>3. CASE f # "transaction_id"
      BY <2>1, <2>3, WriteReaders
    <2>4. QED
      BY <2>2, <2>3
  <1>7. CASE kind = "delete"
    BY <1>7 DEF ToolFields, Readers
  <1>8. CASE kind = "items"
    BY <1>8 DEF ToolFields, Readers, ItemFields
  <1>9. CASE kind = "wallet" \/ kind = "category"
    BY <1>9 DEF ToolFields, Readers
  <1>10. CASE kind = "choices"
    BY <1>10 DEF ToolFields, Readers
  <1>11. QED
    BY <1>1, <1>2, <1>3, <1>4, <1>5, <1>6, <1>7, <1>8, <1>9, <1>10 DEF ToolShapes

(* What a tool cannot do without it takes.                                 *)
LEMMA RequiredAreFields ==
    ASSUME NEW kind \in ToolShapes
    PROVE  /\ Required(kind) \subseteq DOMAIN ToolFields(kind)
           /\ kind = "items" => "items" \in Required(kind)
  BY DEF ToolShapes, Required, ToolFields, RangeFields, WriteFields, ItemFields

(* No reader takes null, and each takes something that is neither large    *)
(* nor late.                                                               *)
LEMMA ReadersTake ==
    \A r \in Readers : /\ "null" \notin r
                       /\ r \ {"huge", "late"} # {}
  <1>1. /\ "text" \in Texts /\ "text" \in Ids /\ "option" \in Options /\ "digits" \in Amounts
        /\ "early" \in Dates /\ "month" \in Months /\ "digits" \in Ints /\ "true" \in Flags
        /\ "word" \in StringLists /\ "none" \in ItemLists
    BY DEF Texts, Ids, Options, Amounts, Dates, Months, Ints, Flags, StringLists, ItemLists, Strings
  <1>2. \A r \in Readers : "null" \notin r
    BY DEF Readers, Texts, Ids, Options, Amounts, Dates, Months, Ints, Flags, StringLists, ItemLists, Strings
  <1>3. \A v \in {"text", "option", "digits", "early", "month", "true", "word", "none"} : v \notin {"huge", "late"}
    OBVIOUS
  <1>4. QED
    BY <1>1, <1>2, <1>3 DEF Readers

LEMMA ListsAreNoDates ==
    StringLists # Dates /\ ItemLists # Dates /\ Amounts # Dates
  BY DEF StringLists, ItemLists, Amounts, Dates

(* What the model puts in the place of what was refused.                   *)
LEMMA FittingFits ==
    ASSUME NEW kind \in ToolShapes, NEW f \in DOMAIN ToolFields(kind)
    PROVE  /\ Fitting(kind, f) \in ToolFields(kind)[f]
           /\ Fitting(kind, f) # "huge"
           /\ f \in {"choices", "items"} =>
                 Fitting(kind, f) \notin TooShort(f) \cup {"dear"}
           /\ f = "to" => Fitting(kind, f) = "late"
           /\ f = "from" => Fitting(kind, f) = "early"
  <1>1. CASE f \in {"choices", "items"}
    BY <1>1, FieldReaders DEF Fitting, TooShort, StringLists, ItemLists
  <1>2. CASE f \in {"from", "to"}
    BY <1>2, FieldReaders DEF Fitting, Dates
  <1>3. CASE f \notin {"choices", "items", "from", "to"}
    <2>1. Fitting(kind, f) = CHOOSE v \in ToolFields(kind)[f] \ {"huge", "late"} : TRUE
      BY <1>3 DEF Fitting
    <2>2. Fitting(kind, f) \in ToolFields(kind)[f] \ {"huge", "late"}
      BY <2>1, FieldReaders, ReadersTake
    <2>3. Fitting(kind, f) \in ToolFields(kind)[f] /\ Fitting(kind, f) # "huge"
      BY <2>2
    <2>4. QED
      BY <1>3, <2>3
  <1>4. QED
    BY <1>1, <1>2, <1>3

(* The arguments a after told was said of them, with some amounts lowered. *)
CorrectedArgs(kind, a, date, named, lowered) ==
    [f \in (DOMAIN a \ named) \cup (named \cap DOMAIN ToolFields(kind)) |->
       IF f \in named \cap DOMAIN ToolFields(kind) /\ ToolFields(kind)[f] = Dates THEN date
       ELSE IF f \in (named \cap DOMAIN ToolFields(kind)) \cup lowered THEN Fitting(kind, f)
       ELSE a[f]]

(* What b, the arguments after it, has of them.                            *)
Settled(kind, a, named, lowered, b) ==
    /\ lowered \subseteq DOMAIN a \cap DOMAIN ToolFields(kind)
    /\ Problems(kind, a) \subseteq named
    /\ DOMAIN b \subseteq DOMAIN ToolFields(kind)
    /\ DOMAIN b = (DOMAIN a \ named) \cup (named \cap DOMAIN ToolFields(kind))
    /\ \A f \in DOMAIN b : b[f] # "null" => b[f] \in ToolFields(kind)[f]
    /\ \A f \in DOMAIN b : f \in named \cup lowered => b[f] \in ToolFields(kind)[f]
    /\ \A f \in DOMAIN b : f \notin named \cup lowered => f \in DOMAIN a /\ b[f] = a[f]
    /\ \A f \in DOMAIN b :
          f \in named \cup lowered /\ (f \notin named \/ ToolFields(kind)[f] # Dates) => b[f] = Fitting(kind, f)

LEMMA ArgumentsAfter ==
    ASSUME NEW kind \in ToolShapes, NEW a, NEW named, Problems(kind, a) \subseteq named,
           NEW date \in Dates, NEW lowered \in SUBSET (DOMAIN a \cap DOMAIN ToolFields(kind))
    PROVE  Settled(kind, a, named, lowered, CorrectedArgs(kind, a, date, named, lowered))
  <1> DEFINE b == CorrectedArgs(kind, a, date, named, lowered)
  <1> DEFINE F == ToolFields(kind)
  <1>1. DOMAIN b = (DOMAIN a \ named) \cup (named \cap DOMAIN F)
    BY DEF CorrectedArgs
  <1>2. DOMAIN a \ named \subseteq DOMAIN F
    BY DEF Problems, Unknown
  <1>3. ASSUME NEW f \in DOMAIN b
        PROVE  b[f] = IF f \in named \cap DOMAIN F /\ F[f] = Dates THEN date
                      ELSE IF f \in (named \cap DOMAIN F) \cup lowered THEN Fitting(kind, f)
                      ELSE a[f]
    BY <1>1 DEF CorrectedArgs
  <1>4. ASSUME NEW f \in DOMAIN b, f \in named \cup lowered
        PROVE  /\ b[f] \in F[f]
               /\ f \notin named \/ F[f] # Dates => b[f] = Fitting(kind, f)
    <2>1. f \in DOMAIN F
      BY <1>1, <1>2
    <2>2. CASE f \in named /\ F[f] = Dates
      <3>1. b[f] = date
        BY <2>1, <2>2, <1>3
      <3>2. QED
        BY <2>2, <3>1
    <2>3. CASE ~(f \in named /\ F[f] = Dates)
      <3>1. b[f] = Fitting(kind, f)
        BY <1>4, <2>1, <2>3, <1>3
      <3>2. QED
        BY <2>1, <3>1, FittingFits
    <2>4. QED
      BY <2>2, <2>3
  <1>5. ASSUME NEW f \in DOMAIN b, f \notin named \cup lowered
        PROVE  /\ f \in DOMAIN a
               /\ b[f] = a[f]
               /\ b[f] # "null" => b[f] \in F[f]
    <2>1. f \in DOMAIN a /\ f \in DOMAIN F
      BY <1>1, <1>2, <1>5
    <2>2. b[f] = a[f]
      BY <1>3, <1>5
    <2>3. f \notin Rejected(kind, a)
      BY <1>5 DEF Problems
    <2>4. QED
      BY <2>1, <2>2, <2>3 DEF Rejected, Given
  <1>6. DOMAIN b \subseteq DOMAIN F
    BY <1>1, <1>2
  <1>7. \A f \in DOMAIN b : b[f] # "null" => b[f] \in F[f]
    BY <1>4, <1>5
  <1> HIDE DEF b
  <1>8. Settled(kind, a, named, lowered, b)
    BY <1>1, <1>4, <1>5, <1>6, <1>7 DEF Settled
  <1>9. QED
    BY <1>8 DEF b

(* What is left to refuse after a correction: the order of dates of which  *)
(* one was just filled in.                                                 *)
LEMMA LittleLeft ==
    ASSUME NEW kind \in ToolShapes, NEW a, NEW named, NEW lowered, NEW b,
           Settled(kind, a, named, lowered, b)
    PROVE  /\ Problems(kind, b) \subseteq {"from"}
           /\ Problems(kind, b) # {} => named \cap {"from", "to"} # {}
  <1>1. Unknown(kind, b) = {}
    BY DEF Settled, Unknown
  <1>2. Rejected(kind, b) = {}
    BY DEF Settled, Rejected, Given
  <1>3. ASSUME NEW f \in Required(kind)
        PROVE  /\ Given(b, f)
               /\ b[f] \notin TooShort(f)
    <2>1. f \in DOMAIN ToolFields(kind)
      BY RequiredAreFields
    <2>2. ToolFields(kind)[f] \in Readers
      BY <2>1, FieldReaders
    <2>3. "null" \notin ToolFields(kind)[f]
      BY <2>2, ReadersTake
    <2>4. CASE f \in named
      <3>1. f \in DOMAIN b
        BY <2>1, <2>4 DEF Settled
      <3>2. b[f] \in ToolFields(kind)[f]
        BY <2>4, <3>1 DEF Settled
      <3>3. b[f] \notin TooShort(f)
        <4>1. CASE f \in {"choices", "items"}
          BY <2>1, <2>4, <3>1, <4>1, FieldReaders, FittingFits, ListsAreNoDates DEF Settled
        <4>2. CASE f \notin {"choices", "items"}
          BY <4>2 DEF TooShort
        <4>3. QED
          BY <4>1, <4>2
      <3>4. QED
        BY <2>3, <3>1, <3>2, <3>3 DEF Given
    <2>5. CASE f \notin named
      <3>1. f \notin Missing(kind, a)
        BY <2>5 DEF Settled, Problems
      <3>2. Given(a, f)
        BY <3>1 DEF Missing
      <3>3. a[f] \notin TooShort(f)
        BY <3>1, <3>2 DEF Missing
      <3>4. f \in DOMAIN b
        BY <2>5, <3>2 DEF Settled, Given
      <3>5. CASE f \in lowered
        <4>1. b[f] \in ToolFields(kind)[f]
          BY <3>4, <3>5 DEF Settled
        <4>2. b[f] \notin TooShort(f)
          <5>1. CASE f \in {"choices", "items"}
            BY <2>1, <3>4, <3>5, <5>1, FieldReaders, FittingFits, ListsAreNoDates DEF Settled
          <5>2. CASE f \notin {"choices", "items"}
            BY <5>2 DEF TooShort
          <5>3. QED
            BY <5>1, <5>2
        <4>3. QED
          BY <2>3, <3>4, <4>1, <4>2 DEF Given
      <3>6. CASE f \notin lowered
        <4>1. b[f] = a[f]
          BY <2>5, <3>4, <3>6 DEF Settled
        <4>2. QED
          BY <3>2, <3>3, <3>4, <4>1 DEF Given
      <3>7. QED
        BY <3>5, <3>6
    <2>6. QED
      BY <2>4, <2>5
  <1>4. Missing(kind, b) = {}
    BY <1>3 DEF Missing
  <1>5. ASSUME Reversed(kind, b) # {}, named \cap {"from", "to"} = {}
        PROVE  FALSE
    <2>1. /\ HasRange(kind)
          /\ Given(b, "from")
          /\ Given(b, "to")
          /\ b["from"] = "late"
          /\ b["to"] = "early"
      BY <1>5 DEF Reversed
    <2>2. "from" \in DOMAIN b /\ "to" \in DOMAIN b
      BY <2>1 DEF Given
    <2>3. "from" \in DOMAIN ToolFields(kind) /\ "to" \in DOMAIN ToolFields(kind)
      BY <2>2 DEF Settled
    <2>4. Fitting(kind, "from") = "early" /\ Fitting(kind, "to") = "late"
      BY <2>3, FittingFits
    <2>5. "from" \notin lowered
      BY <1>5, <2>1, <2>2, <2>4 DEF Settled
    <2>6. "to" \notin lowered
      BY <1>5, <2>1, <2>2, <2>4 DEF Settled
    <2>7. /\ "from" \in DOMAIN a
          /\ "to" \in DOMAIN a
          /\ a["from"] = "late"
          /\ a["to"] = "early"
      BY <1>5, <2>1, <2>2, <2>5, <2>6 DEF Settled
    <2>8. "from" \in Reversed(kind, a)
      BY <2>1, <2>7 DEF Reversed, Given
    <2>9. QED
      BY <1>5, <2>8 DEF Settled, Problems
  <1>6. Reversed(kind, b) \subseteq {"from"}
    BY DEF Reversed
  <1>7. Problems(kind, b) = Reversed(kind, b)
    BY <1>1, <1>2, <1>4 DEF Problems
  <1>8. QED
    BY <1>5, <1>6, <1>7

(* After a refusal for the amounts there is nothing left to refuse.        *)
LEMMA NothingLeft ==
    ASSUME NEW kind \in ToolShapes, NEW a, NEW lowered, NEW b,
           Settled(kind, a, {"amount"}, lowered, b),
           Problems(kind, a) = {},
           lowered = {f \in DOMAIN a \cap DOMAIN ToolFields(kind) :
                        a[f] \in {"huge", "dear"} /\ ToolFields(kind)[f] \in {Amounts, ItemLists}}
    PROVE  /\ Problems(kind, b) = {}
           /\ ~OverCeiling(kind, b)
  <1>3. Problems(kind, b) = {}
    <2>1. {"amount"} \cap {"from", "to"} = {}
      OBVIOUS
    <2>2. QED
      BY <2>1, LittleLeft
  <1>4. ASSUME kind \in {"create", "update"}, NEW f \in {"amount", "to_amount"}, Given(b, f)
        PROVE  b[f] # "huge"
    <2>1. f \in DOMAIN b /\ f \in DOMAIN ToolFields(kind)
      BY <1>4 DEF Settled, Given
    <2>2. ToolFields(kind)[f] = Amounts
      BY <1>4, <2>1, FieldReaders
    <2>3. CASE f \in {"amount"} \cup lowered
      <3>1. b[f] = Fitting(kind, f)
        BY <2>1, <2>2, <2>3, ListsAreNoDates DEF Settled
      <3>2. QED
        BY <2>1, <3>1, FittingFits
    <2>4. CASE f \notin {"amount"} \cup lowered
      <3>1. f \in DOMAIN a /\ b[f] = a[f]
        BY <2>1, <2>4 DEF Settled
      <3>2. a[f] # "huge"
        BY <2>1, <2>2, <2>4, <3>1
      <3>3. QED
        BY <3>1, <3>2
    <2>5. QED
      BY <2>3, <2>4
  <1>5. ASSUME kind = "items"
        PROVE  b["items"] # "dear"
    <2>1. "items" \in Required(kind) /\ "items" \in DOMAIN ToolFields(kind)
      BY <1>5, RequiredAreFields
    <2>2. Given(b, "items")
      BY <1>3, <2>1 DEF Problems, Missing
    <2>3. "items" \in DOMAIN b
      BY <2>2 DEF Given
    <2>4. ToolFields(kind)["items"] = ItemLists
      BY <2>1, FieldReaders
    <2>5. CASE "items" \in lowered
      BY <2>1, <2>3, <2>4, <2>5, FittingFits, ListsAreNoDates DEF Settled
    <2>6. CASE "items" \notin lowered
      <3>1. "items" \in DOMAIN a /\ b["items"] = a["items"]
        BY <2>3, <2>6 DEF Settled
      <3>2. a["items"] # "dear"
        BY <2>1, <2>4, <2>6, <3>1
      <3>3. QED
        BY <3>1, <3>2
    <2>7. QED
      BY <2>5, <2>6
  <1>6. QED
    BY <1>3, <1>4, <1>5 DEF OverCeiling

(* What a refusal may name.                                                *)
FieldNames ==
    {"query", "limit", "min_amount", "from", "to", "group_by", "month", "type", "amount", "to_amount",
     "wallet_id", "to_wallet_id", "category_id", "date", "name", "description", "transaction_id",
     "confirmed", "items", "group_id", "currency_code", "question", "choices", "stray"}

LEMMA FieldsAreNamed ==
    \A kind \in ToolShapes : DOMAIN ToolFields(kind) \cup {"stray"} \subseteq FieldNames
  <1>1. DOMAIN <<>> = {}
    OBVIOUS
  <1>2. DOMAIN WriteFields \subseteq FieldNames
    BY DEF WriteFields, FieldNames
  <1>3. SUFFICES ASSUME NEW kind \in ToolShapes
                 PROVE  DOMAIN ToolFields(kind) \subseteq FieldNames /\ "stray" \in FieldNames
    OBVIOUS
  <1>4. CASE kind = "context"
    BY <1>1, <1>4 DEF ToolFields, FieldNames
  <1>5. CASE kind \in {"create", "update"}
    BY <1>2, <1>5 DEF ToolFields, FieldNames
  <1>6. CASE kind \notin {"context", "create", "update"}
    BY <1>6 DEF ToolShapes, ToolFields, RangeFields, ItemFields, FieldNames
  <1>7. QED
    BY <1>4, <1>5, <1>6

(* What may be refused of a call: what it takes, and what it was sent.     *)
LEMMA RefusableFields ==
    ASSUME NEW kind \in ToolShapes, NEW a, DOMAIN a \subseteq DOMAIN ToolFields(kind) \cup {"stray"}
    PROVE  Problems(kind, a) \subseteq DOMAIN ToolFields(kind) \cup {"stray"}
  BY RequiredAreFields DEF Problems, Rejected, Missing, Reversed, Unknown, Given

(***************************************************************************)
(* What holds at every step of a call.                                     *)
(***************************************************************************)
Refusal == [by : {"reader", "ceiling"}, fields : SUBSET FieldNames]
LastRefusal == refusals[Len(refusals)]

ArgsShape ==
    /\ call = [tool |-> call.tool, args |-> call.args]
    /\ call.tool \in CalledTools
    /\ DOMAIN call.args \subseteq DOMAIN ToolFields(call.tool) \cup {"stray"}
    /\ at \in {"sent", "refused", "parsed", "running"}
    /\ told # {} <=> at = "refused"
    /\ refusals \in Seq(Refusal)

(* What the last refusal leaves of the arguments.                          *)
ArgsLeft ==
    /\ at \in {"parsed", "running"} => Problems(call.tool, call.args) = {}
    /\ at = "refused" => refusals # <<>> /\ told = LastRefusal.fields
    /\ at = "refused" /\ LastRefusal.by = "reader" => told = Problems(call.tool, call.args)
    /\ at = "refused" /\ LastRefusal.by = "ceiling" =>
          told = {"amount"} /\ Problems(call.tool, call.args) = {}
    /\ at = "sent" /\ refusals # <<>> /\ LastRefusal.by = "reader" =>
          /\ Problems(call.tool, call.args) \subseteq {"from"}
          /\ Problems(call.tool, call.args) # {} => LastRefusal.fields \cap {"from", "to"} # {}
    /\ at \in {"sent", "parsed"} /\ refusals # <<>> /\ LastRefusal.by = "ceiling" =>
          Problems(call.tool, call.args) = {} /\ ~OverCeiling(call.tool, call.args)

ArgsInv == ArgsShape /\ ArgsLeft /\ ToldAtOnce

USE ToolArgsAssumption

LEMMA LastIsTold == ArgsShape /\ refusals # <<>> => LastRefusal \in Refusal
  <1> SUFFICES ASSUME ArgsShape, refusals # <<>> PROVE LastRefusal \in Refusal
    OBVIOUS
  <1>1. refusals \in Seq(Refusal)
    BY DEF ArgsShape
  <1>2. Len(refusals) \in 1..Len(refusals)
    BY <1>1
  <1>3. QED
    BY <1>1, <1>2 DEF LastRefusal

LEMMA ArgsStart == ToolArgsInit => ArgsInv
  <1> SUFFICES ASSUME ToolArgsInit PROVE ArgsInv
    OBVIOUS
  <1>1. PICK t \in CalledTools : \E a \in FirstCalls(t) : call = [tool |-> t, args |-> a]
    BY DEF ToolArgsInit, CallsBegun
  <1> PICK a \in FirstCalls(t) : call = [tool |-> t, args |-> a]
    BY <1>1
  <1> DEFINE OneCall(slips, left, odd) ==
               [f \in (Required(t) \cup slips) \ left |-> IF f \in slips THEN odd[f] ELSE Fitting(t, f)]
             Sent(slips) ==
               {OneCall(slips, left, odd) : left \in SUBSET slips, odd \in [slips -> SlipValues]}
  <1>2. FirstCalls(t) = UNION {Sent(slips) : slips \in Slips(t)}
    BY DEF FirstCalls
  <1>3. \A slips, left, odd : DOMAIN OneCall(slips, left, odd) \subseteq Required(t) \cup slips
    OBVIOUS
  <1> HIDE DEF OneCall
  <1>4. ASSUME NEW slips, NEW x \in Sent(slips)
        PROVE  DOMAIN x \subseteq Required(t) \cup slips
    <2>1. PICK left \in SUBSET slips, odd \in [slips -> SlipValues] : x = OneCall(slips, left, odd)
      BY <1>4
    <2>2. QED
      BY <1>3, <2>1
  <1> HIDE DEF Sent
  <1> PICK slips \in Slips(t) : DOMAIN a \subseteq Required(t) \cup slips
    BY <1>2, <1>4
  <1>5. DOMAIN a \subseteq DOMAIN ToolFields(t) \cup {"stray"}
    BY RequiredAreFields DEF Slips
  <1>6. ArgsShape
    BY <1>1, <1>5 DEF ToolArgsInit, ArgsShape
  <1>7. ArgsLeft /\ ToldAtOnce
    BY DEF ToolArgsInit, ArgsLeft, ToldAtOnce
  <1>8. QED
    BY <1>6, <1>7 DEF ArgsInv

(* A refusal is the next of those before it.                               *)
LEMMA RefusalFollows ==
    ASSUME ArgsShape, ToldAtOnce, NEW by \in {"reader", "ceiling"}, NEW fields \in SUBSET FieldNames,
           fields # {}, RefuseTool(by, fields),
           refusals # <<>> =>
              /\ LastRefusal.by = "reader"
              /\ by = "ceiling" \/ (fields = {"from"} /\ LastRefusal.fields \cap {"from", "to"} # {})
    PROVE  /\ refusals' \in Seq(Refusal)
           /\ refusals' # <<>>
           /\ LastRefusal' = [by |-> by, fields |-> fields]
           /\ ToldAtOnce'
  <1> DEFINE r == [by |-> by, fields |-> fields]
             n == Len(refusals)
  <1>1. r \in Refusal
    BY DEF Refusal
  <1>2. refusals \in Seq(Refusal) /\ n \in Nat
    BY DEF ArgsShape
  <1>3. refusals' = Append(refusals, r)
    BY DEF RefuseTool
  <1>4. /\ refusals' \in Seq(Refusal)
        /\ Len(refusals') = n + 1
        /\ refusals'[n + 1] = r
        /\ \A i \in 1..n : refusals'[i] = refusals[i]
    BY <1>1, <1>2, <1>3
  <1>5. DOMAIN refusals' = 1..(n + 1) /\ DOMAIN refusals = 1..n
    BY <1>2, <1>4
  <1>6. n > 0 => refusals # <<>>
    BY <1>2
  <1>7. ASSUME NEW i \in 1..(n + 1), i > 1
        PROVE  /\ refusals'[i - 1].by = "reader"
               /\ \/ refusals'[i].by = "ceiling"
                  \/ refusals'[i].fields = {"from"} /\ refusals'[i - 1].fields \cap {"from", "to"} # {}
    <2>1. CASE i = n + 1
      <3>1. i - 1 = n /\ n \in 1..n
        BY <1>2, <1>7, <2>1
      <3>2. refusals'[i - 1] = LastRefusal
        BY <1>4, <3>1 DEF LastRefusal
      <3>3. refusals # <<>>
        BY <1>2, <1>6, <3>1
      <3>4. refusals'[i] = r
        BY <1>4, <2>1
      <3>5. r.by = by /\ r.fields = fields
        OBVIOUS
      <3>6. QED
        BY <3>2, <3>3, <3>4, <3>5
    <2>2. CASE i # n + 1
      <3>1. i \in 1..n /\ i - 1 \in 1..n
        BY <1>2, <1>7, <2>2
      <3>2. refusals'[i] = refusals[i] /\ refusals'[i - 1] = refusals[i - 1]
        BY <1>4, <3>1
      <3>3. QED
        BY ZenonT(30), <1>5, <1>7, <3>1, <3>2 DEF ToldAtOnce
    <2>3. QED
      BY <2>1, <2>2
  <1>8. ToldAtOnce'
    BY <1>5, <1>7 DEF ToldAtOnce
  <1>9. refusals' # <<>>
    BY <1>2, <1>4
  <1>10. LastRefusal' = r
    BY <1>4 DEF LastRefusal
  <1>11. QED
    BY <1>4, <1>8, <1>9, <1>10

LEMMA ParseKeeps == ArgsInv /\ Parse => ArgsInv'
  <1> SUFFICES ASSUME ArgsInv, Parse PROVE ArgsInv'
    OBVIOUS
  <1> DEFINE found == Problems(call.tool, call.args)
  <1>1. ArgsShape /\ ArgsLeft /\ ToldAtOnce
    BY DEF ArgsInv
  <1>2. at = "sent" /\ call' = call /\ told = {}
    BY <1>1 DEF Parse, ArgsShape
  <1>3. CASE found = {}
    <2>1. at' = "parsed" /\ told' = told /\ refusals' = refusals
      BY <1>3 DEF Parse
    <2>2. ArgsShape'
      BY <1>1, <1>2, <2>1 DEF ArgsShape
    <2>3. ArgsLeft'
      BY <1>1, <1>2, <1>3, <2>1 DEF ArgsLeft, LastRefusal
    <2>4. QED
      BY <1>1, <2>1, <2>2, <2>3 DEF ArgsInv, ToldAtOnce
  <1>4. CASE found # {}
    <2>1. RefuseTool("reader", found)
      BY <1>4 DEF Parse
    <2>2. call.tool \in ToolShapes
      BY <1>1 DEF ArgsShape
    <2>3. found \in SUBSET FieldNames
      BY <1>1, <2>2, RefusableFields, FieldsAreNamed DEF ArgsShape
    <2>4. refusals # <<>> => LastRefusal.by = "reader" \/ LastRefusal.by = "ceiling"
      BY <1>1, LastIsTold DEF Refusal
    <2>5. refusals # <<>> =>
              /\ LastRefusal.by = "reader"
              /\ found = {"from"} /\ LastRefusal.fields \cap {"from", "to"} # {}
      BY <1>1, <1>2, <1>4, <2>4 DEF ArgsLeft
    <2>6. /\ refusals' \in Seq(Refusal)
          /\ refusals' # <<>>
          /\ LastRefusal' = [by |-> "reader", fields |-> found]
          /\ ToldAtOnce'
      BY <1>1, <1>4, <2>1, <2>3, <2>5, RefusalFollows
    <2>7. at' = "refused" /\ told' = found
      BY <2>1 DEF RefuseTool
    <2>8. ArgsShape'
      BY <1>1, <1>2, <1>4, <2>6, <2>7 DEF ArgsShape
    <2>9. LastRefusal'.by = "reader" /\ LastRefusal'.fields = found
      BY <2>6
    <2>10. ArgsLeft'
      BY <1>2, <2>6, <2>7, <2>9 DEF ArgsLeft
    <2>11. QED
      BY <2>6, <2>8, <2>10 DEF ArgsInv
  <1>5. QED
    BY <1>3, <1>4

LEMMA CeilingKeeps == ArgsInv /\ CheckCeiling => ArgsInv'
  <1> SUFFICES ASSUME ArgsInv, CheckCeiling PROVE ArgsInv'
    OBVIOUS
  <1>1. ArgsShape /\ ArgsLeft /\ ToldAtOnce
    BY DEF ArgsInv
  <1>2. at = "parsed" /\ call' = call /\ told = {} /\ Problems(call.tool, call.args) = {}
    BY <1>1 DEF CheckCeiling, ArgsShape, ArgsLeft
  <1>3. CASE ~OverCeiling(call.tool, call.args)
    <2>1. at' = "running" /\ told' = told /\ refusals' = refusals
      BY <1>3 DEF CheckCeiling
    <2>2. ArgsShape'
      BY <1>1, <1>2, <2>1 DEF ArgsShape
    <2>3. ArgsLeft'
      BY <1>1, <1>2, <2>1 DEF ArgsLeft, LastRefusal
    <2>4. QED
      BY <1>1, <2>1, <2>2, <2>3 DEF ArgsInv, ToldAtOnce
  <1>4. CASE OverCeiling(call.tool, call.args)
    <2>1. RefuseTool("ceiling", {"amount"})
      BY <1>4 DEF CheckCeiling
    <2>2. refusals # <<>> => LastRefusal.by = "reader" \/ LastRefusal.by = "ceiling"
      BY <1>1, LastIsTold DEF Refusal
    <2>3. refusals # <<>> => LastRefusal.by = "reader"
      BY <1>1, <1>2, <1>4, <2>2 DEF ArgsLeft
    <2>4. {"amount"} \in SUBSET FieldNames /\ {"amount"} # {}
      BY DEF FieldNames
    <2>5. /\ refusals' \in Seq(Refusal)
          /\ refusals' # <<>>
          /\ LastRefusal' = [by |-> "ceiling", fields |-> {"amount"}]
          /\ ToldAtOnce'
      BY <1>1, <2>1, <2>3, <2>4, RefusalFollows
    <2>6. at' = "refused" /\ told' = {"amount"}
      BY <2>1 DEF RefuseTool
    <2>7. ArgsShape'
      BY <1>1, <1>2, <2>5, <2>6 DEF ArgsShape
    <2>8. LastRefusal'.by = "ceiling" /\ LastRefusal'.fields = {"amount"}
      BY <2>5
    <2>9. ArgsLeft'
      BY <1>2, <2>5, <2>6, <2>8 DEF ArgsLeft
    <2>10. QED
      BY <2>5, <2>7, <2>9 DEF ArgsInv
  <1>5. QED
    BY <1>3, <1>4

LEMMA CorrectKeeps == ArgsInv /\ CorrectCall => ArgsInv'
  <1> SUFFICES ASSUME ArgsInv, CorrectCall PROVE ArgsInv'
    OBVIOUS
  <1>1. ArgsShape /\ ArgsLeft /\ ToldAtOnce
    BY DEF ArgsInv
  <1>2. /\ at = "refused"
        /\ at' = "sent"
        /\ told' = {}
        /\ refusals' = refusals
        /\ LastRefusal' = LastRefusal
    BY DEF CorrectCall, LastRefusal
  <1>3. PICK t, a, named, lowered :
           /\ t = call.tool
           /\ a = call.args
           /\ named = told
           /\ lowered = IF told = {"amount"} THEN LargeAmounts ELSE {}
    OBVIOUS
  <1>4. t \in ToolShapes /\ t \in CalledTools
    BY <1>1, <1>3 DEF ArgsShape
  <1>5. PICK date \in Dates : call' = [call EXCEPT !.args = CorrectedArgs(t, a, date, named, lowered)]
    <2>1. PICK date \in (IF Reversed(call.tool, call.args) = {} THEN Dates ELSE {"early"}) :
             call' = [call EXCEPT !.args = CorrectedArgs(t, a, date, named, lowered)]
      BY <1>3 DEF CorrectCall, CorrectedArgs
    <2>2. "early" \in Dates
      BY DEF Dates
    <2>3. QED
      BY <2>1, <2>2
  <1>6. PICK b : b = CorrectedArgs(t, a, date, named, lowered)
    OBVIOUS
  <1>7. call' = [tool |-> t, args |-> b]
    BY <1>1, <1>3, <1>5, <1>6 DEF ArgsShape
  <1>8. lowered \in SUBSET (DOMAIN a \cap DOMAIN ToolFields(t))
    BY <1>3 DEF LargeAmounts
  <1>9. refusals # <<>> /\ (LastRefusal.by = "reader" \/ LastRefusal.by = "ceiling")
    BY <1>1, <1>2, LastIsTold DEF ArgsLeft, Refusal
  <1>10. Problems(t, a) \subseteq named
    BY <1>1, <1>2, <1>3, <1>9 DEF ArgsLeft
  <1>11. Settled(t, a, named, lowered, b)
    BY <1>4, <1>6, <1>8, <1>10, ArgumentsAfter
  <1>12. DOMAIN b \subseteq DOMAIN ToolFields(t)
    BY <1>11 DEF Settled
  <1>13. ArgsShape'
    BY <1>1, <1>2, <1>4, <1>7, <1>12 DEF ArgsShape
  <1>14. CASE LastRefusal.by = "reader"
    <2>1. LastRefusal.fields = named
      BY <1>1, <1>2, <1>3 DEF ArgsLeft
    <2>2. /\ Problems(t, b) \subseteq {"from"}
          /\ Problems(t, b) # {} => named \cap {"from", "to"} # {}
      BY <1>4, <1>11, LittleLeft
    <2>3. ArgsLeft'
      BY <1>2, <1>7, <1>14, <2>1, <2>2 DEF ArgsLeft
    <2>4. QED
      BY <1>1, <1>2, <1>13, <2>3 DEF ArgsInv, ToldAtOnce
  <1>15. CASE LastRefusal.by = "ceiling"
    <2>1. named = {"amount"} /\ Problems(t, a) = {}
      BY <1>1, <1>2, <1>3, <1>15 DEF ArgsLeft
    <2>2. lowered = {f \in DOMAIN a \cap DOMAIN ToolFields(t) :
                       a[f] \in {"huge", "dear"} /\ ToolFields(t)[f] \in {Amounts, ItemLists}}
      BY <1>3, <2>1 DEF LargeAmounts
    <2>3. Settled(t, a, {"amount"}, lowered, b)
      BY <1>11, <2>1
    <2>4. Problems(t, b) = {} /\ ~OverCeiling(t, b)
      BY <1>4, <2>1, <2>2, <2>3, NothingLeft
    <2>5. ArgsLeft'
      BY <1>2, <1>7, <1>15, <2>4 DEF ArgsLeft
    <2>6. QED
      BY <1>1, <1>2, <1>13, <2>5 DEF ArgsInv, ToldAtOnce
  <1>16. QED
    BY <1>9, <1>14, <1>15

LEMMA ArgsStep == ArgsInv /\ [ToolArgsNext]_toolArgsVars => ArgsInv'
  <1>1. ArgsInv /\ UNCHANGED toolArgsVars => ArgsInv'
    BY DEF ArgsInv, ArgsShape, ArgsLeft, ToldAtOnce, LastRefusal, toolArgsVars
  <1>2. QED
    BY <1>1, ParseKeeps, CeilingKeeps, CorrectKeeps DEF ToolArgsNext

LEMMA ArgsAlways == ToolArgsSpec => []ArgsInv
  BY ArgsStart, ArgsStep, PTL DEF ToolArgsSpec

LEMMA ArgsShaped == ArgsInv => ToolArgsTypeOK
  <1> SUFFICES ASSUME ArgsInv PROVE ToolArgsTypeOK
    OBVIOUS
  <1>1. at = "running" => Unknown(call.tool, call.args) = {}
    BY DEF ArgsInv, ArgsLeft, Problems
  <1>2. at = "running" => DOMAIN call.args \subseteq DOMAIN ToolFields(call.tool)
    BY <1>1 DEF Unknown
  <1>3. QED
    BY <1>2 DEF ArgsInv, ArgsShape, ToolArgsTypeOK

(* The arguments of a call are those of its tool and one more, and a call  *)
(* that runs has no argument its tool does not take.                       *)
THEOREM ArgumentsAreTyped == ToolArgsSpec => []ToolArgsTypeOK
  BY ArgsAlways, ArgsShaped, PTL

(* A call corrected as told is refused again only over the order of dates  *)
(* of which one was just filled in, and the ceiling of amounts.            *)
THEOREM ProblemsAreToldAtOnce == ToolArgsSpec => []ToldAtOnce
  <1>1. ArgsInv => ToldAtOnce
    BY DEF ArgsInv
  <1>2. QED
    BY <1>1, ArgsAlways, PTL

HIDE ToolArgsAssumption

(***************************************************************************)
(* Chats.                                                                  *)
(*                                                                         *)
(* A turn that has not stored its question has no message, one that has    *)
(* and has not ended has only that one; and while its chat is there, what  *)
(* a turn read is the end of the chat as it was at some moment since the   *)
(* turn began.                                                             *)
(***************************************************************************)
Stages == {"before", "begun", "read", "asking", "naming", "streaming", "replying", "ended"}
SpokenTurns == [at : Stages, title : Titles, history : SUBSET (Nat \ {0}), had : Nat]
Edits == [at : {"before", "read", "ended"}, field : Fields, read : [Fields -> Nat]]

NewestOf(n) == {i \in 1..n : n - i < HistoryWindow}

TurnKnows(t, w, said, live) ==
    /\ w.at \in {"before", "begun", "read", "asking"} => \A i \in DOMAIN said : said[i].turn # t
    /\ w.at \in {"naming", "streaming", "replying"} =>
          \A i \in DOMAIN said : said[i].turn = t => said[i].by = "user"
    /\ live /\ w.at = "begun" => w.had <= Len(said)
    /\ live /\ w.at = "read" =>
          \E n \in Nat : w.had <= n /\ n <= Len(said) /\ w.history = NewestOf(n)

QuestionThenReply(said) ==
    \A i, j \in DOMAIN said :
       said[i].turn = said[j].turn /\ i < j => said[i].by = "user" /\ said[j].by = "assistant"

ChatsInv ==
    /\ chat \in [live : BOOLEAN, title : Titles]
    /\ messages \in Seq(Message)
    /\ spoken \in [Spoken -> SpokenTurns]
    /\ settings \in [Fields -> Nat] /\ editor \in [Editors -> Edits]
    /\ QuestionThenReply(messages)
    /\ chat.live => \A i \in DOMAIN messages : messages[i].live
    /\ \A t \in Spoken : TurnKnows(t, spoken[t], messages, chat.live)

LEMMA ChatsStart == ChatSessionsInit => ChatsInv
  <1> SUFFICES ASSUME ChatSessionsInit PROVE ChatsInv
    OBVIOUS
  <1>1. /\ chat = [live |-> TRUE, title |-> "New chat"] /\ messages = <<>>
        /\ spoken = [t \in Spoken |-> Before] /\ settings = [f \in Fields |-> 0]
        /\ editor = [e \in Editors |-> NotEditing]
    BY DEF ChatSessionsInit
  <1>2. Before \in SpokenTurns /\ Before.at = "before"
    BY DEF Before, SpokenTurns, Stages, Titles
  <1>3. NotEditing \in Edits
    BY DEF NotEditing, Edits, Fields
  <1>4. messages \in Seq(Message) /\ DOMAIN messages = {}
    <2>1. <<>> \in Seq(Message) /\ Len(<<>>) = 0
      OBVIOUS
    <2>2. DOMAIN <<>> = 1..0
      BY <2>1
    <2>3. 1..0 = {}
      OBVIOUS
    <2>4. QED
      BY <1>1, <2>1, <2>2, <2>3
  <1>5. \A t \in Spoken : TurnKnows(t, spoken[t], messages, chat.live)
    BY <1>1, <1>2, <1>4 DEF TurnKnows
  <1>6. /\ chat \in [live : BOOLEAN, title : Titles] /\ spoken \in [Spoken -> SpokenTurns]
        /\ settings \in [Fields -> Nat] /\ editor \in [Editors -> Edits]
    BY <1>1, <1>2, <1>3 DEF Titles
  <1>7. QED
    BY <1>4, <1>5, <1>6 DEF ChatsInv, QuestionThenReply

(* A step of one turn that stores nothing.                                 *)
LEMMA TurnStays ==
    ASSUME ChatsInv, NEW t \in Spoken, NEW w \in SpokenTurns,
           spoken' = [spoken EXCEPT ![t] = w], UNCHANGED <<messages, settings, editor>>,
           chat' \in [live : BOOLEAN, title : Titles], chat'.live = chat.live,
           TurnKnows(t, w, messages, chat.live)
    PROVE  ChatsInv'
  <1>1. spoken \in [Spoken -> SpokenTurns]
    BY DEF ChatsInv
  <1>2. spoken' \in [Spoken -> SpokenTurns]
    BY <1>1
  <1>3. ASSUME NEW u \in Spoken PROVE TurnKnows(u, spoken'[u], messages, chat.live)
    <2>1. CASE u = t
      BY <1>1, <2>1
    <2>2. CASE u # t
      BY <1>1, <2>2 DEF ChatsInv
    <2>3. QED
      BY <2>1, <2>2
  <1>4. QED
    BY <1>2, <1>3 DEF ChatsInv

(* A step of one turn that stores a message.                               *)
LEMMA TurnSays ==
    ASSUME ChatsInv, NEW t \in Spoken, NEW w \in SpokenTurns, NEW who \in {"user", "assistant"},
           spoken' = [spoken EXCEPT ![t] = w], UNCHANGED <<chat, settings, editor>>, Say(t, who),
           \/ /\ who = "user" /\ w.at = "naming"
              /\ \A i \in DOMAIN messages : messages[i].turn # t
           \/ /\ who = "assistant" /\ w.at = "ended"
              /\ \A i \in DOMAIN messages : messages[i].turn = t => messages[i].by = "user"
    PROVE  ChatsInv'
  <1> DEFINE m == [by |-> who, turn |-> t, live |-> TRUE]
             said == Append(messages, m)
             n == Len(messages)
  <1>1. m \in Message /\ m.by = who /\ m.turn = t /\ m.live = TRUE
    BY DEF Message
  <1>2. messages \in Seq(Message) /\ n \in Nat /\ DOMAIN messages = 1..n
    BY DEF ChatsInv
  <1>3. messages' = said
    BY DEF Say
  <1> HIDE DEF m
  <1>4. /\ said \in Seq(Message) /\ DOMAIN said = 1..(n + 1) /\ Len(said) = n + 1
        /\ said[n + 1] = m /\ \A i \in 1..n : said[i] = messages[i]
    BY <1>1, <1>2
  <1>5. \A i \in 1..(n + 1) : i \in 1..n \/ i = n + 1
    BY <1>2
  <1> HIDE DEF said, n
  <1>6. spoken \in [Spoken -> SpokenTurns] /\ spoken' \in [Spoken -> SpokenTurns]
    BY DEF ChatsInv
  <1>7. QuestionThenReply(said)
    <2>1. SUFFICES ASSUME NEW i \in 1..(n + 1), NEW j \in 1..(n + 1), said[i].turn = said[j].turn, i < j
                   PROVE  said[i].by = "user" /\ said[j].by = "assistant"
      BY <1>4 DEF QuestionThenReply
    <2>2. i \in 1..n
      BY <1>2, <2>1
    <2>3. CASE j \in 1..n
      BY <1>2, <1>4, <2>1, <2>2, <2>3 DEF ChatsInv, QuestionThenReply
    <2>4. CASE j = n + 1
      <3>1. messages[i].turn = t
        BY <1>1, <1>4, <2>1, <2>2, <2>4
      <3>2. messages[i].by = "user" /\ who = "assistant"
        BY <1>2, <2>2, <3>1
      <3>3. QED
        BY <1>1, <1>4, <2>2, <2>4, <3>2
    <2>5. QED
      BY <1>5, <2>3, <2>4
  <1>8. chat.live => \A i \in DOMAIN said : said[i].live
    BY <1>1, <1>2, <1>4, <1>5 DEF ChatsInv
  <1>9. ASSUME NEW u \in Spoken PROVE TurnKnows(u, spoken'[u], said, chat.live)
    <2>1. CASE u = t
      <3>1. spoken'[u] = w
        BY <1>6, <2>1
      <3>2. w.at = "naming" => \A i \in DOMAIN said : said[i].turn = t => said[i].by = "user"
        BY <1>1, <1>2, <1>4, <1>5
      <3>3. QED
        BY <2>1, <3>1, <3>2 DEF TurnKnows
    <2>2. CASE u # t
      <3>1. spoken'[u] = spoken[u] /\ TurnKnows(u, spoken[u], messages, chat.live)
        BY <1>6, <2>2 DEF ChatsInv
      <3>2. \A i \in DOMAIN said : said[i].turn = u =>
               i \in DOMAIN messages /\ messages[i].turn = u /\ said[i] = messages[i]
        BY <1>1, <1>2, <1>4, <1>5, <2>2
      <3>3. \A k \in Nat : k <= Len(messages) => k <= Len(said)
        BY <1>2, <1>4 DEF n
      <3>4. spoken[u].had \in Nat
        BY <1>6 DEF SpokenTurns
      <3>5. QED
        BY <3>1, <3>2, <3>3, <3>4 DEF TurnKnows
    <2>3. QED
      BY <2>1, <2>2
  <1>10. QED
    BY <1>3, <1>4, <1>6, <1>7, <1>8, <1>9 DEF ChatsInv

(* What a turn reads of a chat that is there.                              *)
LEMMA HistoryOfLive ==
    ASSUME ChatsInv, chat.live
    PROVE  /\ Cardinality(Shown) = Len(messages)
           /\ History = NewestOf(Len(messages))
  <1>1. /\ messages \in Seq(Message) /\ Len(messages) \in Nat
        /\ \A i \in DOMAIN messages : messages[i].live
    BY DEF ChatsInv
  <1>2. Shown = 1..Len(messages)
    BY <1>1 DEF Shown
  <1>3. Cardinality(Shown) = Len(messages)
    <2>1. Cardinality(1..Len(messages)) = IF 1 > Len(messages) THEN 0 ELSE Len(messages) - 1 + 1
      BY SMTT(30), <1>1, FS_Interval
    <2>2. QED
      BY <1>1, <1>2, <2>1
  <1>4. ASSUME NEW i \in 1..Len(messages)
        PROVE  Cardinality({j \in Shown : j > i}) = Len(messages) - i
    <2>1. {j \in Shown : j > i} = (i + 1)..Len(messages)
      BY <1>1, <1>2
    <2>2. i + 1 \in Int /\ Len(messages) \in Int
      BY <1>1
    <2>3. Cardinality((i + 1)..Len(messages))
             = IF i + 1 > Len(messages) THEN 0 ELSE Len(messages) - (i + 1) + 1
      BY <2>2, FS_Interval
    <2>4. (IF i + 1 > Len(messages) THEN 0 ELSE Len(messages) - (i + 1) + 1) = Len(messages) - i
      BY <2>2
    <2>5. QED
      BY <2>1, <2>3, <2>4
  <1>5. QED
    BY <1>2, <1>3, <1>4 DEF History, NewestOf

LEMMA ChatsStep == ChatsInv /\ [ChatSessionsNext]_chatSessionsVars => ChatsInv'
  <1> SUFFICES ASSUME ChatsInv, [ChatSessionsNext]_chatSessionsVars PROVE ChatsInv'
    OBVIOUS
  <1>1. /\ spoken \in [Spoken -> SpokenTurns] /\ chat \in [live : BOOLEAN, title : Titles]
        /\ messages \in Seq(Message) /\ Len(messages) \in Nat
        /\ settings \in [Fields -> Nat] /\ editor \in [Editors -> Edits]
        /\ \A t \in Spoken : TurnKnows(t, spoken[t], messages, chat.live)
    BY DEF ChatsInv
  <1>2. ASSUME NEW t \in Spoken, BeginTurn(t) PROVE ChatsInv'
    <2> DEFINE w == [spoken[t] EXCEPT !.at = "begun", !.title = chat.title, !.had = Cardinality(Shown)]
    <2>1. spoken' = [spoken EXCEPT ![t] = w] /\ UNCHANGED <<chat, messages, settings, editor>>
      BY <1>1, <1>2 DEF BeginTurn
    <2>2. chat.live /\ Cardinality(Shown) = Len(messages)
      BY <1>2, HistoryOfLive DEF BeginTurn
    <2>3. w \in SpokenTurns /\ w.at = "begun" /\ w.had = Len(messages)
      BY <1>1, <2>2 DEF SpokenTurns, Stages
    <2>4. TurnKnows(t, spoken[t], messages, chat.live) /\ spoken[t].at = "before"
      BY <1>1, <1>2 DEF BeginTurn
    <2> HIDE DEF w
    <2>5. TurnKnows(t, w, messages, chat.live)
      BY <1>1, <2>3, <2>4 DEF TurnKnows
    <2>6. QED
      BY <1>1, <2>1, <2>3, <2>5, TurnStays
  <1>3. ASSUME NEW t \in Spoken, ReadHistory(t) PROVE ChatsInv'
    <2> DEFINE w == [spoken[t] EXCEPT !.at = "read", !.history = History]
    <2>1. spoken' = [spoken EXCEPT ![t] = w] /\ UNCHANGED <<chat, messages, settings, editor>>
      BY <1>1, <1>3 DEF ReadHistory
    <2>2. History \in SUBSET (Nat \ {0})
      <3>1. \A i \in DOMAIN messages : i \in Nat \ {0}
        BY <1>1
      <3>2. QED
        BY <3>1 DEF History, Shown
    <2>3. w \in SpokenTurns /\ w.at = "read" /\ w.had = spoken[t].had /\ w.history = History
      BY <1>1, <2>2 DEF SpokenTurns, Stages
    <2>4. TurnKnows(t, spoken[t], messages, chat.live) /\ spoken[t].at = "begun"
      BY <1>1, <1>3 DEF ReadHistory
    <2> HIDE DEF w
    <2>5. chat.live => w.had <= Len(messages) /\ w.history = NewestOf(Len(messages))
      BY <2>3, <2>4, HistoryOfLive DEF TurnKnows
    <2>6. Len(messages) <= Len(messages)
      BY <1>1
    <2>7. chat.live => \E n \in Nat : w.had <= n /\ n <= Len(messages) /\ w.history = NewestOf(n)
      BY <1>1, <2>5, <2>6
    <2>8. TurnKnows(t, w, messages, chat.live)
      BY <2>3, <2>4, <2>7 DEF TurnKnows
    <2>9. QED
      BY <1>1, <2>1, <2>3, <2>8, TurnStays
  <1>4. ASSUME NEW t \in Spoken, NEW from \in Stages, NEW to \in Stages, Advance(t, from, to),
               UNCHANGED <<messages, settings, editor>>,
               chat' \in [live : BOOLEAN, title : Titles], chat'.live = chat.live,
               \/ from = "read" /\ to = "asking"
               \/ from = "streaming" /\ to = "replying"
               \/ from = "naming" /\ to = "streaming"
               \/ to = "ended"
        PROVE  ChatsInv'
    <2> DEFINE w == [spoken[t] EXCEPT !.at = to]
    <2>1. spoken' = [spoken EXCEPT ![t] = w] /\ spoken[t].at = from
      BY <1>1, <1>4 DEF Advance
    <2>2. w \in SpokenTurns /\ w.at = to
      BY <1>1 DEF SpokenTurns
    <2>3. TurnKnows(t, spoken[t], messages, chat.live)
      BY <1>1
    <2> HIDE DEF w
    <2>4. TurnKnows(t, w, messages, chat.live)
      BY <1>4, <2>1, <2>2, <2>3 DEF TurnKnows
    <2>5. QED
      BY <1>1, <1>4, <2>1, <2>2, <2>4, TurnStays
  <1>5. ASSUME NEW t \in Spoken, FindChat(t) PROVE ChatsInv'
    <2>1. PICK from \in Stages, to \in Stages :
             /\ Advance(t, from, to)
             /\ \/ from = "read" /\ to \in {"asking", "ended"}
                \/ from = "streaming" /\ to \in {"replying", "ended"}
      <3>1. "read" \in Stages /\ "asking" \in Stages /\ "ended" \in Stages /\ "streaming" \in Stages
            /\ "replying" \in Stages
        BY DEF Stages
      <3>2. CASE chat.live
        BY <1>5, <3>1, <3>2 DEF FindChat
      <3>3. CASE ~chat.live
        BY <1>5, <3>1, <3>3 DEF FindChat
      <3>4. QED
        BY <3>2, <3>3
    <2>2. UNCHANGED <<chat, messages, settings, editor>>
      BY <1>5 DEF FindChat
    <2>3. QED
      BY <1>1, <1>4, <2>1, <2>2
  <1>6. ASSUME NEW t \in Spoken, NameChat(t) PROVE ChatsInv'
    <2>1. Advance(t, "naming", "streaming") /\ UNCHANGED <<messages, settings, editor>>
      BY <1>6 DEF NameChat
    <2>2. chat' \in [live : BOOLEAN, title : Titles] /\ chat'.live = chat.live
      <3>1. CASE spoken[t].title = "New chat" /\ chat.live
        <4>1. chat' = [chat EXCEPT !.title = "from the message"]
          BY <1>6, <3>1 DEF NameChat
        <4>2. QED
          BY <1>1, <4>1 DEF Titles
      <3>2. CASE ~(spoken[t].title = "New chat" /\ chat.live)
        <4>1. chat' = chat
          BY <1>6, <3>2 DEF NameChat
        <4>2. QED
          BY <1>1, <4>1
      <3>3. QED
        BY <3>1, <3>2
    <2>3. "naming" \in Stages /\ "streaming" \in Stages
      BY DEF Stages
    <2>4. QED
      BY <1>4, <2>1, <2>2, <2>3
  <1>7. ASSUME NEW t \in Spoken, FailTurn(t) PROVE ChatsInv'
    <2>1. Advance(t, spoken[t].at, "ended") /\ UNCHANGED <<chat, messages, settings, editor>>
      BY <1>7 DEF FailTurn, Advance
    <2>2. spoken[t].at \in Stages /\ "ended" \in Stages
      BY <1>1 DEF SpokenTurns, Stages
    <2>3. QED
      BY <1>1, <1>4, <2>1, <2>2
  <1>8. ASSUME NEW t \in Spoken, NEW from \in Stages, NEW to \in Stages, NEW who \in {"user", "assistant"},
               Advance(t, from, to), Say(t, who), UNCHANGED <<chat, settings, editor>>,
               \/ from = "asking" /\ to = "naming" /\ who = "user"
               \/ from = "replying" /\ to = "ended" /\ who = "assistant"
        PROVE  ChatsInv'
    <2> DEFINE w == [spoken[t] EXCEPT !.at = to]
    <2>1. spoken' = [spoken EXCEPT ![t] = w] /\ spoken[t].at = from
      BY <1>1, <1>8 DEF Advance
    <2>2. w \in SpokenTurns /\ w.at = to
      BY <1>1 DEF SpokenTurns
    <2>3. TurnKnows(t, spoken[t], messages, chat.live)
      BY <1>1
    <2> HIDE DEF w
    <2>4. \/ /\ who = "user" /\ w.at = "naming"
             /\ \A i \in DOMAIN messages : messages[i].turn # t
          \/ /\ who = "assistant" /\ w.at = "ended"
             /\ \A i \in DOMAIN messages : messages[i].turn = t => messages[i].by = "user"
      BY <1>8, <2>1, <2>2, <2>3 DEF TurnKnows
    <2>5. QED
      BY <1>8, <2>1, <2>2, <2>4, TurnSays
  <1>9. ASSUME NEW t \in Spoken, StoreQuestion(t) \/ StoreReply(t) PROVE ChatsInv'
    <2>1. /\ "asking" \in Stages /\ "naming" \in Stages /\ "replying" \in Stages /\ "ended" \in Stages
          /\ "user" \in {"user", "assistant"} /\ "assistant" \in {"user", "assistant"}
      BY DEF Stages
    <2>2. CASE StoreQuestion(t)
      BY <1>8, <2>1, <2>2 DEF StoreQuestion
    <2>3. CASE StoreReply(t)
      BY <1>8, <2>1, <2>3 DEF StoreReply
    <2>4. QED
      BY <1>9, <2>2, <2>3
  <1>10. CASE RenameChat
    <2>1. chat' = [chat EXCEPT !.title = "chosen"] /\ UNCHANGED <<messages, spoken, settings, editor>>
      BY <1>10 DEF RenameChat
    <2>2. chat' \in [live : BOOLEAN, title : Titles] /\ chat'.live = chat.live
      BY <1>1, <2>1 DEF Titles
    <2>3. QED
      BY <2>1, <2>2 DEF ChatsInv
  <1>11. CASE DeleteChat
    <2>1. /\ chat' = [chat EXCEPT !.live = FALSE] /\ UNCHANGED <<spoken, settings, editor>>
          /\ messages' = [i \in DOMAIN messages |-> [messages[i] EXCEPT !.live = FALSE]]
      BY <1>11 DEF DeleteChat
    <2>2. chat' \in [live : BOOLEAN, title : Titles] /\ ~chat'.live
      BY <1>1, <2>1
    <2>3. DOMAIN messages = 1..Len(messages) /\ \A i \in DOMAIN messages : messages[i] \in Message
      BY <1>1
    <2>4. \A i \in DOMAIN messages :
             /\ [messages[i] EXCEPT !.live = FALSE] \in Message
             /\ [messages[i] EXCEPT !.live = FALSE].by = messages[i].by
             /\ [messages[i] EXCEPT !.live = FALSE].turn = messages[i].turn
      BY <2>3 DEF Message
    <2>5. /\ DOMAIN messages' = DOMAIN messages
          /\ \A i \in DOMAIN messages : /\ messages'[i] \in Message /\ messages'[i].by = messages[i].by
                                        /\ messages'[i].turn = messages[i].turn
      BY <2>1, <2>4
    <2>6. messages' \in Seq(Message)
      <3>1. messages' \in [1..Len(messages) -> Message]
        BY <2>1, <2>3, <2>4
      <3>2. Seq(Message) = UNION {[1..n -> Message] : n \in Nat}
        BY SeqDef
      <3>3. QED
        BY <1>1, <3>1, <3>2
    <2>7. QuestionThenReply(messages')
      BY <2>5 DEF ChatsInv, QuestionThenReply
    <2>8. ASSUME NEW t \in Spoken PROVE TurnKnows(t, spoken[t], messages', chat'.live)
      <3>1. TurnKnows(t, spoken[t], messages, chat.live)
        BY <1>1
      <3>2. spoken[t].at \in {"before", "begun", "read", "asking"} =>
               \A i \in DOMAIN messages' : messages'[i].turn # t
        BY <2>5, <3>1 DEF TurnKnows
      <3>3. spoken[t].at \in {"naming", "streaming", "replying"} =>
               \A i \in DOMAIN messages' : messages'[i].turn = t => messages'[i].by = "user"
        BY <2>5, <3>1 DEF TurnKnows
      <3>4. QED
        BY <2>2, <3>2, <3>3 DEF TurnKnows
    <2>9. QED
      BY <1>1, <2>1, <2>2, <2>6, <2>7, <2>8 DEF ChatsInv
  <1>12. ASSUME NEW e \in Editors, NEW f \in Fields, ReadSettings(e, f) PROVE ChatsInv'
    <2> DEFINE w == [at |-> "read", field |-> f, read |-> settings]
    <2>1. editor' = [editor EXCEPT ![e] = w] /\ UNCHANGED <<chat, messages, spoken, settings>>
      BY <1>12 DEF ReadSettings
    <2>2. w \in Edits
      BY <1>1 DEF Edits
    <2>3. editor' \in [Editors -> Edits]
      BY <1>1, <2>1, <2>2
    <2>4. QED
      BY <2>1, <2>3 DEF ChatsInv
  <1>13. ASSUME NEW e \in Editors, WriteSettings(e) PROVE ChatsInv'
    <2> DEFINE w == [NotEditing EXCEPT !.at = "ended"]
    <2>1. /\ settings' = [editor[e].read EXCEPT ![editor[e].field] = @ + 1]
          /\ editor' = [editor EXCEPT ![e] = w] /\ UNCHANGED <<chat, messages, spoken>>
      BY <1>13 DEF WriteSettings
    <2>2. editor[e].read \in [Fields -> Nat] /\ editor[e].field \in Fields
      BY <1>1 DEF Edits
    <2>3. settings' \in [Fields -> Nat]
      BY <2>1, <2>2
    <2>4. w \in Edits
      BY DEF NotEditing, Edits, Fields
    <2>5. editor' \in [Editors -> Edits]
      BY <1>1, <2>1, <2>4
    <2>6. QED
      BY <2>1, <2>3, <2>5 DEF ChatsInv
  <1>14. CASE UNCHANGED chatSessionsVars
    BY <1>14 DEF ChatsInv, chatSessionsVars
  <1>15. QED
    BY <1>2, <1>3, <1>5, <1>6, <1>7, <1>9, <1>10, <1>11, <1>12, <1>13, <1>14 DEF ChatSessionsNext

LEMMA ChatsAlways == ChatSessionsSpec => []ChatsInv
  BY ChatsStart, ChatsStep, PTL DEF ChatSessionsSpec

LEMMA ChatsShaped == ChatsInv => ChatSessionsTypeOK
  <1> SUFFICES ASSUME ChatsInv PROVE ChatSessionsTypeOK
    OBVIOUS
  <1>1. /\ spoken \in [Spoken -> SpokenTurns] /\ editor \in [Editors -> Edits]
    BY DEF ChatsInv
  <1>2. \A e \in Editors : editor[e].at \in {"before", "read", "ended"} /\ editor[e].field \in Fields
    BY <1>1 DEF Edits
  <1>3. QED
    BY <1>1, <1>2 DEF ChatsInv, ChatSessionsTypeOK, QuestionThenReply, SpokenTurns, Stages

LEMMA ChatsTell == ChatsInv => HistoryIsNewest
  <1> SUFFICES ASSUME ChatsInv, NEW t \in Spoken, spoken[t].at = "read", chat.live,
                      NEW i \in 1..spoken[t].had, i \notin spoken[t].history
               PROVE  /\ Cardinality(spoken[t].history) = HistoryWindow
                      /\ \A j \in spoken[t].history : j > i
    BY DEF HistoryIsNewest
  <1>1. HistoryWindow \in Nat \ {0} /\ spoken[t].had \in Nat
    BY ChatSessionsAssumption DEF ChatsInv, SpokenTurns
  <1>2. PICK n \in Nat : spoken[t].had <= n /\ spoken[t].history = NewestOf(n)
    BY DEF ChatsInv, TurnKnows
  <1>3. i \in 1..n /\ ~(n - i < HistoryWindow)
    BY <1>1, <1>2 DEF NewestOf
  <1>4. NewestOf(n) = (n - HistoryWindow + 1)..n
    BY <1>1, <1>3 DEF NewestOf
  <1>5. n - HistoryWindow + 1 \in Int /\ ~(n - HistoryWindow + 1 > n)
        /\ n - (n - HistoryWindow + 1) + 1 = HistoryWindow /\ i < n - HistoryWindow + 1
    BY <1>1, <1>3
  <1>6. Cardinality((n - HistoryWindow + 1)..n) = HistoryWindow
    BY <1>5, FS_Interval
  <1>7. \A j \in (n - HistoryWindow + 1)..n : j > i
    BY <1>1, <1>5
  <1>8. QED
    BY <1>2, <1>4, <1>6, <1>7

(* Whatever turns of one chat overlap, no turn has two questions or two    *)
(* replies, and a reply comes after its question.                          *)
THEOREM ChatsAreTyped == ChatSessionsSpec => []ChatSessionsTypeOK
  BY ChatsAlways, ChatsShaped, PTL

(* What a turn carries is the end of its chat (ai/repositories recent      *)
(* messages): nothing said before it began is missing unless later         *)
(* messages fill the window.                                               *)
THEOREM HistoriesAreNewest == ChatSessionsSpec => []HistoryIsNewest
  BY ChatsAlways, ChatsTell, PTL

(***************************************************************************)
(* Exchange rates.                                                         *)
(*                                                                         *)
(* Whatever is stored has the base in it, nothing is stored for a day to   *)
(* come, and while the loop fetches, nothing is stored for the day it      *)
(* looked at or a later one.                                               *)
(***************************************************************************)
Refreshers == [at : {"waiting", "calling", "storing"}, day : RateDays, attempts : 0..AttemptsPerDay,
               codes : SUBSET Codes, dated : RateDays]

RateLookups == [at : {"idle", "day", "newest", "answered"}, base : Codes, quote : Codes,
                wanted : RateDays \cup {NeverDay}, cached : BOOLEAN,
                source : {"none", "same", "user", "live", "cache", "unavailable"},
                date : RateDays \cup {NeverDay}, known : RateDays \cup {NeverDay}]

RatesShaped ==
    /\ today \in RateDays /\ held \in [RateDays -> SUBSET Codes] /\ lagged \in BOOLEAN
    /\ refresher \in Refreshers
    /\ refresher.at # "waiting" => refresher.attempts < AttemptsPerDay
    /\ lookup \in [Lookups -> RateLookups]
    /\ stored \in [RateDays -> 0..AttemptsPerDay]

\* What is stored.
BaseIsHeld ==
    \A d \in RateDays : /\ held[d] # {} => Base \in held[d]
                        /\ stored[d] > 0 => (held[d] # {} /\ d <= today)

\* What the loop is about to store.
StoresWhatIsNew ==
    /\ refresher.day <= today
    /\ refresher.at = "storing" => refresher.dated <= today /\ Base \in refresher.codes
    /\ refresher.at = "storing" /\ ~lagged => refresher.dated >= refresher.day
    /\ refresher.at # "waiting" => \A d \in RateDays : d >= refresher.day => stored[d] = 0

\* What a write knows of its pair.
LookupKnows(want) ==
    /\ want.at \in {"day", "newest"} =>
          /\ want.source = "none"
          /\ want.known # NeverDay => HasPair(want.base, want.quote, want.known)
    /\ want.at = "newest" => ~want.cached
    /\ want.source \in {"live", "cache"} => HasPair(want.base, want.quote, want.date)

LookupsKnow == \A l \in Lookups : LookupKnows(lookup[l])

RatesInv ==
    /\ RatesShaped /\ BaseIsHeld /\ StoresWhatIsNew /\ LookupsKnow
    /\ OneSnapshotPerDay /\ RatesTell

(* A set of days that is not empty has a last one.                         *)
LEMMA LastOfDays ==
    ASSUME NEW S \in SUBSET RateDays, S # {}
    PROVE  Max(S) \in S /\ \A d \in S : Max(S) >= d
  <1>1. LastDay \in Nat /\ S \in SUBSET (0..LastDay)
    BY RatesAssumption DEF RateDays
  <1>2. QED
    BY <1>1, GreatestOf

(* The last days of the cache.                                             *)
LEMMA DaysOfPair ==
    ASSUME NEW b, NEW q
    PROVE  /\ DaysOf(b, q) \in SUBSET RateDays
           /\ NeverDay \notin RateDays
           /\ DaysOf(b, q) = {} => NewestRate(b, q) = NeverDay /\ KnownDay(b, q) = NeverDay
           /\ DaysOf(b, q) # {} => /\ NewestRate(b, q) \in DaysOf(b, q)
                                   /\ KnownDay(b, q) \in DaysOf(b, q)
                                   /\ \A d \in DaysOf(b, q) : NewestRate(b, q) >= d
  <1>1. DaysOf(b, q) \in SUBSET RateDays
    BY DEF DaysOf
  <1>2. NeverDay \notin RateDays
    BY RatesAssumption DEF NeverDay, RateDays
  <1>3. ASSUME DaysOf(b, q) # {}
        PROVE  \E d \in DaysOf(b, q) : \A e \in DaysOf(b, q) : d >= e
    BY <1>1, <1>3, LastOfDays
  <1>4. DaysOf(b, q) # {} => KnownDay(b, q) \in DaysOf(b, q)
    BY <1>3 DEF KnownDay
  <1>5. DaysOf(b, q) # {} => /\ NewestRate(b, q) \in DaysOf(b, q)
                             /\ \A d \in DaysOf(b, q) : NewestRate(b, q) >= d
    BY <1>1, LastOfDays DEF NewestRate
  <1>6. QED
    BY <1>1, <1>2, <1>4, <1>5 DEF NewestRate, KnownDay

LEMMA RatesStart == RatesInit => RatesInv
  <1> SUFFICES ASSUME RatesInit PROVE RatesInv
    OBVIOUS
  <1>1. 0 \in RateDays /\ 0 \in 0..AttemptsPerDay
    BY RatesAssumption DEF RateDays
  <1>2. NoLookup \in RateLookups /\ NoLookup.at = "idle" /\ NoLookup.source = "none"
    BY <1>1, RatesAssumption DEF NoLookup, RateLookups
  <1>3. Started \in Refreshers /\ Started.at = "waiting" /\ Started.day = 0
    BY <1>1 DEF Started, Refreshers
  <1>4. RatesShaped
    BY <1>1, <1>2, <1>3 DEF RatesInit, RatesShaped
  <1>5. BaseIsHeld /\ StoresWhatIsNew
    BY <1>3 DEF RatesInit, BaseIsHeld, StoresWhatIsNew
  <1>6. LookupsKnow /\ OneSnapshotPerDay /\ RatesTell
    BY <1>2 DEF RatesInit, LookupsKnow, LookupKnows, OneSnapshotPerDay, RatesTell
  <1>7. QED
    BY <1>4, <1>5, <1>6 DEF RatesInv

(* The cache only grows, so what a write knows stays so.                   *)
LEMMA LookupsStay ==
    ASSUME RatesInv, lookup' = lookup, \A d \in RateDays : held[d] \subseteq held'[d]
    PROVE  LookupsKnow' /\ RatesTell'
  <1>1. \A b, q, d : HasPair(b, q, d) => HasPair(b, q, d)'
    BY DEF HasPair
  <1>2. LookupsKnow'
    BY <1>1 DEF RatesInv, LookupsKnow, LookupKnows
  <1>3. RatesTell'
    BY <1>1 DEF RatesInv, RatesTell
  <1>4. QED
    BY <1>2, <1>3

(* The loop.                                                               *)
LEMMA LoopKeeps ==
    ASSUME RatesInv,
           \/ Look \/ SourceSilent \/ StoreSnapshot \/ StoreFails \/ RestartRefresher \/ NextDay
           \/ \E codes \in SUBSET Codes, dated \in RateDays : SourceAnswers(codes, dated)
    PROVE  RatesInv'
  <1>1. /\ LastDay \in Nat /\ AttemptsPerDay \in Nat /\ Base \in Codes
        /\ \A d \in RateDays : d \in 0..LastDay
    BY RatesAssumption DEF RateDays
  <1>2. /\ refresher \in Refreshers /\ stored \in [RateDays -> 0..AttemptsPerDay]
        /\ held \in [RateDays -> SUBSET Codes] /\ today \in RateDays /\ lagged \in BOOLEAN
        /\ refresher.at # "waiting" => refresher.attempts < AttemptsPerDay
        /\ lookup \in [Lookups -> RateLookups]
    BY DEF RatesInv, RatesShaped
  <1>3. lookup' = lookup
    BY DEF Look, SourceSilent, StoreSnapshot, StoreFails, RestartRefresher, NextDay, SourceAnswers
  <1>4. ASSUME NEW r \in Refreshers, refresher' = r, UNCHANGED <<today, held, stored, lookup>>,
               lagged' \in BOOLEAN, lagged => lagged',
               r.at # "waiting" => r.attempts < AttemptsPerDay,
               r.day <= today,
               r.at = "storing" => r.dated <= today /\ Base \in r.codes,
               r.at = "storing" /\ ~lagged' => r.dated >= r.day,
               r.at # "waiting" => \A d \in RateDays : d >= r.day => stored[d] = 0
        PROVE  RatesInv'
    <2>1. RatesShaped'
      BY <1>2, <1>4 DEF RatesShaped
    <2>2. BaseIsHeld' /\ OneSnapshotPerDay'
      BY <1>4 DEF RatesInv, BaseIsHeld, OneSnapshotPerDay
    <2>3. StoresWhatIsNew'
      BY <1>4 DEF StoresWhatIsNew
    <2>4. LookupsKnow' /\ RatesTell'
      BY <1>4, LookupsStay
    <2>5. QED
      BY <2>1, <2>2, <2>3, <2>4 DEF RatesInv
  <1>5. CASE Look
    <2> DEFINE attempts == IF refresher.day = today THEN refresher.attempts ELSE 0
               to == IF HasSnapshot(today) THEN "waiting" ELSE "calling"
               r == [refresher EXCEPT !.day = today, !.attempts = attempts, !.at = to]
    <2>1. attempts \in 0..AttemptsPerDay /\ attempts < AttemptsPerDay
      BY <1>1, <1>2, <1>5 DEF Look, Refreshers
    <2>2. refresher' = r /\ UNCHANGED <<today, held, lookup, stored, lagged>>
      BY <1>5 DEF Look
    <2> HIDE DEF attempts
    <2>3. to \in {"waiting", "calling"}
      OBVIOUS
    <2>4. to = "calling" => \A d \in RateDays : d >= today => stored[d] = 0
      <3>1. SUFFICES ASSUME to = "calling", NEW d \in RateDays, d >= today PROVE stored[d] = 0
        OBVIOUS
      <3>2. Base \notin held[today]
        BY <3>1 DEF HasSnapshot
      <3>3. stored[d] > 0 => held[d] # {} /\ d <= today /\ Base \in held[d]
        BY DEF RatesInv, BaseIsHeld
      <3>4. stored[d] \in Nat /\ d \in Int /\ today \in Int
        BY <1>1, <1>2
      <3>5. QED
        BY <3>1, <3>2, <3>3, <3>4
    <2> HIDE DEF to
    <2>5. r \in Refreshers /\ r.day = today /\ r.at = to /\ r.attempts = attempts
      BY <1>2, <2>1, <2>3 DEF Refreshers
    <2> HIDE DEF r
    <2>6. today <= today
      BY <1>1, <1>2
    <2>7. QED
      BY <1>2, <1>4, <2>1, <2>2, <2>3, <2>4, <2>5, <2>6
  <1>6. ASSUME NEW codes \in SUBSET Codes, NEW dated \in RateDays, SourceAnswers(codes, dated)
        PROVE  RatesInv'
    <2> DEFINE r == [refresher EXCEPT !.at = "storing", !.codes = codes \cup {Base}, !.dated = dated]
    <2>1. refresher' = r /\ UNCHANGED <<today, held, lookup, stored>>
      BY <1>6 DEF SourceAnswers
    <2>2. /\ r \in Refreshers /\ r.at = "storing" /\ r.dated = dated /\ Base \in r.codes
          /\ r.day = refresher.day /\ r.attempts = refresher.attempts
      BY <1>1, <1>2 DEF Refreshers
    <2> HIDE DEF r
    <2>3. /\ lagged' \in BOOLEAN
          /\ lagged => lagged'
          /\ ~lagged' => ~(dated < refresher.day)
      BY <1>2, <1>6 DEF SourceAnswers
    <2>4. refresher.day \in Int /\ dated \in Int /\ today \in Int
      BY <1>1, <1>2 DEF Refreshers
    <2>5. dated <= today
      <3>1. dated = today \/ dated = today - 1
        BY <1>6 DEF SourceAnswers
      <3>2. QED
        BY <2>4, <3>1
    <2>6. /\ refresher.at = "calling" /\ refresher.day <= today
          /\ \A d \in RateDays : d >= refresher.day => stored[d] = 0
      BY <1>6 DEF SourceAnswers, RatesInv, StoresWhatIsNew
    <2>7. ~lagged' => dated >= refresher.day
      BY <2>3, <2>4
    <2>8. /\ r.attempts < AttemptsPerDay /\ r.day <= today /\ r.dated <= today
          /\ r.at = "storing" /\ ~lagged' => r.dated >= r.day
      BY <1>2, <2>2, <2>5, <2>6, <2>7
    <2>9. \A d \in RateDays : d >= r.day => stored[d] = 0
      BY <2>2, <2>6
    <2>10. QED
      BY <1>4, <2>1, <2>2, <2>3, <2>8, <2>9
  <1>7. CASE SourceSilent \/ StoreFails
    <2>1. PICK n \in 0..AttemptsPerDay : n = refresher.attempts + 1
      BY <1>1, <1>2, <1>7 DEF SourceSilent, StoreFails, Refreshers
    <2>2. PICK cs \in SUBSET Codes :
              refresher' = [refresher EXCEPT !.at = "waiting", !.attempts = n, !.codes = cs]
      <3>1. CASE SourceSilent
        <4>1. refresher' = [refresher EXCEPT !.at = "waiting", !.attempts = n, !.codes = refresher.codes]
          BY <1>2, <2>1, <3>1 DEF SourceSilent, Refreshers
        <4>2. refresher.codes \in SUBSET Codes
          BY <1>2 DEF Refreshers
        <4>3. QED
          BY <4>1, <4>2
      <3>2. CASE StoreFails
        BY <2>1, <3>2 DEF StoreFails
      <3>3. QED
        BY <1>7, <3>1, <3>2
    <2> DEFINE r == [refresher EXCEPT !.at = "waiting", !.attempts = n, !.codes = cs]
    <2>3. r \in Refreshers /\ r.at = "waiting" /\ r.day = refresher.day
      BY <1>2 DEF Refreshers
    <2>4. refresher' = r /\ UNCHANGED <<today, held, lookup, stored, lagged>>
      BY <1>7, <2>2 DEF SourceSilent, StoreFails
    <2>5. refresher.day <= today
      BY DEF RatesInv, StoresWhatIsNew
    <2> HIDE DEF r
    <2>6. QED
      BY <1>2, <1>4, <2>3, <2>4, <2>5
  <1>8. CASE RestartRefresher
    <2>1. Started \in Refreshers /\ Started.at = "waiting" /\ Started.day = 0
      BY <1>1 DEF Started, Refreshers, RateDays
    <2>2. refresher' = Started /\ UNCHANGED <<today, held, lookup, stored, lagged>> /\ 0 <= today
      BY <1>1, <1>2, <1>8 DEF RestartRefresher
    <2>3. QED
      BY <1>2, <1>4, <2>1, <2>2
  <1>9. CASE NextDay
    <2>1. today' = today + 1 /\ UNCHANGED <<held, refresher, lookup, stored, lagged>>
      BY <1>9 DEF NextDay
    <2>2. today' \in RateDays
      BY <1>1, <1>2, <1>9 DEF NextDay, RateDays
    <2>3. RatesShaped' /\ OneSnapshotPerDay'
      BY <1>2, <2>1, <2>2 DEF RatesShaped, RatesInv, OneSnapshotPerDay
    <2>4. \A d \in RateDays : d <= today => d <= today'
      BY <1>1, <1>2, <2>1
    <2>5. BaseIsHeld'
      BY <2>1, <2>4 DEF RatesInv, BaseIsHeld
    <2>6. StoresWhatIsNew'
      BY <1>2, <2>1, <2>4 DEF RatesInv, StoresWhatIsNew, Refreshers
    <2>7. LookupsKnow' /\ RatesTell'
      BY <2>1, LookupsStay
    <2>8. QED
      BY <2>3, <2>5, <2>6, <2>7 DEF RatesInv
  <1>10. CASE StoreSnapshot
    <2>1. PICK d \in RateDays : d = refresher.dated
      BY <1>2 DEF Refreshers
    <2>2. PICK n \in 0..AttemptsPerDay : n = refresher.attempts + 1
      BY <1>1, <1>2, <1>10 DEF StoreSnapshot, Refreshers
    <2>3. PICK k \in 0..AttemptsPerDay : k = stored[d] + 1
      BY <1>1, <1>2, <1>10, <2>1 DEF StoreSnapshot
    <2>4. /\ refresher.at = "storing" /\ UNCHANGED <<today, lookup, lagged>>
          /\ held' = [held EXCEPT ![d] = held[d] \cup refresher.codes]
          /\ stored' = [stored EXCEPT ![d] = k]
          /\ refresher' = [refresher EXCEPT !.at = "waiting", !.attempts = n, !.codes = {}]
      BY <1>2, <1>10, <2>1, <2>2, <2>3 DEF StoreSnapshot
    <2>5. /\ Base \in refresher.codes /\ refresher.codes \subseteq Codes /\ d <= today
          /\ refresher.day <= today
          /\ ~lagged => stored[d] = 0
      BY <1>2, <2>1, <2>4 DEF RatesInv, StoresWhatIsNew, Refreshers
    <2>6. /\ refresher' \in Refreshers /\ refresher'.at = "waiting" /\ refresher'.day = refresher.day
      BY <1>2, <2>4 DEF Refreshers
    <2>7. RatesShaped'
      BY <1>2, <2>4, <2>5, <2>6 DEF RatesShaped
    <2>8. \A e \in RateDays : /\ held'[e] = IF e = d THEN held[d] \cup refresher.codes ELSE held[e]
                              /\ stored'[e] = IF e = d THEN k ELSE stored[e]
      BY <1>2, <2>4
    <2>9. BaseIsHeld'
      BY <2>4, <2>5, <2>8 DEF RatesInv, BaseIsHeld
    <2>10. StoresWhatIsNew'
      BY <2>4, <2>5, <2>6 DEF StoresWhatIsNew
    <2>11. OneSnapshotPerDay'
      <3>1. ~lagged => k = 1
        BY <2>3, <2>5
      <3>2. QED
        BY <2>4, <2>8, <3>1 DEF RatesInv, OneSnapshotPerDay
    <2>12. LookupsKnow' /\ RatesTell'
      BY <2>4, <2>8, LookupsStay
    <2>13. QED
      BY <2>7, <2>9, <2>10, <2>11, <2>12 DEF RatesInv
  <1>11. QED
    BY <1>5, <1>6, <1>7, <1>8, <1>9, <1>10

(* A step of one write.                                                    *)
LEMMA LookupMoves ==
    ASSUME RatesInv, NEW l \in Lookups, NEW w \in RateLookups, lookup' = [lookup EXCEPT ![l] = w],
           UNCHANGED <<today, held, refresher, stored, lagged>>,
           LookupKnows(w),
           w.at = "answered" =>
              /\ w.source = "live" => w.date = w.wanted
              /\ w.source = "cache" => ~w.cached /\ (w.known # NeverDay => w.date >= w.known)
              /\ w.source = "unavailable" /\ ~w.cached => w.known = NeverDay
    PROVE  RatesInv'
  <1>1. \A k \in Lookups : lookup'[k] = IF k = l THEN w ELSE lookup[k]
    BY DEF RatesInv, RatesShaped
  <1>2. \A b, q, d : HasPair(b, q, d)' <=> HasPair(b, q, d)
    BY DEF HasPair
  <1>3. RatesShaped'
    BY DEF RatesInv, RatesShaped
  <1>4. LookupsKnow'
    BY <1>1, <1>2 DEF RatesInv, LookupsKnow, LookupKnows
  <1>5. RatesTell'
    BY <1>1, <1>2 DEF RatesInv, RatesTell, LookupKnows
  <1>6. BaseIsHeld' /\ StoresWhatIsNew' /\ OneSnapshotPerDay'
    BY DEF RatesInv, BaseIsHeld, StoresWhatIsNew, OneSnapshotPerDay
  <1>7. QED
    BY <1>3, <1>4, <1>5, <1>6 DEF RatesInv

LEMMA LookupKeeps ==
    ASSUME RatesInv, NEW l \in Lookups,
           \/ \E b, q \in Codes, wanted \in RateDays \cup {NeverDay}, cached, given \in BOOLEAN :
                 WantRate(l, b, q, wanted, cached, given)
           \/ FindRate(l) \/ FallBack(l) \/ RateDone(l)
    PROVE  RatesInv'
  <1>1. lookup \in [Lookups -> RateLookups] /\ lookup[l] \in RateLookups /\ LookupKnows(lookup[l])
    BY DEF RatesInv, RatesShaped, LookupsKnow
  <1>2. ASSUME NEW b \in Codes, NEW q \in Codes, NEW wanted \in RateDays \cup {NeverDay},
               NEW cached \in BOOLEAN, NEW given \in BOOLEAN,
               WantRate(l, b, q, wanted, cached, given)
        PROVE  RatesInv'
    <2> DEFINE to == IF b = q \/ given THEN "answered" ELSE "day"
               source == IF b = q THEN "same" ELSE IF given THEN "user" ELSE "none"
               date == IF b = q \/ given THEN wanted ELSE NeverDay
               knows == KnownDay(b, q)
               w == [NoLookup EXCEPT !.at = to, !.base = b, !.quote = q, !.wanted = wanted,
                                     !.cached = cached, !.source = source, !.date = date,
                                     !.known = knows]
    <2>1. lookup' = [lookup EXCEPT ![l] = w] /\ UNCHANGED <<today, held, refresher, stored, lagged>>
      BY <1>2 DEF WantRate
    <2>2. to \in {"answered", "day"} /\ source \in {"same", "user", "none"}
          /\ date \in RateDays \cup {NeverDay}
      OBVIOUS
    <2>3. knows \in RateDays \cup {NeverDay} /\ (knows # NeverDay => HasPair(b, q, knows))
      BY DaysOfPair DEF DaysOf
    <2>4. to = "day" => source = "none"
      OBVIOUS
    <2> HIDE DEF to, source, date, knows
    <2>5. /\ w \in RateLookups /\ w.at = to /\ w.base = b /\ w.quote = q /\ w.source = source
          /\ w.known = knows
      BY ZenonT(30), <2>2, <2>3 DEF NoLookup, RateLookups
    <2> HIDE DEF w
    <2>6. LookupKnows(w)
      BY <2>2, <2>3, <2>4, <2>5 DEF LookupKnows
    <2>7. QED
      BY <2>1, <2>2, <2>5, <2>6, LookupMoves
  <1>3. ASSUME NEW source \in {"live", "cache", "unavailable"}, NEW date \in RateDays \cup {NeverDay},
               Answer(l, source, date), UNCHANGED <<today, held, refresher, stored, lagged>>,
               source \in {"live", "cache"} => HasPair(lookup[l].base, lookup[l].quote, date),
               source = "live" => date = lookup[l].wanted,
               source = "cache" => /\ ~lookup[l].cached
                                   /\ lookup[l].known # NeverDay => date >= lookup[l].known,
               source = "unavailable" /\ ~lookup[l].cached => lookup[l].known = NeverDay
        PROVE  RatesInv'
    <2> DEFINE w == [lookup[l] EXCEPT !.at = "answered", !.source = source, !.date = date]
    <2>1. lookup' = [lookup EXCEPT ![l] = w]
      BY <1>1, <1>3 DEF Answer
    <2>2. /\ w \in RateLookups /\ w.at = "answered" /\ w.source = source /\ w.date = date
          /\ w.base = lookup[l].base /\ w.quote = lookup[l].quote /\ w.cached = lookup[l].cached
          /\ w.known = lookup[l].known /\ w.wanted = lookup[l].wanted
      BY <1>1 DEF RateLookups
    <2> HIDE DEF w
    <2>3. LookupKnows(w)
      BY <1>3, <2>2 DEF LookupKnows
    <2>4. QED
      BY <1>3, <2>1, <2>2, <2>3, LookupMoves
  <1>4. CASE FindRate(l)
    <2>1. PICK want \in RateLookups : want = lookup[l]
      BY <1>1
    <2>2. want.at = "day" /\ UNCHANGED <<today, held, refresher, stored, lagged>>
      BY <1>4, <2>1 DEF FindRate
    <2>3. CASE HasPair(want.base, want.quote, want.wanted)
      <3>1. Answer(l, "live", want.wanted)
        BY <1>4, <2>1, <2>3 DEF FindRate
      <3>2. want.wanted \in RateDays \cup {NeverDay}
        BY <2>1 DEF RateLookups
      <3>3. QED
        BY <1>3, <2>1, <2>2, <2>3, <3>1, <3>2
    <2>4. CASE ~HasPair(want.base, want.quote, want.wanted) /\ want.cached
      <3>1. Answer(l, "unavailable", NeverDay)
        BY <1>4, <2>1, <2>4 DEF FindRate
      <3>2. QED
        BY <1>3, <2>1, <2>2, <2>4, <3>1
    <2>5. CASE ~HasPair(want.base, want.quote, want.wanted) /\ ~want.cached
      <3> DEFINE w == [want EXCEPT !.at = "newest"]
      <3>1. lookup' = [lookup EXCEPT ![l] = w]
        BY <1>1, <1>4, <2>1, <2>5 DEF FindRate
      <3>2. /\ w \in RateLookups /\ w.at = "newest" /\ w.source = want.source /\ w.date = want.date
            /\ w.base = want.base /\ w.quote = want.quote /\ w.cached = want.cached
            /\ w.known = want.known
        BY DEF RateLookups
      <3> HIDE DEF w
      <3>3. LookupKnows(w)
        BY <1>1, <2>1, <2>2, <2>5, <3>2 DEF LookupKnows
      <3>4. QED
        BY <2>2, <3>1, <3>2, <3>3, LookupMoves
    <2>6. QED
      BY <2>3, <2>4, <2>5
  <1>5. CASE FallBack(l)
    <2>1. PICK want \in RateLookups : want = lookup[l]
      BY <1>1
    <2>2. /\ want.at = "newest" /\ ~want.cached
          /\ UNCHANGED <<today, held, refresher, stored, lagged>>
          /\ want.known # NeverDay => HasPair(want.base, want.quote, want.known)
      BY <1>1, <1>5, <2>1 DEF FallBack, LookupKnows
    <2>3. want.known # NeverDay => want.known \in DaysOf(want.base, want.quote)
      BY <2>2 DEF DaysOf, HasPair
    <2>4. CASE DaysOf(want.base, want.quote) = {}
      <3>1. Answer(l, "unavailable", NeverDay)
        BY <1>5, <2>1, <2>4, DaysOfPair DEF FallBack
      <3>2. QED
        BY <1>3, <2>1, <2>2, <2>3, <2>4, <3>1
    <2>5. CASE DaysOf(want.base, want.quote) # {}
      <3>1. PICK d \in RateDays : /\ d = NewestRate(want.base, want.quote) /\ d # NeverDay
                                  /\ HasPair(want.base, want.quote, d)
                                  /\ want.known # NeverDay => d >= want.known
        BY <2>3, <2>5, DaysOfPair DEF DaysOf
      <3>2. Answer(l, "cache", d)
        BY <1>5, <2>1, <3>1 DEF FallBack
      <3>3. QED
        BY <1>3, <2>1, <2>2, <3>1, <3>2
    <2>6. QED
      BY <2>4, <2>5
  <1>6. CASE RateDone(l)
    <2>1. NoLookup \in RateLookups /\ NoLookup.at = "idle" /\ NoLookup.source = "none"
      BY RatesAssumption DEF NoLookup, RateLookups, RateDays
    <2>2. LookupKnows(NoLookup)
      BY <2>1 DEF LookupKnows
    <2>3. QED
      BY <1>6, <2>1, <2>2, LookupMoves DEF RateDone
  <1>7. QED
    BY <1>2, <1>4, <1>5, <1>6

LEMMA RatesAlways == RatesSpec => []RatesInv
  <1>1. RatesInv /\ [RatesNext]_ratesVars => RatesInv'
    <2> SUFFICES ASSUME RatesInv, [RatesNext]_ratesVars PROVE RatesInv'
      OBVIOUS
    <2>1. CASE UNCHANGED ratesVars
      <3>1. LookupsKnow' /\ RatesTell'
        BY <2>1, LookupsStay DEF ratesVars
      <3>2. RatesShaped' /\ BaseIsHeld' /\ StoresWhatIsNew' /\ OneSnapshotPerDay'
        BY <2>1 DEF ratesVars, RatesInv, RatesShaped, BaseIsHeld, StoresWhatIsNew, OneSnapshotPerDay
      <3>3. QED
        BY <3>1, <3>2 DEF RatesInv
    <2>2. CASE \E l \in Lookups :
                  \/ \E b, q \in Codes, wanted \in RateDays \cup {NeverDay}, cached, given \in BOOLEAN :
                        WantRate(l, b, q, wanted, cached, given)
                  \/ FindRate(l) \/ FallBack(l) \/ RateDone(l)
      BY <2>2, LookupKeeps
    <2>3. CASE RatesNext
      BY <2>2, <2>3, LoopKeeps DEF RatesNext
    <2>4. QED
      BY <2>1, <2>3
  <1>2. QED
    BY <1>1, RatesStart, PTL DEF RatesSpec

(* Every variable of the rates holds what its declaration says.            *)
THEOREM RatesAreTyped == RatesSpec => []RatesTypeOK
  <1>1. RatesInv => RatesTypeOK
    <2>1. SUFFICES ASSUME RatesInv PROVE RatesTypeOK
      OBVIOUS
    <2>2. \A l \in Lookups : lookup[l].source \in {"live", "cache"} => lookup[l].date \in RateDays
      BY <2>1 DEF RatesInv, LookupsKnow, LookupKnows, HasPair
    <2>3. QED
      BY <2>1, <2>2 DEF RatesInv, RatesShaped, Refreshers, RateLookups, RatesTypeOK
  <1>2. QED
    BY <1>1, RatesAlways, PTL

(* However often the process restarts, a day's rates are stored once, as   *)
(* long as the source is on the same day.                                  *)
THEOREM SnapshotsAreSingle == RatesSpec => []OneSnapshotPerDay
  <1>1. RatesInv => OneSnapshotPerDay
    BY DEF RatesInv
  <1>2. QED
    BY <1>1, RatesAlways, PTL

(* What an answer says of a rate is so, and what the pickers offer has a   *)
(* rate of the day that is shown.                                          *)
THEOREM RatesAreTold == RatesSpec => [](RatesTell /\ OfferedIsPriced)
  <1>1. RatesInv => RatesTell /\ OfferedIsPriced
    <2>1. SUFFICES ASSUME RatesInv, NEW home \in Codes, NEW c \in ListedRates(home)
                   PROVE  NewestRate(c, home) = Max(Snapshots)
      BY DEF RatesInv, OfferedIsPriced
    <2>2. Snapshots # {} /\ Snapshots \in SUBSET RateDays
      BY <2>1 DEF ListedRates, Snapshots
    <2>3. PICK d \in RateDays : d = Max(Snapshots)
      BY <2>2, LastOfDays
    <2>4. home \in held[d] /\ c \in held[d] /\ \A e \in Snapshots : d >= e
      BY <2>1, <2>2, <2>3, LastOfDays DEF ListedRates
    <2>5. d \in DaysOf(c, home) /\ DaysOf(c, home) \subseteq Snapshots
      BY <2>1, <2>4 DEF DaysOf, HasPair, Snapshots, HasSnapshot, RatesInv, BaseIsHeld
    <2>6. PICK e \in RateDays : e = NewestRate(c, home) /\ e \in DaysOf(c, home) /\ e >= d
      BY <2>5, DaysOfPair
    <2>7. d >= e
      BY <2>4, <2>5, <2>6
    <2>8. QED
      BY <2>3, <2>6, <2>7, RatesAssumption DEF RateDays
  <1>2. QED
    BY <1>1, RatesAlways, PTL

(***************************************************************************)
(* The instance the run checks: a behaviour is about one part.             *)
(***************************************************************************)
\* The arguments of the other behaviours are those of one call that waits.
ArgumentsInv == part = "arguments" => ArgsInv

LEMMA PartsOfService ==
    ServiceSpec => /\ TransportSpec
                   /\ LimitsSpec
                   /\ ChatToolsSpec
                   /\ McpCallsSpec
                   /\ ChatSessionsSpec
                   /\ ReportsSpec
                   /\ RatesSpec
                   /\ []ArgumentsInv
  <1>1. ServiceInit => /\ TransportInit
                       /\ LimitsInit
                       /\ ChatToolsInit
                       /\ McpCallsInit
                       /\ ChatSessionsInit
                       /\ ReportsInit
                       /\ RatesInit
    BY DEF ServiceInit
  <1>2. ServiceInit => ArgumentsInv
    BY ArgsStart DEF ServiceInit, ArgumentsInv
  <1>3. [ServiceNext]_serviceVars =>
           /\ [TransportNext]_transportVars
           /\ [LimitsNext]_limitsVars
           /\ [ChatToolsNext]_chatToolsVars
           /\ [McpCallsNext]_mcpCallsVars
           /\ [ChatSessionsNext]_chatSessionsVars
           /\ [ReportsNext]_reportsVars
           /\ [RatesNext]_ratesVars
    BY DEF ServiceNext, serviceVars
  <1>4. [ServiceNext]_serviceVars => [ToolArgsNext]_toolArgsVars /\ UNCHANGED part
    BY DEF ServiceNext, serviceVars
  <1>5. ArgumentsInv /\ [ServiceNext]_serviceVars => ArgumentsInv'
    BY <1>4, ArgsStep DEF ArgumentsInv
  <1>6. QED
    BY <1>1, <1>2, <1>3, <1>5, PTL
       DEF ServiceSpec, TransportSpec, LimitsSpec, ChatToolsSpec, McpCallsSpec, ChatSessionsSpec,
           ReportsSpec, RatesSpec

(* Every variable of the parts has a value the code can give it.           *)
THEOREM ServiceTyped == ServiceSpec => []ServiceTypeOK
  <1>1. ArgumentsInv => Of("arguments", ToolArgsTypeOK)
    BY ArgsShaped DEF ArgumentsInv, Of
  <1>2. /\ TransportTypeOK
        /\ ChatToolsTypeOK
        /\ McpCallsTypeOK
        /\ Of("arguments", ToolArgsTypeOK)
        /\ ChatSessionsTypeOK
        /\ ReportsTypeOK
        /\ RatesTypeOK
        => ServiceTypeOK
    BY DEF ServiceTypeOK, Of
  <1>3. QED
    BY <1>1, <1>2, PartsOfService, TransportTyped, ToolsTyped, ClientsAreTyped, ChatsAreTyped,
       ReportsAreTyped, RatesAreTyped, PTL

(* Whatever overlaps, is lost or is repeated: a request is handled once, a *)
(* call costs one attempt more for each thing that went wrong, a turn no   *)
(* more than its caps, a window no more than its limit, a question one run *)
(* of the delete it asked about, a day one snapshot of rates.              *)
THEOREM CallsCost == ServiceSpec => []CallsCostWhatTheyMay
  <1>1. HandledOnce /\ CallsCostOnce /\ TurnKeepsCaps /\ WindowsHold /\ OneRunPerQuestion /\ OneSnapshotPerDay
        => CallsCostWhatTheyMay
    BY DEF CallsCostWhatTheyMay, Of
  <1>2. QED
    BY <1>1, PartsOfService, RequestsHandledOnce, CallsAreCheap, ToolsBounded, WindowsAreKept,
       QuestionsAreAnsweredOnce, SnapshotsAreSingle, PTL

(* The model is told at once all that is wrong with a call and the newest  *)
(* of what was said, the user is asked before a delete, an answer about a  *)
(* rate says what is stored, and a wait is what the limit asks for.        *)
THEOREM CallersAreToldSo == ServiceSpec => []CallersAreTold
  <1>1. ArgumentsInv => Of("arguments", ToldAtOnce)
    BY DEF ArgumentsInv, ArgsInv, Of
  <1>2. /\ Of("arguments", ToldAtOnce)
        /\ HistoryIsNewest
        /\ DeletesWereAsked
        /\ RatesTell
        /\ OfferedIsPriced
        /\ WaitsAreExact
        => CallersAreTold
    BY DEF CallersAreTold, Of
  <1>3. QED
    BY <1>1, <1>2, PartsOfService, HistoriesAreNewest, ToolsBounded, RatesAreTold, WaitsAreTold, PTL

(* The figures of a report agree with each other, and the pages of a list  *)
(* with the rows.                                                          *)
THEOREM FiguresDoAgree == ServiceSpec => []FiguresAgree
  <1>1. UndisturbedReportsAgree /\ BudgetCardsAgree /\ PagesCoverOnce => FiguresAgree
    BY DEF FiguresAgree, Of
  <1>2. QED
    BY <1>1, PartsOfService, ReportsAgree, PTL
=============================================================================
