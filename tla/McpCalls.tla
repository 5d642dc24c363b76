------------------------------- MODULE McpCalls -------------------------------
(***************************************************************************)
(* Tool calls of an external app over MCP.  A call resolves its workspace  *)
(* inside the token's grant and a live membership, a delete is asked back  *)
(* once for exactly the same call, the token's minute is charged, and the  *)
(* handler of the web runs.  The client sends calls at once and repeats    *)
(* those whose answer it did not get.  Minutes and questions are in memory.*)
(***************************************************************************)
EXTENDS Naturals, FiniteSets

CONSTANTS
    McpTokens,
    CallKeys,      \* a delete tool, its workspace and its exact arguments
    Pending,       \* calls under way
    NoToken, NoKey,
    MaxCalls, MaxMcpWrites, MaxMcpDeletes,   \* of a token's minute
    MaxQuestions   \* bound on how often one call is asked back

ASSUME McpCallsAssumption ==
    /\ NoToken \notin McpTokens /\ NoKey \notin CallKeys /\ IsFiniteSet(Pending)
    /\ MaxCalls \in Nat /\ MaxMcpWrites \in Nat /\ MaxMcpDeletes \in Nat
    /\ MaxQuestions \in Nat

VARIABLES
    minute,     \* what a token has spent since its window began
    question,   \* the delete a token was asked about within five minutes
    member,     \* the person is a member, with a role that may delete
    pending,    \* calls: how far each is
    questions,  \* history: how often a token was asked about a delete
    answers     \* history: how often the handler of that delete ran

mcpCallsVars == <<minute, question, member, pending, questions, answers>>

NothingSpent == [calls |-> 0, writes |-> 0, deletes |-> 0]
IdleCall == [at |-> "idle", token |-> NoToken, key |-> NoKey, confirmed |-> FALSE]
Questions == McpTokens \X CallKeys

McpCallsInit ==
    /\ minute = [t \in McpTokens |-> NothingSpent]
    /\ question = [q \in Questions |-> FALSE]
    /\ member = TRUE
    /\ pending = [c \in Pending |-> IdleCall]
    /\ questions = [q \in Questions |-> 0]
    /\ answers = [q \in Questions |-> 0]

------------------------------------------------------------------------------
\* Around the calls.

\* The next call finds the window over, or the sweeper has dropped it.
MinuteEnds(t) ==
    /\ minute[t] # NothingSpent
    /\ minute' = [minute EXCEPT ![t] = NothingSpent]
    /\ UNCHANGED <<question, member, pending, questions, answers>>

QuestionAges(q) ==
    /\ question[q]
    /\ question' = [question EXCEPT ![q] = FALSE]
    /\ UNCHANGED <<minute, member, pending, questions, answers>>

RestartMcp ==
    /\ minute' = [t \in McpTokens |-> NothingSpent]
    /\ question' = [q \in Questions |-> FALSE]
    /\ pending' = [c \in Pending |-> IdleCall]
    /\ UNCHANGED <<member, questions, answers>>

LeaveWorkspace ==
    /\ member' = ~member
    /\ UNCHANGED <<minute, question, pending, questions, answers>>

------------------------------------------------------------------------------
\* One call.

AnswerCall(c) == pending' = [pending EXCEPT ![c] = IdleCall]
QuestionOf(c) == <<pending[c].token, pending[c].key>>

\* The workspace resolves: inside the grant, with a membership right now.
\* NoKey stands for a tool that deletes nothing.
ResolveCall(c, t, k, confirmed) ==
    /\ pending[c].at = "idle" /\ member
    /\ confirmed => k # NoKey
    /\ pending' = [pending EXCEPT ![c] =
          [at |-> IF k = NoKey THEN "spend" ELSE "confirm",
           token |-> t, key |-> k, confirmed |-> confirmed]]
    /\ UNCHANGED <<minute, question, member, questions, answers>>

(* Mutation: the question is looked at and stays until it is old. *)
LookAtQuestion(c) ==
    /\ pending[c].at = "confirm" /\ pending[c].confirmed
    /\ pending' = [pending EXCEPT ![c].at = IF question[QuestionOf(c)] THEN "spend" ELSE "ask"]
    /\ UNCHANGED <<minute, question, member, questions, answers>>

\* Looked at and removed under one lock.
TakeQuestion(c) ==
    /\ pending[c].at = "confirm" /\ pending[c].confirmed
    /\ question' = [question EXCEPT ![QuestionOf(c)] = FALSE]
    /\ pending' = [pending EXCEPT ![c].at = IF question[QuestionOf(c)] THEN "spend" ELSE "ask"]
    /\ UNCHANGED <<minute, member, questions, answers>>

Unconfirmed(c) ==
    /\ pending[c].at = "confirm" /\ ~pending[c].confirmed
    /\ pending' = [pending EXCEPT ![c].at = "ask"]
    /\ UNCHANGED <<minute, question, member, questions, answers>>

\* A delete is a write too.
Spends == {"read", "write", "delete"}
WritesIn(spend) == IF spend = "read" THEN 0 ELSE 1
DeletesIn(spend) == IF spend = "delete" THEN 1 ELSE 0

CanSpend(t, spend) ==
    /\ minute[t].calls + 1 <= MaxCalls
    /\ minute[t].writes + WritesIn(spend) <= MaxMcpWrites
    /\ minute[t].deletes + DeletesIn(spend) <= MaxMcpDeletes

SpendMinute(t, spend) ==
    minute' = [minute EXCEPT ![t].calls = @ + 1, ![t].writes = @ + WritesIn(spend),
                             ![t].deletes = @ + DeletesIn(spend)]

\* Asking is charged as a read; past the cap nothing is asked.
AskBack(c) ==
    LET t == pending[c].token
    IN /\ pending[c].at = "ask"
       /\ IF CanSpend(t, "read")
          THEN /\ questions[QuestionOf(c)] < MaxQuestions
               /\ SpendMinute(t, "read")
               /\ pending' = [pending EXCEPT ![c].at = "record"]
          ELSE AnswerCall(c) /\ UNCHANGED minute
       /\ UNCHANGED <<question, member, questions, answers>>

RecordQuestion(c) ==
    /\ pending[c].at = "record" /\ questions[QuestionOf(c)] < MaxQuestions
    /\ question' = [question EXCEPT ![QuestionOf(c)] = TRUE]
    /\ questions' = [questions EXCEPT ![QuestionOf(c)] = @ + 1]
    /\ AnswerCall(c)
    /\ UNCHANGED <<minute, member, answers>>

\* The charge, and then the handler; past a cap the call ends, with its
\* question already taken.
RunTool(c, spend) ==
    LET t == pending[c].token
    IN /\ pending[c].at = "spend" /\ (spend = "delete" <=> pending[c].key # NoKey)
       /\ IF CanSpend(t, spend)
          THEN /\ SpendMinute(t, spend)
               /\ answers' = IF pending[c].key = NoKey THEN answers
                             ELSE [answers EXCEPT ![QuestionOf(c)] = @ + 1]
          ELSE UNCHANGED <<minute, answers>>
       /\ AnswerCall(c)
       /\ UNCHANGED <<question, member, questions>>

McpCallsNext ==
    \/ \E t \in McpTokens : MinuteEnds(t)
    \/ \E q \in Questions : QuestionAges(q)
    \/ RestartMcp \/ LeaveWorkspace
    \/ \E c \in Pending :
          \/ \E t \in McpTokens, k \in CallKeys \cup {NoKey}, confirmed \in BOOLEAN :
                ResolveCall(c, t, k, confirmed)
          \/ TakeQuestion(c) \/ Unconfirmed(c) \/ AskBack(c) \/ RecordQuestion(c)
          \/ \E spend \in Spends : RunTool(c, spend)

McpCallsSpec == McpCallsInit /\ [][McpCallsNext]_mcpCallsVars

(***************************************************************************)
(* Properties.                                                             *)
(***************************************************************************)
\* Every variable holds what its declaration says; no minute is overdrawn.
McpCallsTypeOK ==
    /\ minute \in [McpTokens -> [calls : 0..MaxCalls, writes : 0..MaxMcpWrites,
                             deletes : 0..MaxMcpDeletes]]
    /\ question \in [Questions -> BOOLEAN] /\ member \in BOOLEAN
    /\ pending \in [Pending -> [at : {"idle", "confirm", "ask", "record", "spend"},
                                token : McpTokens \cup {NoToken},
                                key : CallKeys \cup {NoKey}, confirmed : BOOLEAN]]
    /\ questions \in [Questions -> 0..MaxQuestions]
    /\ answers \in [Questions -> 0..MaxQuestions]

\* However often a client repeats a confirmed delete, and however many copies
\* of it run at once, one question is answered by one run of the handler; a
\* question still open has not been answered.
OneRunPerQuestion ==
    \A q \in Questions : answers[q] + (IF question[q] THEN 1 ELSE 0) <= questions[q]
===============================================================================
