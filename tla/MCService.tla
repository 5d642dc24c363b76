----------------------------- MODULE MCService -----------------------------
(* What the API answers to the web and to assistants, on small instances:   *)
(* the encrypted transport, the limits, the tools of a chat turn and of     *)
(* connected clients, their arguments, the chats themselves, reports and    *)
(* exchange rates.  They share no state: a behaviour is about one of them,  *)
(* with the others at their initial state.                                  *)
EXTENDS Transport, Limits, ChatTools, McpCalls, ToolArgs, ChatSessions, Reports, Rates, TLC

CONSTANTS q1, q2   \* calls under way

VARIABLE part

Entry(kind, time, category, amount) ==
    [kind |-> kind, time |-> time, category |-> category, amount |-> amount]
\* Two rows of one amount, two that together reach a limit, an income.
SmallSheet ==
    <<Entry("expense", 8, "food", 120), Entry("expense", 11, "rent", 120),
      Entry("expense", 6, "food", 81), Entry("income", 12, "pay", 300),
      Entry("expense", 13, "fun", 40)>>
\* Ranges within a month, over one, of a day, and none at all.
SmallPeriods == {<<4, 5>>, <<4, 7>>, <<5, 5>>, <<6, 4>>, <<0, 7>>}
SmallLimits == [food |-> 120, fun |-> 50]

TwoCalls == [credential |-> 2, handshake |-> 0, authenticated |-> 0, anonymous |-> 0, chat |-> 2]
FewSeconds == [credential |-> 3, handshake |-> 1, authenticated |-> 2, anonymous |-> 1, chat |-> 2]

SameCalls == Permutations({q1, q2})

ServiceInit ==
    /\ part \in {"transport", "limits", "turns", "clients", "arguments", "chats", "reports", "rates"}
    /\ TransportInit /\ LimitsInit /\ ChatToolsInit /\ McpCallsInit /\ ChatSessionsInit /\ RatesInit
    /\ ReportsInit /\ (part # "reports" => recorded = {})
    /\ IF part = "arguments"
       THEN ToolArgsInit
       ELSE /\ call = [tool |-> "summary", args |-> MeantWell("summary")]
            /\ at = "sent" /\ told = {} /\ refusals = <<>>

ServiceNext ==
    /\ \/ part = "transport" /\ TransportNext
          /\ UNCHANGED <<limitsVars, chatToolsVars, mcpCallsVars>>
          /\ UNCHANGED <<toolArgsVars, chatSessionsVars, reportsVars, ratesVars>>
       \/ part = "limits" /\ LimitsNext
          /\ UNCHANGED <<transportVars, chatToolsVars, mcpCallsVars>>
          /\ UNCHANGED <<toolArgsVars, chatSessionsVars, reportsVars, ratesVars>>
       \/ part = "turns" /\ ChatToolsNext
          /\ UNCHANGED <<transportVars, limitsVars, mcpCallsVars>>
          /\ UNCHANGED <<toolArgsVars, chatSessionsVars, reportsVars, ratesVars>>
       \/ part = "clients" /\ McpCallsNext
          /\ UNCHANGED <<transportVars, limitsVars, chatToolsVars>>
          /\ UNCHANGED <<toolArgsVars, chatSessionsVars, reportsVars, ratesVars>>
       \/ part = "arguments" /\ ToolArgsNext
          /\ UNCHANGED <<transportVars, limitsVars, chatToolsVars, mcpCallsVars>>
          /\ UNCHANGED <<chatSessionsVars, reportsVars, ratesVars>>
       \/ part = "chats" /\ ChatSessionsNext
          /\ UNCHANGED <<transportVars, limitsVars, chatToolsVars, mcpCallsVars>>
          /\ UNCHANGED <<toolArgsVars, reportsVars, ratesVars>>
       \/ part = "reports" /\ ReportsNext
          /\ UNCHANGED <<transportVars, limitsVars, chatToolsVars, mcpCallsVars>>
          /\ UNCHANGED <<toolArgsVars, chatSessionsVars, ratesVars>>
       \/ part = "rates" /\ RatesNext
          /\ UNCHANGED <<transportVars, limitsVars, chatToolsVars, mcpCallsVars>>
          /\ UNCHANGED <<toolArgsVars, chatSessionsVars, reportsVars>>
    /\ UNCHANGED part

serviceVars ==
    <<part, transportVars, limitsVars, chatToolsVars, mcpCallsVars,
      toolArgsVars, chatSessionsVars, reportsVars, ratesVars>>
ServiceSpec == ServiceInit /\ [][ServiceNext]_serviceVars

\* A fact about one part is looked at in the behaviours about it.
Of(name, fact) == part = name => fact

\* Every variable of the parts has a value the code can give it.
ServiceTypeOK ==
    /\ Of("transport", TransportTypeOK) /\ Of("turns", ChatToolsTypeOK)
    /\ Of("clients", McpCallsTypeOK) /\ Of("arguments", ToolArgsTypeOK)
    /\ Of("chats", ChatSessionsTypeOK) /\ Of("reports", ReportsTypeOK) /\ Of("rates", RatesTypeOK)

\* What overlapping, lost and repeated calls may cost: a request is handled
\* once, a call once more after a lost answer, a turn no more than its caps,
\* a window of time no more than its limit; a question is answered by one
\* run of the delete it asked about, and a day's rates are stored once.
CallsCostWhatTheyMay ==
    /\ Of("transport", HandledOnce /\ CallsCostOnce)
    /\ Of("turns", TurnKeepsCaps)
    /\ Of("limits", WindowsHold)
    /\ Of("clients", OneRunPerQuestion)
    /\ Of("rates", OneSnapshotPerDay)

\* What callers are told is so: the model all that is wrong with its
\* arguments at once and the newest messages, the user of every delete before
\* it; an answer about a rate says what is stored, and a wait what the limit
\* asks for.
CallersAreTold ==
    /\ Of("arguments", ToldAtOnce)
    /\ Of("chats", HistoryIsNewest)
    /\ Of("turns", DeletesWereAsked)
    /\ Of("rates", RatesTell /\ OfferedIsPriced)
    /\ Of("limits", WaitsAreExact)

\* The figures of a report agree with each other, and the pages of a list with
\* the rows.
FiguresAgree == Of("reports", UndisturbedReportsAgree /\ BudgetCardsAgree /\ PagesCoverOnce)
=============================================================================
