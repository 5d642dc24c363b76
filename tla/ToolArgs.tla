------------------------------- MODULE ToolArgs -------------------------------
(***************************************************************************)
(* The arguments of a tool call.  The model may send anything; the reader  *)
(* collects what is wrong with a call, the model corrects what it is told, *)
(* and the call runs once nothing is.  A value is told by what a reader    *)
(* makes of it: "digits" are the string "7", "number" is the number 7.     *)
(***************************************************************************)
EXTENDS Naturals, Sequences, FiniteSets

CONSTANTS
    CalledTools,   \* the tools the model calls
    MaxSlips,      \* how many arguments of a first call may be amiss
    SlipValues     \* what may be sent for them

VARIABLES
    call,      \* the tool and the arguments as sent
    at,        \* "sent", "refused", "parsed", "running"
    told,      \* the arguments the refusal names
    refusals   \* history: who refused, and what it named

toolArgsVars == <<call, at, told, refusals>>

Strings == {"text", "long", "option", "digits", "decimal", "huge", "early", "late", "month"}
\* Of strings, of items, or of what neither reader takes.
Lists == {"none", "word", "words", "items", "dear", "many", "odd"}
Values == Strings \cup Lists \cup {"null", "blank", "number", "true", "object"}

\* One tool of each shape of arguments.
ToolShapes ==
    {"context", "search", "analysis", "summary", "budget", "create", "update", "delete", "items",
     "wallet", "category", "choices"}

ASSUME ToolArgsAssumption ==
    MaxSlips \in Nat /\ SlipValues \subseteq Values /\ CalledTools \subseteq ToolShapes

------------------------------------------------------------------------------
\* The readers: which values each takes.

Texts == Strings
Ids == Strings \ {"long"}
Options == {"option"}
Amounts == {"digits", "decimal", "huge"}
Dates == {"early", "late"}
Months == {"month"}
Ints == {"number", "digits"}
Flags == {"true"}
StringLists == {"none", "word", "words"}
ItemLists == {"none", "items", "dear"}

\* What a tool reads, and what it cannot do without.
RangeFields == [from |-> Dates, to |-> Dates]

WriteFields ==
    [type |-> Options, amount |-> Amounts, to_amount |-> Amounts, wallet_id |-> Ids,
     to_wallet_id |-> Ids, category_id |-> Ids, date |-> Dates, name |-> Texts,
     description |-> Texts]

ItemFields == [transaction_id |-> Ids, items |-> ItemLists]

ToolFields(tool) ==
    CASE tool = "context"  -> <<>>
      [] tool = "search"   -> [query |-> Texts, limit |-> Ints, min_amount |-> Amounts, from |-> Dates]
      [] tool = "analysis" -> RangeFields
      [] tool = "summary"  -> [from |-> Dates, to |-> Dates, group_by |-> Options]
      [] tool = "budget"   -> [month |-> Months]
      [] tool = "create"   -> WriteFields
      [] tool = "update"   -> [f \in DOMAIN WriteFields \cup {"transaction_id"} |->
                                 IF f = "transaction_id" THEN Ids ELSE WriteFields[f]]
      [] tool = "delete"   -> [transaction_id |-> Ids, confirmed |-> Flags]
      [] tool = "items"    -> ItemFields
      [] tool = "wallet"   -> [name |-> Texts, group_id |-> Ids, currency_code |-> Texts]
      [] tool = "category" -> [name |-> Texts, type |-> Options]
      [] tool = "choices"  -> [question |-> Texts, choices |-> StringLists]

Required(tool) ==
    CASE tool \in {"context", "search", "budget"} -> {}
      [] tool \in {"analysis", "summary"} -> {"from", "to"}
      [] tool = "create"   -> {"type", "amount", "wallet_id"}
      [] tool \in {"update", "delete"} -> {"transaction_id"}
      [] tool = "items"    -> {"transaction_id", "items"}
      [] tool = "wallet"   -> {"name"}
      [] tool = "category" -> {"name", "type"}
      [] tool = "choices"  -> {"question", "choices"}

HasRange(tool) == tool \in {"analysis", "summary"}

\* null is as good as nothing.
Given(args, f) == f \in DOMAIN args /\ args[f] # "null"

Rejected(tool, args) ==
    {f \in DOMAIN ToolFields(tool) : Given(args, f) /\ args[f] \notin ToolFields(tool)[f]}

\* A choice takes two, a list of items one.
TooShort(f) ==
    CASE f = "choices" -> {"none", "word"} [] f = "items" -> {"none"} [] OTHER -> {}

Missing(tool, args) ==
    {f \in Required(tool) : ~Given(args, f) \/ args[f] \in TooShort(f)}

\* The order is only looked at when both dates were read.
Reversed(tool, args) ==
    {f \in {"from"} : /\ HasRange(tool)
                      /\ Given(args, "from") /\ Given(args, "to")
                      /\ args["from"] = "late" /\ args["to"] = "early"}

(* Mutation: null is nothing, whatever its name. *)
UnknownUnlessNull(tool, args) == {f \in DOMAIN args \ DOMAIN ToolFields(tool) : args[f] # "null"}

\* Also an unknown null.
Unknown(tool, args) == DOMAIN args \ DOMAIN ToolFields(tool)

(* Mutation: the reader stops at the first problem. *)
FirstProblem(tool, args) ==
    LET all == Rejected(tool, args) \cup Missing(tool, args)
                  \cup Reversed(tool, args) \cup Unknown(tool, args)
    IN IF all = {} THEN {} ELSE {CHOOSE f \in all : TRUE}

Problems(tool, args) ==
    Rejected(tool, args) \cup Missing(tool, args) \cup Reversed(tool, args) \cup Unknown(tool, args)

\* One amount above the ceiling is enough; the refusal names "amount".
OverCeiling(tool, args) ==
    \/ tool \in {"create", "update"} /\ \E f \in {"amount", "to_amount"} : Given(args, f) /\ args[f] = "huge"
    \/ tool = "items" /\ args["items"] = "dear"

------------------------------------------------------------------------------
\* A value each reader takes, for a call that is meant well.
Fitting(tool, f) ==
    CASE f = "choices" -> "words" [] f = "items" -> "items"
      [] f = "to" -> "late" [] f = "from" -> "early"
      [] OTHER -> CHOOSE v \in ToolFields(tool)[f] \ {"huge", "late"} : TRUE

MeantWell(tool) == [f \in Required(tool) |-> Fitting(tool, f)]

\* What the model sends first: a good call but for a few arguments, some of
\* which are left out, and one the tool does not take.
Slips(tool) ==
    {slips \in SUBSET (DOMAIN ToolFields(tool) \cup {"stray"}) : Cardinality(slips) <= MaxSlips}

FirstCalls(tool) ==
    UNION {{[f \in (Required(tool) \cup slips) \ left |->
               IF f \in slips THEN odd[f] ELSE Fitting(tool, f)] : left \in SUBSET slips, odd \in [slips -> SlipValues]}
           : slips \in Slips(tool)}

CallsBegun == UNION {{[tool |-> t, args |-> a] : a \in FirstCalls(t)} : t \in CalledTools}

ToolArgsInit ==
    /\ call \in CallsBegun
    /\ at = "sent" /\ told = {} /\ refusals = <<>>

RefuseTool(by, fields) ==
    /\ at' = "refused" /\ told' = fields
    /\ refusals' = Append(refusals, [by |-> by, fields |-> fields])

Parse ==
    /\ at = "sent"
    /\ LET problems == Problems(call.tool, call.args)
       IN IF problems = {}
          THEN at' = "parsed" /\ UNCHANGED <<told, refusals>>
          ELSE RefuseTool("reader", problems)
    /\ UNCHANGED call

CheckCeiling ==
    /\ at = "parsed"
    /\ IF OverCeiling(call.tool, call.args)
       THEN RefuseTool("ceiling", {"amount"})
       ELSE at' = "running" /\ UNCHANGED <<told, refusals>>
    /\ UNCHANGED call

\* The amounts of a call that are large, as the model knows them.
LargeAmounts ==
    {f \in DOMAIN call.args \cap DOMAIN ToolFields(call.tool) :
       call.args[f] \in {"huge", "dear"} /\ ToolFields(call.tool)[f] \in {Amounts, ItemLists}}

\* The model corrects what it was told, and nothing else: a missing date to
\* any date, one out of order to an earlier one.
CorrectCall ==
    /\ at = "refused"
    /\ \E date \in IF Reversed(call.tool, call.args) = {} THEN Dates ELSE {"early"} :
          LET known == told \cap DOMAIN ToolFields(call.tool)
              lowered == IF told = {"amount"} THEN LargeAmounts ELSE {}
              kept == DOMAIN call.args \ told
          IN call' = [call EXCEPT !.args =
                [f \in (kept \cup known) |->
                   IF f \in known /\ ToolFields(call.tool)[f] = Dates THEN date
                   ELSE IF f \in known \cup lowered THEN Fitting(call.tool, f)
                   ELSE call.args[f]]]
    /\ at' = "sent" /\ told' = {}
    /\ UNCHANGED refusals

ToolArgsNext == Parse \/ CheckCeiling \/ CorrectCall

ToolArgsSpec == ToolArgsInit /\ [][ToolArgsNext]_toolArgsVars

(***************************************************************************)
(* Properties.                                                             *)
(***************************************************************************)
\* Every variable holds what its declaration says.
ToolArgsTypeOK ==
    /\ call.tool \in CalledTools /\ DOMAIN call.args \subseteq DOMAIN ToolFields(call.tool) \cup {"stray"}
    /\ at \in {"sent", "refused", "parsed", "running"}
    /\ at = "running" => DOMAIN call.args \subseteq DOMAIN ToolFields(call.tool)
    /\ told # {} <=> at = "refused"

\* The model is told everything that is wrong in one answer: a call that is
\* corrected as told is refused again only over what could not be seen
\* before, the order of dates that were not both given, and the ceiling.
ToldAtOnce ==
    \A i \in DOMAIN refusals : i > 1 =>
       /\ refusals[i - 1].by = "reader"
       /\ \/ refusals[i].by = "ceiling"
          \/ refusals[i].fields = {"from"} /\ refusals[i - 1].fields \cap {"from", "to"} # {}
===============================================================================
