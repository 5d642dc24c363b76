# oewang in TLA+

oewang is a shared book of income and expenses: a Rust API over PostgreSQL
(`src/apps/api`), a Python service that talks to the language models
(`src/apps/ai`) and a SvelteKit application (`src/apps/app`). This directory
holds models of what the API keeps and does, the TLC runs that check them and
the TLAPS proofs about them. `PROJECT.json` maps every definition to the lines it
models; the paths below are short for `src/apps/api/crates/...`.

## 1. Inventory

Everything the API keeps is in PostgreSQL at READ COMMITTED, except the file
bytes (local disk or S3) and what the pollers, the encrypted sessions, the turns
of the assistant and the rate limits hold in memory. Each service runs as one
instance (D75), though the receipt queue is written for several. Requests
interact through rows and row locks; the background loops (receipts, Telegram,
rates, statement imports) interact with them through tables that serve as queues.

| Component | State | What is hard | What makes it correct | Modules |
| --- | --- | --- | --- | --- |
| Ledger (`server/src/transactions`) | transactions, `wallets.balance` | a balance is moved by differences against a row read earlier; locks of wallets, rows, workspace; a request cut off anywhere | a balance is the sum of its live rows; a write happens at once or not at all; every row is priced in the workspace's currency | `Shapes`, `Ledger`, `Book`, `Selections` |
| Wallets, groups, categories (`server/src/accounts`) | wallets, the default flag, groups, categories | checks against rows another request is writing | one default, handed on; what is deleted is let go of | `Wallets`, `Categories`, `Ledger` |
| Workspace conversion (`server/src/workspaces/currency.rs`) | workspace currency, every `base_amount` | holds the workspace while writes hold wallets | all rows end in one currency | `Ledger`, `Selections` |
| Budgets (`server/src/budgets`) | budgets | two saves at once; the category goes meanwhile | one live budget for a category; cards that agree | `Categories`, `Reports` |
| Line items (`server/src/items`) | items, audit trail | figures by product read beside edits | what is shown agrees with the purchases; the log with the rows | `Items` |
| Receipt queue (`server/src/receipts`) | `receipt_jobs`, the tick of each process | minutes between the claim and the mark; crashes; several processes | one taker and one expense while a batch is in time; what a sender is told is so; it ends | `ReceiptQueue` |
| Reading of receipts (`domain/src/receipt.rs`) | none | figures that contradict each other | a checked draft adds up | `Drafts` |
| Telegram (`server/src/telegram`) | `telegram_updates`, links; queues and workers in memory | redelivery, restart, a worker closing as an update arrives; taps that overlap | at most once, in order, one at a time; one link each; a message says what is stored | `TelegramPoller`, `SavedMessages`, `Links`, `Tickets` |
| Statement import (`transactions/statement.rs`, `domain/src/csv_import.rs`) | import jobs, fingerprints | lookup before insert; locks row by row; crash of the task; notations of money | a row is imported once and as written; a job tells what happened, unless its transaction was aborted, and ends | `Imports`, `Statements` |
| Authentication (`server/src/auth`), passkeys | refresh tokens and families, one-time tokens, ceremonies | two rotations of one token; an end beside a rotation | one live token in a family; what an end finds is over for good; a ticket works once | `Sessions`, `TokenFamilies`, `Tickets` |
| Workspaces and members | memberships, invitations | two owners leaving at once | a workspace keeps an owner | `Members`, `Links` |
| Vault (`server/src/vault`) | files, chunks, previews | row and bytes change in separate steps; any of them stops half way | bytes last as long as the file; a deletion detaches | `Vault` |
| MCP (`server/src/mcp`) | codes, grants, tokens, questions, minutes | refreshes and repeats at once | a grant is one chain; a question is answered by one run | `McpGrants`, `McpCalls`, `Tickets` |
| AI chat (`server/src/ai`) | sessions, messages; budgets and questions of turns in memory | overlapping and repeated tool calls; a hang-up, a deadline, a silent service | caps hold; deletes were asked for; what is stored is what was sent; a turn ends | `ChatTools`, `ToolArgs`, `ChatStream`, `ChatSessions` |
| OWE1 transport (`server/src/owe1`, `clients/src/owe1_client.rs`) | crypto sessions and windows on both sides | lost, late, repeated requests; clocks apart; either side forgets | a request is handled once; a client forgets what is lost, and only that | `Transport` |
| Exchange rates (`server/src/fx`) | daily snapshots | a ladder of reads beside the loop that stores | an answer says which day it is of | `Rates` |
| Reports (`server/src/reports`) | none of their own | separate queries; ties; ranges | figures that agree with each other | `Reports` |
| Rate limits (`server/src/limits.rs`) | sliding windows in memory | the edge of a window; the sweep | never more than the limit; the wait is exact | `Limits` |
| AI service (`src/apps/ai`) | none kept | the rounds of its loop | it is the stream's other side | part of `ChatStream` |
| Web application, usage, start-up | cookies, configuration | rendering and wiring | | not modelled |

The hazards of this code, each at its line, with the properties that would catch
it, are listed in `PROJECT.json`.

## 2. Layout

A module has one component's state, one action per statement, message or
step, its type invariant and its properties. It shares no variable with another
component's module, except that `Ledger` holds the wallet and workspace writes
that meet the ledger's locks, and that `Book` and `TokenFamilies` are abstract
specifications that others implement. Definitions marked `Mutation:` are what a
plausible mistake would make of the definition they follow; each property is
violated when one of them takes its place.

Small instances are in the `MC` modules. Since TLC is asked many questions about
components that share no state, `MCTelegram`, `MCTurns`, `MCLasting`,
`MCBackground`, `MCWorkspace` and `MCService` each put several side by side: a variable `part`
(`about` in `MCBackground`, which puts `MCLasting` beside the receipt queue),
chosen at the start, names the component the behaviour is about, and the others
rest at one initial state. Nothing is lost by not interleaving them, because no
action of one reads or writes what another has. Invariants about a part carry
the condition `Of(part, ...)`, so a violation points at the part.

| Module | Models | How it corresponds to the code |
| --- | --- | --- |
| `Shapes` | `domain/src/ledger.rs` | valid rows and their signed effect on a wallet, in whole units |
| `Ledger` | `transactions/service.rs`, `accounts/service.rs`, `workspaces/currency.rs` | a session takes the statements of its service function one at a time; a plain SELECT reads what is committed, FOR UPDATE, FOR SHARE and UPDATE wait for the conflicting lock; `Disconnect` drops a request anywhere, `DeadlockVictim` is PostgreSQL choosing one of a circle |
| `Book` | what the ledger promises | entries are written, changed and struck in one step, and balances follow |
| `Selections` | bulk edit, bulk delete, export, conversion | rows read without a lock, written while live, logged by position |
| `Items` | `items/`, `repositories/items.rs`, audit | writes under a row lock with the log in the same transaction; the lists as functions of the rows |
| `Wallets` | the default flag and groups | statements interleave; an UPDATE looks at its row again after waiting |
| `Categories` | categories, budgets, and the rows that name them | checks without a lock, then the write |
| `Members` | roles, removal, invitations | read, count under lock, write |
| `Links` | chats linked to members | the end of the chat's link, the end of the member's, and the insert, each a statement, beside removals of a member, which are three statements too |
| `Vault` | upload, completion, preview, deletion, attachment | a row and one object per chunk change in separate steps; a task stops anywhere |
| `Sessions` | refresh tokens | rotation under the row's lock; five requests end tokens with an UPDATE that finds rows first and locks them one by one |
| `McpGrants` | OAuth tokens of clients | the same for grants |
| `TokenFamilies` | what rotation promises | one holder at a time, none after the end |
| `Tickets` | resets, links, codes, ceremonies | a claim that commits at once or with its effect |
| `TelegramPoller` | `telegram/poller.rs` | poll, claim, hand-over under the mutex, one worker for each chat, close, sweep |
| `SavedMessages` | `telegram/callback.rs`, `reply.rs` | a tap carries the text it saw and finds, checks, writes and rebuilds in steps; the web writes, and clears removed categories, meanwhile |
| `ReceiptQueue` | `receipts/` | release, claim (SKIP LOCKED), read, save, mark, tell, where the one message may not go out; time in minutes |
| `Drafts` | `domain/src/receipt.rs` | the arithmetic check |
| `Imports` | `bulk_create`, `statement.rs` | each row read, looked up, locked and inserted; unique index; job row; a query that fails under a row aborts the transaction and skips the row (`AbortRow`) |
| `Statements` | `domain/src/csv_import.rs` | a movement written as banks write it, and read back |
| `ChatTools` | `ai/tools.rs`, `ai/turns.rs` | gate, question, reservation, work |
| `ToolArgs` | the arguments of tools | a reader that collects all problems; a model that corrects what it is told |
| `ChatStream` | `ai/stream.rs` | a task between the AI service and the caller with a bounded channel |
| `ChatSessions` | sessions, messages, settings | begin, question, name, reply; renaming and deleting meanwhile |
| `McpCalls` | calls of connected clients | membership, question, a minute of calls, writes and deletes, work |
| `Transport` | `owe1/`, `owe1_client.rs` | both sides' sessions, the window of request ids, timeouts and retries |
| `Limits` | `limits.rs` | a window per bucket and caller, the wait, the sweep |
| `Reports` | `reports/`, lists, budgets' cards | every part a query of its own on the rows of its moment |
| `Rates` | `fx/` | the ladder of lookups beside the loop that stores |

External, modelled from how the code uses them: Telegram's side of a poll (it
keeps an update until a poll asks past it, or for `TelegramKeeps` days), the
network under the transport, the language model, PostgreSQL's locks, and storage.

## 3. What is checked

Runs that pass:

| Run | Question | Instance |
| --- | --- | --- |
| `ledger_rows` | Do balances match the ledger, is the book implemented, do writes never wait in a circle, is no live row left on a deleted wallet, is every row in the workspace currency? | two wallets, two rows, two requests; amounts 1 and 2, so that a transfer moves different sums on its two sides; two currencies, with conversions once one wallet is left |
| `ledger_live` | Does every request end; does a deleted row stay so, and a wallet with rows keep its currency? | two requests on one row of one wallet, two currencies |
| `telegram` | Is a job taken, saved, ended and told once, unless it is released from a process that holds it; is an update handled once and in order; do messages, drafts and links tell the truth? | two processes whose batch of two has a second job that outlasts the stale limit, a fault, expenses and files deleted; three updates of two chats over three days with a restart, a failed claim and a panic; three taps; two chats and two members |
| `turns` | Is what may be taken once taken once, and does every request end? | three tokens, three grants, three tickets, two requests each; three updates of a chat with a restart, a failed claim and a panic |
| `background` | Is a row imported once and as written, does a job tell the truth and end, is a stream stored as it was sent; does every queued receipt end, and is its sender told, while nobody deletes? | three batches that meet in two wallets and two rows, one loss; amounts from cents to millions in four column mappings; four events through a channel of two; one process that reads two receipts, a fault |
| `workspace` | Do owners, defaults, budgets, files, items and selections stay in order? | two requests on each |
| `service` | Do calls cost what they may, and do answers agree with the rows? | two calls over two sessions with a restart; two turns and a chat; one-call minutes; five rows with ties; two days and three currencies |

Bounds. Two requests are enough for every race found here: each lock is held by
one and waited for by another, each check is outdated by one other write, and the
proofs of section 5 take any number. Three batches let two of them meet a third
in opposite lock orders. `MaxFaults`, `MaxCrashes`, `MaxClaimErrors`, `MaxPanics`,
`MaxFailures`, `MaxLosses` and `MaxRestarts` count faults: one reaches each failing
branch from each state. `MaxDrift` stops updates of a row whose postings have left
every balance its effect can reach; it is not met while balances are right.
`MaxChanges`, `MaxTaps`, `MaxElsewhere`, `MaxBegun`, `MaxStamps`, `MaxEdits` and
`MaxQuestions` count what people do; `MaxSent`, `MaxSessions`, `MaxEvents` and
`MaxOutcomes` what goes over the wire; `MaxSlips` what is wrong with one call;
`LastTick`, `LastSecond`, `LastDay` and `MaxDay` the time that passes. Times and
limits are scaled to a few units that keep the relations of the code: a wait
shorter than the limit of a day, a batch whose last job does not fit the stale limit, a replay window
twice the skew, claims kept no shorter than Telegram keeps updates (the code keeps
them longer; the runs also take the equal case, where a sweep comes closest to a
redelivery). Symmetry is used for requests, processes and workers, in runs
without liveness properties.

Fairness. Ledger and sessions: a request that can go on does, also when it can
only now and then because others hold its locks (PostgreSQL queues lock waiters and
breaks deadlocks); nothing makes a client send a request. Receipts: the loop of a
live process goes on, minutes pass, people load pages; faults are finitely many.
Poller: a poll gets through in the end, the loop and the tasks run (tokio); nothing
is assumed of the people who write. Imports: the task of a batch is scheduled and
the database answers. Stream: the task runs and time passes; nothing is assumed of
the AI service or of the caller.

Deadlock checking is off where the system may stop because everybody did all the
bounds allow.

Conditions in a property or a theorem stand there because the model goes wrong
without them:

- `BalanceMatchesLedger` and `ImplementsBook` hold when no two requests in flight
  name the same row (`SharedRows = {}`): `double_reversal` shows the other case. A
  second property needs it too: an update whose movements cancel against the row
  it found takes no wallet lock (`net()` drops the wallet), so after another update
  moved the row away and the wallet was deleted it puts the row back on it. The
  same order with a change of the wallet's currency breaks `WalletCurrencySettled`
  where there are two wallets; `ledger_live` shares its row, and has one.
- `WritesNeverDeadlock` is about writes of rows. A conversion holds the workspace FOR
  UPDATE while it waits for a row, and the audit row of a delete waits for the
  workspace: PostgreSQL ends that circle, and `RowsPricedInWorkspaceCurrency`
  holds through it.
- `OneTaker` is not kept, and `receipts_taken_twice` shows it: the code takes three
  jobs of up to four minutes each (two calls of 60 s, each sent twice after a
  timeout) against a limit of ten, so a second process may take the last one.
  `OneTakerInTime` says that only such jobs get two takers, and `EndedJobsStay`,
  `ToldAsItEnded` and `SavesOnlyUnsaved` except the same jobs (`overrun`): for them
  the late process marks, tells and saves over the other. With the one process
  that D75 deploys, which releases before it claims, there are none
  (`NothingOverruns`). The comment at `repositories/receipts.rs:88-89` that "the save
  and the `done` mark share one transaction" is not so either; that a receipt is
  nevertheless saved once rests on the check before the read.
- `SavesOnlyUnsaved` needs that nobody attaches the file by hand while it is read:
  the check for a saved expense is minutes old when the queue saves.
- `SenderTold` excepts a Telegram file whose one message was lost: a process that
  dies between the mark and the message, or a message that cannot be made or sent
  (only logged), leaves its sender without one. The run that checks it has nobody
  delete the expense, without which the message cannot be made.
- `SessionsEnd` speaks of the tokens an UPDATE that ends a family finds, and
  `GrantsAreLineages` of the rows it found; the row that a rotation under way then
  inserts survives, as `family_outlives_reuse` shows for sign-ins (`GrantEndsWhole`
  fails the same way).
- `EndsTellTruth` speaks of imports whose transaction was not aborted under a row;
  of the others it says that they left nothing behind. Their counts say
  otherwise: `JobTellsTruth` is not kept.
- `MessageSaysWhatIsStored` is about a message that says "deleted", and about one whose
  buttons were tapped one at a time with nothing else going on.
- `DeletesWereAsked` says that a question about that entry was put to the user of that
  chat at some time; that it was within five minutes and not answered before is part
  of the model's guards and not of the property.
- `OneSnapshotPerDay` counts what is stored, while the source is on the same day.
- `BudgetCardsAgree` says that what is over is called exceeded, not the converse: a
  figure just above its limit rounds to 100 and is called a warning.
- `UnclaimedSurvive` speaks of unclaimed updates: one that was claimed when the
  process stopped comes back, and its own claim refuses it.
- `ChatsInOrder` holds without a failed claim: an update whose claim failed comes
  back after a restart, behind a later one that was handled.
- `OwnersRemainUnlessRaced`: owners are counted under lock only if the role read
  before was an owner's, so a member promoted after the read may be the last.
- `LeaversAreUnlinked` excepts a link made while its member was being removed.
- `JobsFinish` excepts a job whose process stopped: nothing picks it up again.
- `TurnEndsUnlessStuck` excepts a caller who stays and never reads: the send into
  the full channel is not under the deadline.
- `BytesGoWithFile` excepts a chunk or a preview written after the deletion by a
  request that had passed its check.
- `RowsReadBack` leaves out a currency's short name before the digits, which
  `DecimalPointStays` is about.

## 4. Where the code and its words differ

Five runs expect a violation, each a finding in `PROJECT.json`:

| Run | What happens |
| --- | --- |
| `double_reversal` | two deletes of one row read it live and both reverse it |
| `receipts_discarded` | an attempt that errs is retried without the limit of a day |
| `history_of_another` | a row deleted during a bulk update shifts the pairs, and rows are logged with their neighbour's history |
| `receipts_taken_twice` | the third job of a slow batch is released while its process still has it, and another process takes it: "two replicas never take the same row" |
| `family_outlives_reuse` | a spent refresh token comes back while its successor is rotated: the row inserted meanwhile is not found by the UPDATE that ends "every token descended from one login" |

Further statements of documents and comments are written down beside the
properties, marked `Not kept.`; TLC refutes each of them on the instances above.

| Definition | What happens |
| --- | --- |
| `Ledger.RowsPricedFromWalletCurrency` | a wallet's currency changes between `prepare()` and the lock, and the row keeps a rate of the old currency |
| `Members.AtLeastOneOwner` | the race described above |
| `Categories.BudgetsCanBeSeen`, `BudgetsOnExpenses` | a category is deleted, or changes its kind, between the check and the budget's insert |
| `Vault.ReadyBytesMatchHash` | a chunk that passed its check is stored after the completion hashed the file |
| `Items.NewestFirst` | audit rows carry the start of their transaction, so an earlier start that commits later is listed as older |
| `McpGrants.GrantEndsWhole` | as `family_outlives_reuse`, for a connected client whose grant is revoked while it refreshes: `mcp/oauth.rs:8` says "presenting a spent one revokes the whole grant", `docs/features/mcp.md:28` "Revoking ends it immediately" |
| `Imports.JobTellsTruth` | a query fails under a row (`transactions/service.rs:503`): the row is skipped, but PostgreSQL has aborted the transaction, its COMMIT rolls back without an error, and the job counts rows that are not there, where `transactions/statement.rs:49` says "The three counts stay exact" |
| `Statements.DecimalPointStays` | "Rp. 500" keeps the dot of the abbreviation and is read as a half, where `domain/src/csv_import.rs:5` says that "a decimal point cannot move" |
| `Imports.BadRowNeverFailsFile` | a row that the database refuses ends the whole batch |
| `Drafts.EveryFixIsNamed` | a figure that cannot be read is dropped without being named |
| `SavedMessages.TextStays` | a tap rebuilds the message with the text it carries |
| `ChatSessions.NoOrphans` | a reply is stored after the session was deleted |
| `ChatSessions.ChosenTitleKept` | a turn that read "New chat" names the chat after its owner did |
| `ChatTools.UnnamedFieldsKept` | an update writes back the fields it read before an edit in the web |
| `ChatTools.AnsweredInLaterTurn` | the confirmation may come in the turn that asked |
| `Reports.RangeIsInclusive` | rows later than midnight of the last day are left out |
| `ChatStream.TurnEnds` | the caller who never reads |

One more is seen in the model without a definition of its own: the workspace
currency can be changed on an unlocked look for transactions while the first one
is being written (`workspaceCurrency` of `Ledger`; the proof of section 5 assumes it
away).

## 5. What is proved

TLAPS checks these for every value of the constants, under the assumptions each
module names. Every component with a proof is first shown to be well typed, with
no further condition. An invariant is seldom inductive as it stands; what it is
strengthened by is the argument.

| Module | Theorem | Condition | Strengthened by |
| --- | --- | --- | --- |
| `LedgerProofs` | `BalancesMatch`, `LedgerImplementsBook` | no two requests in flight name one row | `LedgerInv`: what was posted for each row is its effect (`Posted`), the old shapes a session holds are current (`OldCurrent`), rows locked are live (`HeldLive`, `HeldAll`), sessions name different rows (`RequestsApart`, `CreatesFresh`) |
| | `RowsArePriced` | the workspace currency changes by conversion alone | `PricingInv`: a conversion is alone with the workspace (`ConverterAlone`), what it has reached is in the new currency and what it has not is in the old (`ConverterReached`), a writer's currency is that of the workspace while it holds it (`WriterUpToDate`) |
| | `LiveRowsHaveWallets`, `SettledStays` | no two requests in flight name one row, and transactions are finite in number | `WardInv`: locked wallets are live, locked by one and in ascending order (`LocksInv`), and what a wallet was checked for under its lock holds until the commit (`CheckHolds`). A write names a wallet it has locked or one its row named already, since a wallet that is not locked has a sum of movements of zero, and the only term of that sum is the row's (`NamedIsLockedOrOld`, `TotalOfOne`) |
| | `DeletedRowsStand` | | a row is locked by one and nobody else names the row of a create (`RowsInv`) |
| | `NoWriteDeadlock` | no two requests in flight name one row; wallets and transactions are finite in number | who holds what at which statement (`LockHolders`); then a circle would have one that waits for the greatest wallet, held by one that waits for a greater one |
| `TelegramProofs` | `JobsHaveOneTaker`, `SendersAreToldTheEnd`, `JobsEndOnce` | | `Leases`: jobs taken and not released are in processing, in one batch, once, and the minutes since their claim leave time for what is before them, so that only a claim late in its batch goes stale |
| | `NothingOverruns` | Batch times ReadTakes is at most StaleAfter, or there is one process | the same |
| | `NoExpenseBesideAnother` | nobody attaches the file by hand | the same, with what the check for a saved expense saw |
| | `UpdatesHandledOnce` | claims are kept as long as Telegram keeps updates | an update underway is in one place (`OnePlace`) and is kept from coming back by its claim or by Telegram having forgotten it (`Guarded`), which a sweep keeps because a claim is never older than its update (`KeptInTime`) |
| | `ChatsHaveOneTask` | | a running task is the one the map names (`KnownWorkers`) |
| | `ChatsKeepOrder` | | everything before an update underway is claimed or out of reach (`SettledBefore`, `BatchFull`), so what is accepted next comes after it (`AcceptedLast`), and what waits comes after what began (`StartedFirst`) |
| | `MessagesAreTrue` | | nothing offers or carries a confirmation before the question was put (`QuestionWasPut`); while the expense is there, no message and no waiting tap says that it is not (`LivesUnsaid`); a tap that is alone is about the text the message has (`AloneIsRight`) |
| | `LinksAreSingle` | | the links a handler ends are its own until it commits (`EndsAreHeld`), and a member who left while being linked is marked so (`LeaversAreCrossed`) |
| | `DraftsAgree` | | each figure is settled by those before it, so what was made of it is what would be made of it again (`LineOnce`, `SubtotalOnce`, `TotalOnce`) |
| `TurnsProofs` | `FamilyHasOneLive`, `GrantHasOneLive` | | the row a rotation holds still works (`RotatedStillWorks`, `RefreshedStillLive`), and rows belong to families that exist |
| | `SessionsImplementFamilies`, `GrantsImplementFamilies` | | the same invariants; a step of the rows is a step of `TokenFamilies` or none |
| | `TicketsWork`, `AnswersAreOnce` | | a ticket held is held by one and spent or locked (`OneHolder`, `HeldIsSpent`, `DoneIsSpent`) |
| `WorkspaceProofs` | `OwnersRemain`, `StepDownKnowingly` | | a request that counted holds the row of another owner (`AnotherIsHeld`) |
| | `OneDefaultAlways`, `FlagMoversWait`, `FlagIsHandedOn` | | a deleted wallet has no flag and at most one wallet has it (`OneFlag`); of two requests that looked for rows to lock, the one that looked last locks, or is going to, the wallet of the other, and what it is about to do to the flag fits the rows as they are (`RequestsFit`) |
| | `BudgetsAreSingle`, `DeletionsLetGo` | | no two live budgets are on one category (`OnePerCategory`), a row is cleared by one open deletion (`ClearedByOne`), and a deletion about to commit has cleared what it found (`WorksOn`) |
| | `BytesGo`, `FlagsTellTruth`, `DeletedFilesLetGo` | | what each task has written and read so far (`TaskFits`, `ReadFits`, `FlagFits`), and for each file the chunks and preview its status entails (`BytesFit`, `PreviewFits`, `HashFits`) |
| | `MarksAreInFiles`, `OnlyDeletionsSkew` | | a bulk action has read every row it names that is live, and after its write it holds those that still are (`KnowsItsRows`); what an export is about to mark is in a file (`ListedIsInFile`) |
| | `TrailsTellRows`, `DeletedRowsRest` | | of two edits of one row at most one has written and not committed (`EditsInOrder`) |
| | `ItemsAgree` | | the same, with the type of each row: a purchase has a rank, the number of later ones and itself, and the ranks are the numbers from one on (`RecencyIsRank`), so the list of purchases exists, shows each once and begins with the one the item is described by (`PurchasesAreListed`); items are groups of the purchases (`ItemsCountPurchases`) |
| `LastingProofs` | `PrintsOnce` | | a fingerprint in a batch's open transaction is in no other's and not yet in the ledger (`OwnInserts`, `FreshInserts`) |
| | `JobsTell` | | what became of the rows read so far is a tally of the fingerprints inserted (`Reading`), and what is recorded is a tally of those committed (`Recorded`); a tally counts each once (`TallyCounts`) |
| | `StreamTells` | | the end is still to be told or was the last thing said (`EndToTell`), the artifact at hand is that of the result just sent (`ArtifactAtHand`), the reply stored is the one said, and what was sent was said before (`ReplyIsSaid`, `SaidBeforeSent`) |
| | `RowsAreReadBack` | | what a bank writes has at most three groups and perhaps cents (`Spells`, `WholeSpells`, `CentsSpell`), the marks found to be decimal points are the one before the cents (`PointsFound`), and the digits joined are the amount (`JoinedFound`) |
| `ServiceProofs` | `RequestsHandledOnce`, `ForgottenAreLost` | the replay window is at least twice the skew | a request that was handled cannot be taken again: its time is over, its session is gone, or its id is remembered since its time was good (`HandledAreClosed`); a session called unknown stays so (`GoneIsGone`) |
| | `CallsAreCheap` | the same | a call sends once and once more for each kind of failure it was told (`TryBounded`), and a try it has given up did not run and never will, but for one whose answer was lost (`TryTold`) |
| | `WindowsAreKept`, `WaitsAreTold` | | the window of a key is the end of its passes, and those it left out are old (`KeyHolds`) |
| | `ToolsBounded` | | an open turn's budget is what its calls took (`TurnsTold`), a call at the gate names a turn and one that deletes an entry (`CallsNamed`), and an open question was put to the user (`OpenWasPut`) |
| | `QuestionsAreAnsweredOnce` | | answers given, calls about to run and the open question add up to no more than the questions asked (`QuestionsPay`) |
| | `ProblemsAreToldAtOnce` | | what each refusal leaves wrong: after the reader's nothing but the order of dates one of which was just filled in, after the ceiling's nothing (`ArgsLeft`) |
| | `HistoriesAreNewest` | | questions and replies alternate (`QuestionThenReply`), and a turn holds positions of messages that exist |
| | `SnapshotsAreSingle`, `RatesAreTold` | | what the loop is about to store is of no day stored before (`StoresWhatIsNew`), a day with rates has the base (`BaseIsHeld`), and a lookup names a day that holds its pair (`LookupsKnow`) |
| `ReportsProofs` | `ReportsAgree` | | undisturbed, a part read is what would be read (`PartsStand`), a comparison is of a range in order (`RangeInOrder`), and the pages read begin the one order of the rows (`PagesStand`): rows can be put in an order that leaves nothing open, and in one only (`OrdersExist`, `OrdersAreOne`) |

Sums over rows are folds, and what a fold computes is an induction over data. The
provers cannot instantiate the induction theorems of the library, but the
argument itself is first-order: of the subsets that a statement fails for, take one
of least size (`SubsetInduction` of `SumProofs`). The sum of a finite set is
defined there by its equations (`IsSum`), shown to exist and to be the fold
(`SumsExist`, `SumIs`), and what the models need follows: sums over two parts
(`SumJoins`), over groups (`SumOfGroups`), of differences (`SumOfDifferences`).
`LiveRowsHaveWallets`, `DraftsAgree`, `ReportsAgree`, `ItemsAgree` and
`RowsAreReadBack` rest on it, and `NoWriteDeadlock` on the same choice of the least.
What sorts is stated by what the sorted sequence is (`Orders` of a report,
`ListPurchases`), and the proof shows that there is one.

The condition of `BalancesMatch` is what `double_reversal` shows to be necessary,
and those of the receipt queue are explained in section 3: the code's constants
meet that of `NothingOverruns` only with one process.

The runs that put components side by side check properties that join those of
the parts: `OneEach`, `TurnsTypeOK` and `RotationsAreLineages` of `turns`,
`EndsTellTruth`, `RowsAreRead` and `LastingTypeOK` of `background`, `OneOfEach`, `StoredTruth`,
`ReadsAgree`, `DeletionsLeaveOrder` and `WorkspaceTypeOK` of `workspace`, `CallsCostWhatTheyMay`,
`CallersAreTold`, `FiguresAgree` and `ServiceTypeOK` of `service`,
`ChatsTellTheTruth`, `DraftsAddUp` and `TelegramTypeOK` of `telegram`. Each is a theorem too (the last ones of a proof
module): a behaviour of the composition is one of every part (`PartsOf...`), since
what another part does leaves its variables alone, so that the theorems about the
parts carry over.

Only model-checked:

- everything temporal under fairness (`RequestsEnd`, `JobsEnd`, `SenderTold`,
  `SessionsEnd`, `ChatsGoOn`, `JobsFinish`, `TurnEndsWhenBegun`): TLAPS has no ENABLED.
  Every other property of a passing run is stated by a theorem.

## 6. What is not modelled

- Formatting, translation, HTML and HTTP; ciphers, hashes and signatures (what is
  sealed opens only as what it was sealed as); image handling.
- The web application: forms and rendering over the API. `Transport` puts the API's
  client of the encrypted transport (Rust, used towards the AI service) before the
  API's own server. The client that calls that server in production is the web
  application's (`src/apps/app`, `src/lib/server/api.ts:233-235`, TypeScript): it retries
  once in the same way, but drops whatever session it then has, where the Rust client
  drops only the one the refused call was made with. `ForgetsOnlyLost` is not claimed
  for it. Usage: sums over rows.
- Start-up, configuration and migrations.
- The ladder of attempts inside the AI service's extraction, and its side of the
  transport, which follows the same protocol in Python.
- Registration, verification mail and TOTP; client registration of MCP; the quota
  and download links of the vault; reordering, and the manual correction of a
  balance; date formats of statements and the model that maps their columns;
  memory of the assistant. Of the notations of money, a minus after the digits, a sign
  before a short name and a first group above 999. These parts are named in the notes of the components.
- Rounding of money: amounts are whole units in `Ledger` and hundredths in `Drafts`
  and `Statements`, where the code's decimals agree with integers. A positive
  amount that rounds to zero is therefore not seen.
- PostgreSQL's lock queue: any waiter may be next, which allows more than it
  does. The order in which one UPDATE locks its rows depends on its plan; the
  models take any order, or, where the statement orders its rows, that order.
