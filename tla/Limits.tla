-------------------------------- MODULE Limits --------------------------------
(***************************************************************************)
(* The rate limiter (server/limits.rs): sliding windows in memory, one per *)
(* bucket and caller, filled by the requests and the chat turns, emptied   *)
(* of what has aged out by a sweeper, and forgotten by a restart.          *)
(***************************************************************************)
EXTENDS Naturals, Sequences, FiniteSets, SequencesExt

CONSTANTS
    Callers,      \* addresses; workspaces, for chat turns
    LimitedTo,    \* each bucket's limit: how many in a window, 0 is no limit
    WindowOf,     \* each bucket's window, in seconds
    Paths,        \* what is asked for
    LastSecond    \* bounds the clock

Buckets == {"credential", "handshake", "authenticated", "anonymous", "chat"}

ASSUME LimitsAssumption ==
    /\ LimitedTo \in [Buckets -> Nat] /\ WindowOf \in [Buckets -> Nat \ {0}]
    /\ LastSecond \in Nat

VARIABLES
    windows,    \* the calls counted, oldest first
    passed,     \* history: when calls were let through since the restart
    refusedAt,  \* history: the last refusal of each, and the wait it named
    second      \* the clock

limitsVars == <<windows, passed, refusedAt, second>>

Keys == Buckets \X Callers
Never == [at |-> 0, wait |-> 0]

LimitsInit ==
    /\ windows = [k \in Keys |-> <<>>]
    /\ passed = [k \in Keys |-> <<>>]
    /\ refusedAt = [k \in Keys |-> Never]
    /\ second = 1

\* Which bucket a request is counted in; the health and the internal routes
\* are in none.
IsCredentialRoute(path) == path = "credential"

Classify(path, token) ==
    CASE path = "health" -> {}
      [] path = "handshake" -> {"handshake"}
      [] IsCredentialRoute(path) -> {"credential"}
      [] OTHER -> IF token THEN {"authenticated"} ELSE {"anonymous"}

\* How many of the oldest have aged out, one after the other.
Aged(stamps, bucket, now) ==
    Max({n \in 0..Len(stamps) : \A i \in 1..n : stamps[i] + WindowOf[bucket] <= now})

Counted(stamps, bucket, now) == SubSeq(stamps, Aged(stamps, bucket, now) + 1, Len(stamps))

(* Mutation: the wait is until the window of the newest call ends. *)
WaitForNewest(stamps, bucket, now) == Last(stamps) + WindowOf[bucket] - now

\* Until the oldest call counted ages out; never zero.
RetryAfter(stamps, bucket, now) ==
    LET wait == Head(stamps) + WindowOf[bucket] - now IN IF wait < 1 THEN 1 ELSE wait

CheckLimit(bucket, caller) ==
    LET k == <<bucket, caller>>
        stamps == Counted(windows[k], bucket, second)
    IN  /\ LimitedTo[bucket] > 0
        /\ IF Len(stamps) >= LimitedTo[bucket]
           THEN /\ windows' = [windows EXCEPT ![k] = stamps]
                /\ refusedAt' = [refusedAt EXCEPT ![k] = [at |-> second, wait |-> RetryAfter(stamps, bucket, second)]]
                /\ UNCHANGED passed
           ELSE /\ windows' = [windows EXCEPT ![k] = Append(stamps, second)]
                /\ passed' = [passed EXCEPT ![k] = Append(@, second)]
                /\ refusedAt' = [refusedAt EXCEPT ![k] = Never]
        /\ UNCHANGED second

\* A request is counted before it is decrypted.
EnforceLimit(caller, path, token) ==
    \E bucket \in Classify(path, token) : CheckLimit(bucket, caller)

\* A turn is counted for its workspace, whichever surface starts it.
CountChatTurn(workspace) == CheckLimit("chat", workspace)

(* Mutation: a window goes when its oldest call has aged out. *)
SweepOldest ==
    /\ windows' = [k \in Keys |->
                     IF windows[k] # <<>> /\ Head(windows[k]) + WindowOf[k[1]] > second
                     THEN windows[k] ELSE <<>>]
    /\ UNCHANGED <<passed, refusedAt, second>>

SweepWindows ==
    /\ windows' = [k \in Keys |->
                     IF windows[k] # <<>> /\ Last(windows[k]) + WindowOf[k[1]] > second
                     THEN windows[k] ELSE <<>>]
    /\ UNCHANGED <<passed, refusedAt, second>>

\* In memory: a restart forgives everyone.
RestartLimits ==
    /\ windows' = [k \in Keys |-> <<>>] /\ passed' = [k \in Keys |-> <<>>]
    /\ refusedAt' = [k \in Keys |-> Never]
    /\ UNCHANGED second

NextSecond == second < LastSecond /\ second' = second + 1 /\ UNCHANGED <<windows, passed, refusedAt>>

LimitsNext ==
    \/ \E caller \in Callers, path \in Paths, token \in BOOLEAN : EnforceLimit(caller, path, token)
    \/ \E workspace \in Callers : CountChatTurn(workspace)
    \/ SweepWindows \/ RestartLimits \/ NextSecond

LimitsSpec == LimitsInit /\ [][LimitsNext]_limitsVars

(***************************************************************************)
(* Properties.                                                             *)
(***************************************************************************)
\* A sliding window, not a fixed one: whenever a window of time begins, no
\* more calls of one caller pass in it than the limit says.
WindowsHold ==
    \A k \in Keys, start \in 1..LastSecond :
       LimitedTo[k[1]] > 0 =>
          Cardinality({i \in DOMAIN passed[k] : passed[k][i] \in start..(start + WindowOf[k[1]] - 1)})
             <= LimitedTo[k[1]]

\* A caller that waits as long as it was told, and no less, passes.
WaitsAreExact ==
    \A k \in Keys :
       LET told == refusedAt[k]
           left(now) == Len(Counted(passed[k], k[1], now))
       IN  told # Never => /\ left(told.at + told.wait) < LimitedTo[k[1]]
                           /\ \A now \in told.at..(told.at + told.wait - 1) : left(now) >= LimitedTo[k[1]]
===============================================================================
