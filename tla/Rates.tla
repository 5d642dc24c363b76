-------------------------------- MODULE Rates --------------------------------
(***************************************************************************)
(* Exchange rates: one loop stores the source's snapshot of the day, every *)
(* currency against one base; a write resolves its rate down a ladder of   *)
(* local reads, never from the source; the pickers list the newest         *)
(* snapshot.  A rate is told by its day: what it is worth is left out.     *)
(***************************************************************************)
EXTENDS Naturals, FiniteSets, FiniteSetsExt

CONSTANTS
    Codes, Base,      \* currencies, and the one the source quotes against
    LastDay,          \* bound on the days that pass
    AttemptsPerDay,   \* calls of the source
    Lookups           \* writes under way

ASSUME RatesAssumption == Base \in Codes /\ LastDay \in Nat /\ AttemptsPerDay \in Nat

RateDays == 0..LastDay
NeverDay == LastDay + 1   \* no day, or one without a snapshot: before the first, or ahead

VARIABLES
    today,      \* the day
    held,       \* the currencies of each day's snapshot, none if not stored
    refresher,  \* the loop: where it is, its day, its attempts on it
    lookup,     \* writes: what each wants, how far it is, what it found
    stored,     \* history: how often a snapshot of a day was written
    lagged      \* history: the source gave a snapshot of an earlier day

ratesVars == <<today, held, refresher, lookup, stored, lagged>>

Started == [at |-> "waiting", day |-> 0, attempts |-> 0, codes |-> {}, dated |-> 0]
NoLookup == [at |-> "idle", base |-> Base, quote |-> Base, wanted |-> 0, cached |-> FALSE,
             source |-> "none", date |-> NeverDay, known |-> NeverDay]

RatesInit ==
    /\ today = 0 /\ held = [d \in RateDays |-> {}]
    /\ refresher = Started
    /\ lookup = [l \in Lookups |-> NoLookup]
    /\ stored = [d \in RateDays |-> 0] /\ lagged = FALSE

------------------------------------------------------------------------------
\* The cache.

\* A direct row, or both currencies against the base on one day.
HasPair(b, q, d) == d \in RateDays /\ {b, q} \subseteq held[d]
DaysOf(b, q) == {d \in RateDays : HasPair(b, q, d)}

(* Mutation: the first row found. *)
OldestRate(b, q) == IF DaysOf(b, q) = {} THEN NeverDay ELSE Min(DaysOf(b, q))

NewestRate(b, q) == IF DaysOf(b, q) = {} THEN NeverDay ELSE Max(DaysOf(b, q))

\* History: the last day a rate of the pair is known for.
KnownDay(b, q) ==
    IF DaysOf(b, q) = {} THEN NeverDay
    ELSE CHOOSE d \in DaysOf(b, q) : \A e \in DaysOf(b, q) : d >= e

(* Mutation: any snapshot will do. *)
HasAnySnapshot(d) == \E e \in RateDays : e # d /\ Base \in held[e]

HasSnapshot(d) == Base \in held[d]

Snapshots == {d \in RateDays : HasSnapshot(d)}

(* Mutation: whatever the newest snapshot carries. *)
ListedWithoutHome(home) ==
    IF Snapshots = {} THEN {} ELSE {c \in held[Max(Snapshots)] : c # home}

\* The newest snapshot; without the home currency in it, nothing.
ListedRates(home) ==
    IF Snapshots = {} \/ home \notin held[Max(Snapshots)]
    THEN {}
    ELSE {c \in held[Max(Snapshots)] : c # home}

------------------------------------------------------------------------------
\* The loop, once an hour.

Look ==
    LET attempts == IF refresher.day = today THEN refresher.attempts ELSE 0
    IN /\ refresher.at = "waiting" /\ attempts < AttemptsPerDay
       /\ refresher' = [refresher EXCEPT !.day = today, !.attempts = attempts,
             !.at = IF HasSnapshot(today) THEN "waiting" ELSE "calling"]
       /\ UNCHANGED <<today, held, lookup, stored, lagged>>

\* The source's day may not have turned yet; a currency may be missing.
SourceAnswers(codes, dated) ==
    /\ refresher.at = "calling" /\ dated \in {today, today - 1} \cap RateDays
    /\ refresher' = [refresher EXCEPT !.at = "storing", !.codes = codes \cup {Base}, !.dated = dated]
    /\ lagged' = (lagged \/ dated < refresher.day)
    /\ UNCHANGED <<today, held, lookup, stored>>

SourceSilent ==
    /\ refresher.at = "calling"
    /\ refresher' = [refresher EXCEPT !.at = "waiting", !.attempts = @ + 1]
    /\ UNCHANGED <<today, held, lookup, stored, lagged>>

\* In one statement; rows a snapshot of that day had before stay.
StoreSnapshot ==
    LET d == refresher.dated
    IN /\ refresher.at = "storing" /\ stored[d] < AttemptsPerDay
       /\ held' = [held EXCEPT ![d] = @ \cup refresher.codes]
       /\ stored' = [stored EXCEPT ![d] = @ + 1]
       /\ refresher' = [refresher EXCEPT !.at = "waiting", !.attempts = @ + 1, !.codes = {}]
       /\ UNCHANGED <<today, lookup, lagged>>

\* The database refuses: counted like any attempt.
StoreFails ==
    /\ refresher.at = "storing"
    /\ refresher' = [refresher EXCEPT !.at = "waiting", !.attempts = @ + 1, !.codes = {}]
    /\ UNCHANGED <<today, held, lookup, stored, lagged>>

\* The attempts are in memory.
RestartRefresher ==
    /\ refresher' = Started /\ refresher # Started
    /\ UNCHANGED <<today, held, lookup, stored, lagged>>

NextDay ==
    /\ today < LastDay
    /\ today' = today + 1
    /\ UNCHANGED <<held, refresher, lookup, stored, lagged>>

------------------------------------------------------------------------------
\* The ladder of one write.  "cached" stands for an imported row, which takes
\* the rate of its own day or none.

Answer(l, source, date) ==
    lookup' = [lookup EXCEPT ![l].at = "answered", ![l].source = source, ![l].date = date]

\* One currency, or a rate the user gave, ends it at once.
WantRate(l, b, q, wanted, cached, given) ==
    /\ lookup[l].at = "idle"
    /\ lookup' = [lookup EXCEPT ![l] =
          [NoLookup EXCEPT !.at = IF b = q \/ given THEN "answered" ELSE "day",
             !.base = b, !.quote = q, !.wanted = wanted, !.cached = cached,
             !.source = IF b = q THEN "same" ELSE IF given THEN "user" ELSE "none",
             !.date = IF b = q \/ given THEN wanted ELSE NeverDay,
             !.known = KnownDay(b, q)]]
    /\ UNCHANGED <<today, held, refresher, stored, lagged>>

FindRate(l) ==
    LET want == lookup[l]
    IN /\ want.at = "day"
       /\ IF HasPair(want.base, want.quote, want.wanted)
          THEN Answer(l, "live", want.wanted)
          ELSE IF want.cached
               THEN Answer(l, "unavailable", NeverDay)
               ELSE lookup' = [lookup EXCEPT ![l].at = "newest"]
       /\ UNCHANGED <<today, held, refresher, stored, lagged>>

(* Mutation: there is always a newest rate. *)
FallBackOnNothing(l) ==
    /\ lookup[l].at = "newest"
    /\ Answer(l, "cache", NewestRate(lookup[l].base, lookup[l].quote))
    /\ UNCHANGED <<today, held, refresher, stored, lagged>>

FallBack(l) ==
    LET newest == NewestRate(lookup[l].base, lookup[l].quote)
    IN /\ lookup[l].at = "newest"
       /\ IF newest = NeverDay
          THEN Answer(l, "unavailable", NeverDay)
          ELSE Answer(l, "cache", newest)
       /\ UNCHANGED <<today, held, refresher, stored, lagged>>

RateDone(l) ==
    /\ lookup[l].at = "answered"
    /\ lookup' = [lookup EXCEPT ![l] = NoLookup]
    /\ UNCHANGED <<today, held, refresher, stored, lagged>>

RatesNext ==
    \/ Look \/ SourceSilent \/ StoreSnapshot \/ StoreFails \/ RestartRefresher \/ NextDay
    \/ \E codes \in SUBSET Codes, dated \in RateDays : SourceAnswers(codes, dated)
    \/ \E l \in Lookups :
          \/ \E b, q \in Codes, wanted \in RateDays \cup {NeverDay}, cached, given \in BOOLEAN :
                WantRate(l, b, q, wanted, cached, given)
          \/ FindRate(l) \/ FallBack(l) \/ RateDone(l)

RatesSpec == RatesInit /\ [][RatesNext]_ratesVars

(***************************************************************************)
(* Properties.                                                             *)
(***************************************************************************)
\* Every variable holds what its declaration says.
RatesTypeOK ==
    /\ today \in RateDays /\ held \in [RateDays -> SUBSET Codes] /\ lagged \in BOOLEAN
    /\ refresher.at \in {"waiting", "calling", "storing"} /\ refresher.attempts \in 0..AttemptsPerDay
    /\ stored \in [RateDays -> 0..AttemptsPerDay]
    /\ \A l \in Lookups :
          /\ lookup[l].at \in {"idle", "day", "newest", "answered"}
          /\ lookup[l].source \in {"none", "same", "user", "live", "cache", "unavailable"}
          /\ lookup[l].source \in {"live", "cache"} => lookup[l].date \in RateDays

\* What an answer says of a rate is so, although the loop stores between its
\* reads: the rate is one of that day, a fallback is at least as new as all
\* that was known when the write began, and a write is only refused when
\* nothing was.
RatesTell ==
    \A l \in Lookups :
       LET want == lookup[l]
       IN want.at = "answered" =>
          /\ want.source \in {"live", "cache"} => HasPair(want.base, want.quote, want.date)
          /\ want.source = "live" => want.date = want.wanted
          /\ want.source = "cache" => ~want.cached /\ (want.known # NeverDay => want.date >= want.known)
          /\ want.source = "unavailable" /\ ~want.cached => want.known = NeverDay

\* A process that restarts many times a day writes a day's snapshot once, as
\* long as the source is on the same day.
OneSnapshotPerDay == lagged \/ \A d \in RateDays : stored[d] <= 1

\* What the pickers offer can be priced without asking the user: the ladder
\* has a rate of the very day that is shown.
OfferedIsPriced ==
    \A home \in Codes : \A c \in ListedRates(home) : NewestRate(c, home) = Max(Snapshots)
===============================================================================
