----------------------------- MODULE TurnsProofs -----------------------------
(***************************************************************************)
(* For every set of tokens, grants and tickets, of requests that present   *)
(* them, and any number of failures: refresh tokens and grants are well    *)
(* typed lineages, a family and a grant have one row that works, and a     *)
(* ticket works once.                                                      *)
(***************************************************************************)
EXTENDS MCTurns, TLAPS

(***************************************************************************)
(* Sessions: refresh tokens.                                               *)
(***************************************************************************)
(* The tokens of a sign-in descend from a row that exists; what was spent, *)
(* ended, locked or found by an UPDATE is a row.                           *)
RowsExist ==
    /\ \A t \in Tokens : Issued(t) => Issued(family[t])
    /\ \A t \in spent \cup ended : Issued(t)
    /\ \A t \in Tokens : lock[t] # NoRequest => Issued(t)
    /\ \A p \in SessionRequests : \A t \in closing[p] : Issued(t)

(* The token of a rotation under way still works, and its row is locked by *)
(* the rotation: nobody spends or ends it meanwhile.                       *)
RotatedStillWorks ==
    \A p \in SessionRequests :
        doing[p] = "rotating" =>
            /\ presented[p] \in Tokens
            /\ LiveTokens(presented[p])
            /\ lock[presented[p]] = p

SessionsInv == SessionsTypeOK /\ RowsExist /\ RotatedStillWorks /\ OneLivePerFamily

USE SessionsAssumption

(* Where rows are left, an insert writes one nobody had.                   *)
LEMMA InsertedRow ==
    ASSUME SessionsTypeOK, NEW f, Insert(f)
    PROVE  \E t \in Tokens :
             /\ ~Issued(t)
             /\ family' = [family EXCEPT ![t] = IF f = NoToken THEN t ELSE f]
  BY DEF Insert

(* A transaction that ends leaves the locks of the others. *)
LEMMA Released ==
    ASSUME SessionsTypeOK, NEW p \in SessionRequests, Release(p)
    PROVE  /\ lock' \in [Tokens -> SessionRequests \cup {NoRequest}]
           /\ \A t \in Tokens : lock'[t] = IF lock[t] = p THEN NoRequest ELSE lock[t]
           /\ doing' = [doing EXCEPT ![p] = "idle"]
           /\ doing' \in [SessionRequests -> {"idle", "rotating"} \cup Enders]
           /\ presented' \in [SessionRequests -> Tokens \cup {NoToken}]
           /\ presented' = [presented EXCEPT ![p] = NoToken]
           /\ closing' = [closing EXCEPT ![p] = {}]
           /\ closing' \in [SessionRequests -> SUBSET Tokens]
           /\ \A t \in Tokens : lock'[t] # NoRequest => doing'[lock'[t]] # "idle"
  BY DEF Release, SessionsTypeOK

(* There is no session at the start. *)
LEMMA SessionsStart == SessionsInit => SessionsInv
  BY DEF SessionsInit, SessionsInv, SessionsTypeOK, RowsExist, RotatedStillWorks, OneLivePerFamily, LiveTokens, Issued

(* A new session is a family of its own. *)
LEMMA OpenSessionInv ==
    ASSUME SessionsInv, OpenSession
    PROVE  SessionsInv'
  <1> USE DEF SessionsInv, OpenSession, request
  <1>1. PICK t \in Tokens : ~Issued(t) /\ family' = [family EXCEPT ![t] = t]
    BY InsertedRow
  <1>2. SessionsTypeOK'
    BY <1>1 DEF SessionsTypeOK
  <1>3. RowsExist'
    BY <1>1 DEF RowsExist, Issued, SessionsTypeOK
  <1>4. RotatedStillWorks'
    BY <1>1 DEF RotatedStillWorks, LiveTokens, Issued, SessionsTypeOK
  <1>5. OneLivePerFamily'
    BY <1>1 DEF OneLivePerFamily, LiveTokens, Issued, SessionsTypeOK, RowsExist
  <1> QED
    BY <1>2, <1>3, <1>4, <1>5

(* Presenting a token takes its row lock or starts the end of its family. *)
LEMMA PresentInv ==
    ASSUME SessionsInv, NEW p \in SessionRequests, NEW t \in Tokens,
           PresentSpent(p, t) \/ PresentLive(p, t)
    PROVE  SessionsInv'
  <1> USE DEF SessionsInv, PresentSpent, PresentLive, Take, sessionRows
  <1>1. SessionsTypeOK'
    BY DEF SessionsTypeOK, Enders, FamilyOf
  <1>2. RowsExist'
    BY DEF RowsExist, Issued, SessionsTypeOK, FamilyOf
  <1>3. RotatedStillWorks'
    BY DEF RotatedStillWorks, LiveTokens, Issued, SessionsTypeOK, Enders
  <1>4. OneLivePerFamily'
    BY DEF OneLivePerFamily, LiveTokens, Issued
  <1> QED
    BY <1>1, <1>2, <1>3, <1>4

(* A rotation spends the one live row of its family and adds one. *)
LEMMA RotateInv ==
    ASSUME SessionsInv, NEW p \in SessionRequests, Rotate(p)
    PROVE  SessionsInv'
  <1> USE DEF SessionsInv, Rotate
  <1>1. /\ presented[p] \in Tokens /\ LiveTokens(presented[p]) /\ lock[presented[p]] = p
        /\ family[presented[p]] \in Tokens /\ Issued(family[presented[p]])
    BY DEF RotatedStillWorks, LiveTokens, Issued, SessionsTypeOK, RowsExist
  <1>2. PICK t \in Tokens :
          ~Issued(t) /\ family' = [family EXCEPT ![t] = family[presented[p]]]
    BY InsertedRow, <1>1
  <1>3. SessionsTypeOK'
    BY <1>1, <1>2, Released DEF SessionsTypeOK
  <1>4. RowsExist'
    BY <1>1, <1>2, Released DEF RowsExist, Issued, LiveTokens, SessionsTypeOK
  <1>5. RotatedStillWorks'
    BY <1>1, <1>2, Released DEF RotatedStillWorks, LiveTokens, Issued, SessionsTypeOK, Enders
  <1>6. OneLivePerFamily'
    BY <1>1, <1>2 DEF OneLivePerFamily, LiveTokens, Issued, SessionsTypeOK, RowsExist
  <1> QED
    BY <1>3, <1>4, <1>5, <1>6

(* An end of sessions begins with the rows it sees. *)
LEMMA StartEndingInv ==
    ASSUME SessionsInv, NEW p \in SessionRequests, NEW kind \in {"ending", "password"},
           StartEnding(p, kind)
    PROVE  SessionsInv'
  <1> USE DEF SessionsInv, StartEnding, sessionRows
  <1>1. SessionsTypeOK'
    BY DEF SessionsTypeOK, Enders, Unended
  <1>2. RowsExist'
    BY DEF RowsExist, Issued, Unended, SessionsTypeOK
  <1>3. RotatedStillWorks' /\ OneLivePerFamily'
    BY DEF RotatedStillWorks, OneLivePerFamily, LiveTokens, Issued, SessionsTypeOK, Enders
  <1> QED
    BY <1>1, <1>2, <1>3

(* An end of sessions takes the row locks one by one. *)
LEMMA LockNextInv ==
    ASSUME SessionsInv, NEW p \in SessionRequests, LockNext(p)
    PROVE  SessionsInv'
  <1> USE DEF SessionsInv, LockNext, sessionRows
  <1>1. PICK t \in closing[p] :
          /\ lock[t] \in {NoRequest, p}
          /\ lock' = [lock EXCEPT ![t] = IF t \in ended THEN @ ELSE p]
          /\ closing' = [closing EXCEPT ![p] = @ \ {t}]
    OBVIOUS
  <1>2. t \in Tokens /\ Issued(t)
    BY DEF SessionsTypeOK, RowsExist
  <1>3. SessionsTypeOK'
    BY <1>1, <1>2 DEF SessionsTypeOK, Enders
  <1>4. RowsExist'
    BY <1>1, <1>2 DEF RowsExist, Issued, SessionsTypeOK
  <1>5. RotatedStillWorks' /\ OneLivePerFamily'
    BY <1>1, <1>2 DEF RotatedStillWorks, OneLivePerFamily, LiveTokens, Issued, SessionsTypeOK, Enders
  <1> QED
    BY <1>3, <1>4, <1>5

(* The rows that end are those the request had locked. *)
LEMMA EndInv ==
    ASSUME SessionsInv, NEW p \in SessionRequests, End(p)
    PROVE  SessionsInv'
  <1> USE DEF SessionsInv, End, HeldBy
  <1>1. SessionsTypeOK'
    BY Released DEF SessionsTypeOK
  <1>2. RowsExist'
    BY Released DEF RowsExist, Issued, SessionsTypeOK
  <1>3. RotatedStillWorks' /\ OneLivePerFamily'
    BY Released DEF RotatedStillWorks, OneLivePerFamily, LiveTokens, Issued, SessionsTypeOK, Enders
  <1> QED
    BY <1>1, <1>2, <1>3

(* A password change ends what it locked. *)
LEMMA EndForPasswordInv ==
    ASSUME SessionsInv, NEW p \in SessionRequests, EndForPassword(p)
    PROVE  SessionsInv'
  <1> USE DEF SessionsInv, EndForPassword, HeldBy
  <1>1. PICK t \in Tokens : ~Issued(t) /\ family' = [family EXCEPT ![t] = t]
    BY InsertedRow
  <1>2. SessionsTypeOK'
    BY <1>1, Released DEF SessionsTypeOK
  <1>3. RowsExist'
    BY <1>1, Released DEF RowsExist, Issued, SessionsTypeOK
  <1>4. RotatedStillWorks'
    BY <1>1, Released DEF RotatedStillWorks, LiveTokens, Issued, SessionsTypeOK, Enders
  <1>5. OneLivePerFamily'
    BY <1>1 DEF OneLivePerFamily, LiveTokens, Issued, SessionsTypeOK, RowsExist
  <1> QED
    BY <1>2, <1>3, <1>4, <1>5

(* A sign-out ends what it locked. *)
LEMMA SignOutInv ==
    ASSUME SessionsInv, NEW t \in Tokens, SignOut(t)
    PROVE  SessionsInv'
  <1> USE DEF SessionsInv, SignOut, request
  <1>1. SessionsTypeOK' /\ RowsExist'
    BY DEF SessionsTypeOK, RowsExist, Issued
  <1>2. RotatedStillWorks' /\ OneLivePerFamily'
    BY DEF RotatedStillWorks, OneLivePerFamily, LiveTokens, Issued, SessionsTypeOK
  <1> QED
    BY <1>1, <1>2

(* A request that fails is undone and frees its locks. *)
LEMMA FailInv ==
    ASSUME SessionsInv, NEW p \in SessionRequests,
           Fail(p) \/ (Release(p) /\ UNCHANGED <<sessionRows, failures>>)
    PROVE  SessionsInv'
  <1> USE DEF SessionsInv, Fail, sessionRows
  <1>0. Release(p) /\ UNCHANGED <<family, spent, ended>> /\ failures' \in 0..MaxFailures
    BY DEF SessionsTypeOK
  <1>1. SessionsTypeOK'
    BY <1>0, Released DEF SessionsTypeOK
  <1>2. RowsExist'
    BY <1>0, Released DEF RowsExist, Issued, SessionsTypeOK
  <1>3. RotatedStillWorks' /\ OneLivePerFamily'
    BY <1>0, Released DEF RotatedStillWorks, OneLivePerFamily, LiveTokens, Issued, SessionsTypeOK, Enders
  <1> QED
    BY <1>1, <1>2, <1>3

(* Every step keeps the invariant. *)
LEMMA SessionsStep == SessionsInv /\ [SessionsNext]_sessionsVars => SessionsInv'
  <1> SUFFICES ASSUME SessionsInv, [SessionsNext]_sessionsVars
               PROVE  SessionsInv'
    OBVIOUS
  <1>1. CASE OpenSession
    BY <1>1, OpenSessionInv
  <1>2. ASSUME NEW p \in SessionRequests, NEW t \in Tokens, PresentSpent(p, t) \/ PresentLive(p, t)
        PROVE  SessionsInv'
    BY <1>2, PresentInv
  <1>3. ASSUME NEW p \in SessionRequests,
               SignOutEverywhere(p) \/ ResetPassword(p) \/ ChangePassword(p) \/ LeaveWorkspace(p)
        PROVE  SessionsInv'
    BY <1>3, StartEndingInv DEF SignOutEverywhere, ResetPassword, ChangePassword, LeaveWorkspace
  <1>4. ASSUME NEW p \in SessionRequests, Continue(p)
        PROVE  SessionsInv'
    BY <1>4, RotateInv, LockNextInv, EndInv, EndForPasswordInv DEF Continue
  <1>5. ASSUME NEW p \in SessionRequests, Fail(p)
        PROVE  SessionsInv'
    BY <1>5, FailInv
  <1>6. ASSUME NEW t \in Tokens, SignOut(t)
        PROVE  SessionsInv'
    BY <1>6, SignOutInv
  <1>7. CASE BreakDeadlock
    BY <1>7, FailInv DEF BreakDeadlock
  <1>8. CASE UNCHANGED sessionsVars
    BY <1>8 DEF sessionsVars, sessionRows, request, SessionsInv, SessionsTypeOK, RowsExist,
                RotatedStillWorks, OneLivePerFamily, LiveTokens, Issued
  <1> QED
    BY <1>1, <1>2, <1>3, <1>4, <1>5, <1>6, <1>7, <1>8 DEF SessionsNext

(* The invariant holds in every reachable state. *)
THEOREM SessionsAlways == SessionsSpec => []SessionsInv
  BY SessionsStart, SessionsStep, PTL DEF SessionsSpec

(* Every reachable state of the refresh tokens is well typed. *)
THEOREM SessionsTyped == SessionsSpec => []SessionsTypeOK
  <1>1. SessionsInv => SessionsTypeOK
    BY DEF SessionsInv
  <1> QED
    BY <1>1, SessionsAlways, PTL

(* However many requests present one token at once, and whatever ends or   *)
(* fails beside them, a sign-in has one token that works.                  *)
THEOREM FamilyHasOneLive == SessionsSpec => []OneLivePerFamily
  <1>1. SessionsInv => OneLivePerFamily
    BY DEF SessionsInv
  <1> QED
    BY <1>1, SessionsAlways, PTL

(***************************************************************************)
(* The families as lineages: each step keeps, advances or ends each one.   *)
(***************************************************************************)
FamilyStep(f) ==
    \/ Holder(f)' = Holder(f) /\ FamilyOf(f)' = FamilyOf(f)
    \/ \E t \in Tokens :
          /\ t \notin FamilyOf(f)
          /\ FamilyOf(f) = {} \/ Holder(f) # NoToken
          /\ Holder(f)' = t
          /\ FamilyOf(f)' = FamilyOf(f) \cup {t}
    \/ Holder(f) # NoToken /\ Holder(f)' = NoToken /\ FamilyOf(f)' = FamilyOf(f)

(* The token that works is the holder of its family. *)
LEMMA HolderWorks ==
    ASSUME SessionsInv, NEW f \in Tokens
    PROVE  /\ \A t \in Tokens : LiveTokens(t) /\ family[t] = f => Holder(f) = t
           /\ (\A t \in Tokens : family[t] = f => ~LiveTokens(t)) => Holder(f) = NoToken
           /\ Holder(f) # NoToken =>
                 Holder(f) \in Tokens /\ LiveTokens(Holder(f)) /\ family[Holder(f)] = f
  BY DEF SessionsInv, OneLivePerFamily, Holder, FamilyOf

(* The holder of a family in the new state is its one live row. *)
LEMMA HolderWorksNext ==
    ASSUME SessionsInv', NEW f \in Tokens
    PROVE  /\ \A t \in Tokens : LiveTokens(t)' /\ family'[t] = f => Holder(f)' = t
           /\ (\A t \in Tokens : family'[t] = f => ~LiveTokens(t)') => Holder(f)' = NoToken
           /\ Holder(f)' # NoToken =>
                 Holder(f)' \in Tokens /\ LiveTokens(Holder(f))' /\ family'[Holder(f)'] = f
  BY DEF SessionsInv, OneLivePerFamily, Holder, FamilyOf

(* A step that starts no family and spends nothing ends some at most. *)
LEMMA EndingSteps ==
    ASSUME SessionsInv, SessionsInv', family' = family, spent' = spent, ended \subseteq ended',
           NEW f \in Tokens
    PROVE  FamilyStep(f)
  <1>1. FamilyOf(f)' = FamilyOf(f)
    BY DEF FamilyOf
  <1>2. \A t \in Tokens : LiveTokens(t)' => LiveTokens(t)
    BY DEF LiveTokens, Issued
  <1>3. CASE Holder(f)' = NoToken
    BY <1>1, <1>3 DEF FamilyStep
  <1>4. CASE Holder(f)' # NoToken
    <2>1. Holder(f)' \in Tokens /\ LiveTokens(Holder(f)') /\ family[Holder(f)'] = f
      BY <1>4, <1>2, HolderWorksNext DEF LiveTokens, Issued
    <2> QED
      BY <2>1, <1>1, HolderWorks DEF FamilyStep
  <1> QED
    BY <1>3, <1>4

(* A family begins with a row nobody had; the others stay or end. *)
LEMMA BeginningSteps ==
    ASSUME SessionsInv, SessionsInv', spent' = spent, ended \subseteq ended',
           \A u \in ended' : Issued(u),
           NEW t \in Tokens, ~Issued(t), family' = [family EXCEPT ![t] = t],
           NEW f \in Tokens
    PROVE  FamilyStep(f)
  <1>1. CASE f = t
    <2>1. \A u \in Tokens : family[u] # t
      BY DEF SessionsInv, RowsExist, Issued
    <2>2. FamilyOf(f) = {} /\ FamilyOf(f)' = {t}
      BY <1>1, <2>1 DEF FamilyOf, SessionsInv, SessionsTypeOK
    <2>3. LiveTokens(t)' /\ family'[t] = f
      BY <1>1 DEF LiveTokens, Issued, SessionsInv, RowsExist, SessionsTypeOK
    <2> QED
      BY <2>2, <2>3, HolderWorksNext DEF FamilyStep
  <1>2. CASE f # t
    <2>1. FamilyOf(f)' = FamilyOf(f)
      BY <1>2 DEF FamilyOf, Issued, SessionsInv, SessionsTypeOK
    <2>2. CASE Holder(f)' = NoToken
      BY <2>1, <2>2 DEF FamilyStep
    <2>3. CASE Holder(f)' # NoToken
      <3>1. Holder(f)' \in Tokens /\ LiveTokens(Holder(f))' /\ family'[Holder(f)'] = f
        BY <2>3, HolderWorksNext
      <3>2. Holder(f)' # t
        BY <3>1, <1>2 DEF SessionsInv, SessionsTypeOK
      <3>3. LiveTokens(Holder(f)') /\ family[Holder(f)'] = f
        BY <3>1, <3>2 DEF LiveTokens, Issued, SessionsInv, SessionsTypeOK
      <3> QED
        BY <3>1, <3>3, <2>1, HolderWorks DEF FamilyStep
    <2> QED
      BY <2>2, <2>3
  <1> QED
    BY <1>1, <1>2

(* A rotation hands its family over to a row nobody had. *)
LEMMA RotationSteps ==
    ASSUME SessionsInv, SessionsInv', NEW p \in SessionRequests, Rotate(p), NEW f \in Tokens
    PROVE  FamilyStep(f)
  <1> DEFINE old == presented[p]
  <1>1. /\ old \in Tokens /\ LiveTokens(old)
        /\ family[old] \in Tokens /\ Issued(family[old])
    BY DEF Rotate, SessionsInv, RotatedStillWorks, LiveTokens, Issued, SessionsTypeOK, RowsExist
  <1>2. PICK t \in Tokens : ~Issued(t) /\ family' = [family EXCEPT ![t] = family[old]]
    BY InsertedRow, <1>1 DEF Rotate, SessionsInv
  <1>3. spent' = spent \cup {old} /\ ended' = ended
    BY DEF Rotate
  <1>4. t \notin spent \cup ended /\ t # old
    BY <1>1, <1>2 DEF SessionsInv, RowsExist, LiveTokens
  <1> HIDE DEF old
  <1>5. CASE f = family[old]
    <2>1. t \notin FamilyOf(f) /\ FamilyOf(f)' = FamilyOf(f) \cup {t}
      BY <1>1, <1>2, <1>5 DEF FamilyOf, Issued, SessionsInv, SessionsTypeOK
    <2>2. Holder(f) # NoToken
      BY <1>1, <1>5, HolderWorks
    <2>3. LiveTokens(t)' /\ family'[t] = f
      BY <1>1, <1>2, <1>3, <1>4, <1>5 DEF LiveTokens, Issued, SessionsInv, SessionsTypeOK
    <2> QED
      BY <2>1, <2>2, <2>3, HolderWorksNext DEF FamilyStep
  <1>6. CASE f # family[old]
    <2>1. FamilyOf(f)' = FamilyOf(f)
      BY <1>2, <1>6 DEF FamilyOf, Issued, SessionsInv, SessionsTypeOK
    <2>2. \A u \in FamilyOf(f) : LiveTokens(u)' <=> LiveTokens(u)
      BY <1>2, <1>3, <1>6 DEF FamilyOf, LiveTokens, Issued, SessionsInv, SessionsTypeOK
    <2>3. Holder(f)' = Holder(f)
      <3>1. CASE \E u \in FamilyOf(f) : LiveTokens(u)
        BY <3>1, <2>1, <2>2, HolderWorks, HolderWorksNext DEF FamilyOf
      <3>2. CASE \A u \in FamilyOf(f) : ~LiveTokens(u)
        BY <3>2, <2>1, <2>2, HolderWorks, HolderWorksNext DEF FamilyOf
      <3> QED
        BY <3>1, <3>2
    <2> QED
      BY <2>1, <2>3 DEF FamilyStep
  <1> QED
    BY <1>5, <1>6

(* Every step of the sessions is a step of each family, or a stutter. *)
LEMMA SessionsStepFamilies ==
    ASSUME SessionsInv, SessionsInv', [SessionsNext]_sessionsVars, NEW f \in Tokens
    PROVE  FamilyStep(f)
  <1>1. CASE OpenSession
    <2>1. PICK t \in Tokens : ~Issued(t) /\ family' = [family EXCEPT ![t] = t]
      BY <1>1, InsertedRow DEF OpenSession, SessionsInv
    <2> QED
      BY <1>1, <2>1, BeginningSteps DEF OpenSession, SessionsInv, RowsExist
  <1>2. ASSUME NEW p \in SessionRequests, Rotate(p)
        PROVE  FamilyStep(f)
    BY <1>2, RotationSteps
  <1>3. ASSUME NEW p \in SessionRequests, EndForPassword(p)
        PROVE  FamilyStep(f)
    <2>1. PICK t \in Tokens : ~Issued(t) /\ family' = [family EXCEPT ![t] = t]
      BY <1>3, InsertedRow DEF EndForPassword, SessionsInv
    <2>2. \A u \in ended' : Issued(u)
      BY <1>3 DEF EndForPassword, HeldBy, SessionsInv, RowsExist
    <2> QED
      BY <1>3, <2>1, <2>2, BeginningSteps DEF EndForPassword
  <1>4. CASE /\ ~OpenSession
             /\ \A p \in SessionRequests : ~Rotate(p) /\ ~EndForPassword(p)
    <2>1. family' = family /\ spent' = spent /\ ended \subseteq ended'
      BY <1>4 DEF SessionsNext, PresentSpent, PresentLive, SignOutEverywhere, ResetPassword,
         ChangePassword, LeaveWorkspace, StartEnding, Continue, LockNext, End, Fail, SignOut,
         BreakDeadlock, sessionsVars, sessionRows
    <2> QED
      BY <2>1, EndingSteps
  <1> QED
    BY <1>1, <1>2, <1>3, <1>4

(* Every sign-in is a chain of tokens: one works at a time, hands over to  *)
(* one nobody has held, and what has ended never works again, whatever     *)
(* refreshes, ends tokens or fails at once.                                *)
THEOREM SessionsImplementFamilies == SessionsSpec => FamiliesAreLineages
  <1>1. SessionsInit => Lineage!FamiliesInit
    <2> SUFFICES ASSUME SessionsInit PROVE Lineage!FamiliesInit
      OBVIOUS
    <2>1. \A f \in Tokens : Holder(f) = NoToken /\ FamilyOf(f) = {}
      BY DEF SessionsInit, Holder, FamilyOf
    <2> QED
      BY <2>1 DEF Lineage!FamiliesInit
  <1>2. SessionsInv /\ SessionsInv' /\ [SessionsNext]_sessionsVars
        => [Lineage!FamiliesNext]_(Lineage!familiesVars)
    <2> SUFFICES ASSUME SessionsInv, SessionsInv', [SessionsNext]_sessionsVars
                 PROVE  Lineage!FamiliesNext
      OBVIOUS
    <2>1. \A f \in Tokens : FamilyStep(f)
      BY SessionsStepFamilies
    <2> QED
      BY <2>1 DEF FamilyStep, Lineage!FamiliesNext, Lineage!FamilyStays, Lineage!FamilyAdvances, Lineage!FamilyEnds
  <1> QED
    BY <1>1, <1>2, SessionsAlways, PTL DEF SessionsSpec, FamiliesAreLineages, Lineage!FamiliesSpec

(***************************************************************************)
(* McpGrants: the tokens of connected clients.                             *)
(***************************************************************************)
(* The rows of a grant descend from a row that exists; what was revoked or *)
(* found by an UPDATE is a row.                                            *)
GrantRowsExist ==
    /\ \A g \in Grants : Granted(g) => Granted(granted[g])
    /\ \A g \in revoked : Granted(g)
    /\ \A c \in Calls : \A g \in finding[c] : Granted(g)

(* The row a refresh was shown still works when the next one is inserted:  *)
(* whoever revokes it waits for the refresh.                               *)
RefreshedStillLive ==
    \A c \in Calls : calling[c] = "refreshing" => shown[c] \in Grants /\ LiveGrant(shown[c])

McpInv == McpTypeOK /\ GrantRowsExist /\ RefreshedStillLive /\ OneLiveRowPerGrant

USE McpAssumption

(* Where rows are left, an insert writes one nobody had. *)
LEMMA InsertedGrant ==
    ASSUME McpTypeOK, NEW f, InsertGrant(f)
    PROVE  \E g \in Grants :
             /\ ~Granted(g)
             /\ granted' = [granted EXCEPT ![g] = IF f = NoGrant THEN g ELSE f]
  BY DEF InsertGrant

(* A call that ends leaves the locks of the others. *)
LEMMA CallEnds ==
    ASSUME McpTypeOK, NEW c \in Calls, EndCall(c)
    PROVE  /\ taken' \in [Grants -> Calls \cup {NoCall}]
           /\ \A g \in Grants : taken'[g] = IF taken[g] = c THEN NoCall ELSE taken[g]
           /\ calling' \in [Calls -> {"idle", "refreshing", "revoking"}]
           /\ calling' = [calling EXCEPT ![c] = "idle"]
           /\ shown' \in [Calls -> Grants \cup {NoGrant}]
           /\ shown' = [shown EXCEPT ![c] = NoGrant]
           /\ finding' \in [Calls -> SUBSET Grants]
           /\ finding' = [finding EXCEPT ![c] = {}]
           /\ \A d \in Calls : calling'[d] = "refreshing" =>
                 d # c /\ calling[d] = "refreshing" /\ shown'[d] # NoGrant /\ taken'[shown'[d]] = d
  BY DEF EndCall, McpTypeOK

(* Nobody is connected at the start. *)
LEMMA McpStart == McpInit => McpInv
  BY DEF McpInit, McpInv, McpTypeOK, GrantRowsExist, RefreshedStillLive, OneLiveRowPerGrant,
         LiveGrant, Granted

(* A code that is exchanged begins a grant of its own. *)
LEMMA ExchangeKeeps ==
    ASSUME McpInv, ExchangeCode
    PROVE  McpInv'
  <1> USE DEF McpInv, ExchangeCode, mcpCall
  <1>1. PICK g \in Grants : ~Granted(g) /\ granted' = [granted EXCEPT ![g] = g]
    BY InsertedGrant
  <1>2. McpTypeOK'
    BY <1>1 DEF McpTypeOK
  <1>3. GrantRowsExist' /\ RefreshedStillLive'
    BY <1>1 DEF GrantRowsExist, RefreshedStillLive, LiveGrant, Granted, McpTypeOK
  <1>4. OneLiveRowPerGrant'
    BY <1>1 DEF OneLiveRowPerGrant, GrantRowsExist, LiveGrant, Granted, McpTypeOK
  <1> QED
    BY <1>2, <1>3, <1>4

(* A request that looks for rows, or locks one, changes none. *)
LEMMA LookingKeeps ==
    ASSUME McpInv, NEW c \in Calls, NEW g \in Grants,
           PresentRevoked(c, g) \/ PresentGrant(c, g) \/ Disconnect(c, g)
    PROVE  McpInv'
  <1> USE DEF McpInv, PresentRevoked, PresentGrant, Disconnect, LockByRefresh, mcpRows
  <1>1. McpTypeOK'
    BY DEF McpTypeOK, GrantFamily, LiveGrant
  <1>2. GrantRowsExist' /\ RefreshedStillLive'
    BY DEF GrantRowsExist, RefreshedStillLive, LiveGrant, Granted, GrantFamily, McpTypeOK
  <1>3. OneLiveRowPerGrant'
    BY DEF OneLiveRowPerGrant, LiveGrant, Granted
  <1> QED
    BY <1>1, <1>2, <1>3

(* A refresh leaves one live row of its grant, the one it inserts. *)
LEMMA RefreshKeeps ==
    ASSUME McpInv, NEW c \in Calls, RefreshGrant(c)
    PROVE  McpInv'
  <1> DEFINE old == shown[c]
  <1>1. old \in Grants /\ LiveGrant(old) /\ taken[old] = c
    BY DEF RefreshGrant, McpInv, RefreshedStillLive, McpTypeOK
  <1>2. granted[old] \in Grants /\ granted[old] # NoGrant /\ Granted(granted[old])
    BY <1>1 DEF McpInv, McpTypeOK, LiveGrant, Granted, GrantRowsExist
  <1>3. PICK g \in Grants : ~Granted(g) /\ granted' = [granted EXCEPT ![g] = granted[old]]
    BY <1>2, InsertedGrant DEF RefreshGrant, McpInv
  <1>4. revoked' = revoked \cup {old} /\ g # old
    BY <1>1, <1>3 DEF RefreshGrant, LiveGrant
  <1>5. \A d \in Calls : calling'[d] = "refreshing" => shown'[d] = shown[d] /\ shown[d] # old
    BY <1>1, CallEnds DEF RefreshGrant, McpInv, McpTypeOK
  <1>6. McpTypeOK'
    BY <1>1, <1>2, <1>3, <1>4, CallEnds DEF McpInv, McpTypeOK, RefreshGrant
  <1> HIDE DEF old
  <1>7. GrantRowsExist'
    BY <1>1, <1>2, <1>3, <1>4, CallEnds DEF McpInv, McpTypeOK, GrantRowsExist, LiveGrant, Granted, RefreshGrant
  <1>8. RefreshedStillLive'
    BY <1>3, <1>4, <1>5, CallEnds
       DEF McpInv, McpTypeOK, RefreshedStillLive, LiveGrant, Granted, RefreshGrant
  <1>9. OneLiveRowPerGrant'
    BY <1>1, <1>2, <1>3, <1>4 DEF McpInv, McpTypeOK, GrantRowsExist, OneLiveRowPerGrant, LiveGrant, Granted
  <1> QED
    BY <1>6, <1>7, <1>8, <1>9 DEF McpInv

(* A revocation, or a request that fails, leaves the rows refreshes hold. *)
LEMMA RevokeKeeps ==
    ASSUME McpInv, NEW c \in Calls, Revoke(c) \/ Refuse(c)
    PROVE  McpInv'
  <1> USE DEF McpInv
  <1>1. EndCall(c) /\ granted' = granted /\ revoked' \subseteq Grants
    BY DEF Revoke, Refuse, mcpRows, McpTypeOK
  <1>2. McpTypeOK'
    BY <1>1, CallEnds DEF McpTypeOK
  <1>3. GrantRowsExist'
    BY <1>1, CallEnds DEF GrantRowsExist, Granted, McpTypeOK, Revoke, Refuse, mcpRows
  <1>4. RefreshedStillLive'
    <2> SUFFICES ASSUME NEW d \in Calls, calling'[d] = "refreshing"
                 PROVE  shown'[d] \in Grants /\ LiveGrant(shown[d])'
      BY DEF RefreshedStillLive
    <2>1. d # c /\ calling[d] = "refreshing" /\ shown'[d] = shown[d]
      BY <1>1, CallEnds DEF McpTypeOK
    <2>2. shown[d] \in Grants /\ LiveGrant(shown[d]) /\ taken[shown[d]] = d
      BY <2>1 DEF RefreshedStillLive, McpTypeOK
    <2>3. shown[d] \notin revoked'
      BY <2>1, <2>2 DEF Revoke, Refuse, mcpRows, LiveGrant
    <2> QED
      BY <1>1, <2>1, <2>2, <2>3 DEF LiveGrant, Granted
  <1>5. OneLiveRowPerGrant'
    BY <1>1 DEF OneLiveRowPerGrant, LiveGrant, Granted, Revoke, Refuse, mcpRows
  <1> QED
    BY <1>2, <1>3, <1>4, <1>5

(* Every step keeps the invariant. *)
LEMMA McpStep == McpInv /\ [McpNext]_mcpVars => McpInv'
  <1> SUFFICES ASSUME McpInv, [McpNext]_mcpVars
               PROVE  McpInv'
    OBVIOUS
  <1>1. CASE ExchangeCode
    BY <1>1, ExchangeKeeps
  <1>2. ASSUME NEW c \in Calls, NEW g \in Grants,
               PresentRevoked(c, g) \/ PresentGrant(c, g) \/ Disconnect(c, g)
        PROVE  McpInv'
    BY <1>2, LookingKeeps
  <1>3. ASSUME NEW c \in Calls, RevokeAllForUser(c)
        PROVE  McpInv'
    <2>1. McpTypeOK'
      BY <1>3 DEF McpInv, McpTypeOK, RevokeAllForUser, mcpRows
    <2> QED
      BY <1>3, <2>1 DEF McpInv, McpTypeOK, RevokeAllForUser, mcpRows, GrantRowsExist, RefreshedStillLive,
         OneLiveRowPerGrant, LiveGrant, Granted
  <1>4. ASSUME NEW c \in Calls, RefreshGrant(c)
        PROVE  McpInv'
    BY <1>4, RefreshKeeps
  <1>5. ASSUME NEW c \in Calls, Revoke(c) \/ Refuse(c)
        PROVE  McpInv'
    BY <1>5, RevokeKeeps
  <1>6. CASE UNCHANGED mcpVars
    BY <1>6 DEF mcpVars, mcpRows, mcpCall, McpInv, McpTypeOK, GrantRowsExist, RefreshedStillLive,
                OneLiveRowPerGrant, LiveGrant, Granted
  <1> QED
    BY <1>1, <1>2, <1>3, <1>4, <1>5, <1>6 DEF McpNext

(* The invariant holds in every reachable state. *)
THEOREM McpAlways == McpSpec => []McpInv
  BY McpStart, McpStep, PTL DEF McpSpec

(* Every reachable state of the grants is well typed. *)
THEOREM McpTyped == McpSpec => []McpTypeOK
  <1>1. McpInv => McpTypeOK
    BY DEF McpInv
  <1> QED
    BY <1>1, McpAlways, PTL

(* The connections page lists a grant once, however refreshes, copies of   *)
(* spent tokens and revocations overlap.                                   *)
THEOREM GrantHasOneLive == McpSpec => []OneLiveRowPerGrant
  <1>1. McpInv => OneLiveRowPerGrant
    BY DEF McpInv
  <1> QED
    BY <1>1, McpAlways, PTL

(***************************************************************************)
(* The grants as lineages: each step keeps, advances or ends each one.     *)
(***************************************************************************)
GrantStep(f) ==
    \/ GrantHolder(f)' = GrantHolder(f) /\ GrantFamily(f)' = GrantFamily(f)
    \/ \E g \in Grants :
          /\ g \notin GrantFamily(f)
          /\ GrantFamily(f) = {} \/ GrantHolder(f) # NoGrant
          /\ GrantHolder(f)' = g
          /\ GrantFamily(f)' = GrantFamily(f) \cup {g}
    \/ GrantHolder(f) # NoGrant /\ GrantHolder(f)' = NoGrant /\ GrantFamily(f)' = GrantFamily(f)

(* The row that works is the holder of its grant. *)
LEMMA GrantHolderWorks ==
    ASSUME McpInv, NEW f \in Grants
    PROVE  /\ \A g \in Grants : LiveGrant(g) /\ granted[g] = f => GrantHolder(f) = g
           /\ (\A g \in Grants : granted[g] = f => ~LiveGrant(g)) => GrantHolder(f) = NoGrant
           /\ GrantHolder(f) # NoGrant =>
                 /\ GrantHolder(f) \in Grants /\ LiveGrant(GrantHolder(f))
                 /\ granted[GrantHolder(f)] = f
  BY DEF McpInv, OneLiveRowPerGrant, GrantHolder, GrantFamily

(* The holder of a grant in the new state is its one live row. *)
LEMMA GrantHolderWorksNext ==
    ASSUME McpInv', NEW f \in Grants
    PROVE  /\ \A g \in Grants : LiveGrant(g)' /\ granted'[g] = f => GrantHolder(f)' = g
           /\ (\A g \in Grants : granted'[g] = f => ~LiveGrant(g)') => GrantHolder(f)' = NoGrant
           /\ GrantHolder(f)' # NoGrant =>
                 /\ GrantHolder(f)' \in Grants /\ LiveGrant(GrantHolder(f))'
                 /\ granted'[GrantHolder(f)'] = f
  BY DEF McpInv, OneLiveRowPerGrant, GrantHolder, GrantFamily

(* A step that inserts nothing ends some grants at most. *)
LEMMA RevokingSteps ==
    ASSUME McpInv, McpInv', granted' = granted, revoked \subseteq revoked', NEW f \in Grants
    PROVE  GrantStep(f)
  <1>1. GrantFamily(f)' = GrantFamily(f)
    BY DEF GrantFamily
  <1>2. CASE GrantHolder(f)' = NoGrant
    BY <1>1, <1>2 DEF GrantStep
  <1>3. CASE GrantHolder(f)' # NoGrant
    <2>1. GrantHolder(f)' \in Grants /\ LiveGrant(GrantHolder(f)') /\ granted[GrantHolder(f)'] = f
      BY <1>3, GrantHolderWorksNext DEF LiveGrant, Granted
    <2> QED
      BY <2>1, <1>1, GrantHolderWorks DEF GrantStep
  <1> QED
    BY <1>2, <1>3

(* A code that is exchanged begins one grant and leaves the others. *)
LEMMA ExchangeSteps ==
    ASSUME McpInv, McpInv', ExchangeCode, NEW f \in Grants
    PROVE  GrantStep(f)
  <1>1. PICK g \in Grants : ~Granted(g) /\ granted' = [granted EXCEPT ![g] = g]
    BY InsertedGrant DEF ExchangeCode, McpInv
  <1>2. revoked' = revoked
    BY DEF ExchangeCode
  <1>3. CASE f = g
    <2>1. \A h \in Grants : granted[h] # g
      BY <1>1 DEF McpInv, GrantRowsExist, Granted
    <2>2. GrantFamily(f) = {} /\ GrantFamily(f)' = {g}
      BY <1>1, <1>3, <2>1 DEF GrantFamily, McpInv, McpTypeOK
    <2>3. LiveGrant(g)' /\ granted'[g] = f
      BY <1>1, <1>2, <1>3 DEF LiveGrant, Granted, McpInv, GrantRowsExist, McpTypeOK
    <2> QED
      BY <2>2, <2>3, GrantHolderWorksNext DEF GrantStep
  <1>4. CASE f # g
    <2>1. GrantFamily(f)' = GrantFamily(f)
      BY <1>1, <1>4 DEF GrantFamily, Granted, McpInv, McpTypeOK
    <2>2. CASE GrantHolder(f)' = NoGrant
      BY <2>1, <2>2 DEF GrantStep
    <2>3. CASE GrantHolder(f)' # NoGrant
      <3>1. GrantHolder(f)' \in Grants /\ LiveGrant(GrantHolder(f))' /\ granted'[GrantHolder(f)'] = f
        BY <2>3, GrantHolderWorksNext
      <3>2. GrantHolder(f)' # g
        BY <1>1, <3>1, <1>4 DEF McpInv, McpTypeOK
      <3>3. LiveGrant(GrantHolder(f)') /\ granted[GrantHolder(f)'] = f
        BY <1>1, <1>2, <3>1, <3>2 DEF LiveGrant, Granted, McpInv, McpTypeOK
      <3> QED
        BY <3>1, <3>3, <2>1, GrantHolderWorks DEF GrantStep
    <2> QED
      BY <2>2, <2>3
  <1> QED
    BY <1>3, <1>4

(* A refresh hands its grant over to a row nobody had. *)
LEMMA RefreshSteps ==
    ASSUME McpInv, McpInv', NEW c \in Calls, RefreshGrant(c), NEW f \in Grants
    PROVE  GrantStep(f)
  <1> DEFINE old == shown[c]
  <1>1. old \in Grants /\ LiveGrant(old) /\ granted[old] \in Grants /\ granted[old] # NoGrant
    BY DEF RefreshGrant, McpInv, RefreshedStillLive, LiveGrant, Granted, McpTypeOK
  <1>2. PICK g \in Grants : ~Granted(g) /\ granted' = [granted EXCEPT ![g] = granted[old]]
    BY InsertedGrant, <1>1 DEF RefreshGrant, McpInv
  <1>3. revoked' = revoked \cup {old}
    BY DEF RefreshGrant
  <1>4. g \notin revoked /\ g # old
    BY <1>1, <1>2 DEF McpInv, GrantRowsExist, LiveGrant
  <1> HIDE DEF old
  <1>5. CASE f = granted[old]
    <2>1. g \notin GrantFamily(f) /\ GrantFamily(f)' = GrantFamily(f) \cup {g}
      BY <1>1, <1>2, <1>5 DEF GrantFamily, Granted, McpInv, McpTypeOK
    <2>2. GrantHolder(f) # NoGrant
      BY <1>1, <1>5, GrantHolderWorks
    <2>3. LiveGrant(g)' /\ granted'[g] = f
      BY <1>1, <1>2, <1>3, <1>4, <1>5 DEF LiveGrant, Granted, McpInv, McpTypeOK
    <2> QED
      BY <2>1, <2>2, <2>3, GrantHolderWorksNext DEF GrantStep
  <1>6. CASE f # granted[old]
    <2>1. GrantFamily(f)' = GrantFamily(f)
      BY <1>2, <1>6 DEF GrantFamily, Granted, McpInv, McpTypeOK
    <2>2. \A h \in GrantFamily(f) : LiveGrant(h)' <=> LiveGrant(h)
      BY <1>2, <1>3, <1>6 DEF GrantFamily, LiveGrant, Granted, McpInv, McpTypeOK
    <2>3. GrantHolder(f)' = GrantHolder(f)
      <3>1. CASE \E h \in GrantFamily(f) : LiveGrant(h)
        BY <3>1, <2>1, <2>2, GrantHolderWorks, GrantHolderWorksNext DEF GrantFamily
      <3>2. CASE \A h \in GrantFamily(f) : ~LiveGrant(h)
        BY <3>2, <2>1, <2>2, GrantHolderWorks, GrantHolderWorksNext DEF GrantFamily
      <3> QED
        BY <3>1, <3>2
    <2> QED
      BY <2>1, <2>3 DEF GrantStep
  <1> QED
    BY <1>5, <1>6

(* Every step of the clients is a step of each grant, or a stutter. *)
LEMMA McpStepGrants ==
    ASSUME McpInv, McpInv', [McpNext]_mcpVars, NEW f \in Grants
    PROVE  GrantStep(f)
  <1>1. CASE ExchangeCode
    BY <1>1, ExchangeSteps
  <1>2. ASSUME NEW c \in Calls, RefreshGrant(c)
        PROVE  GrantStep(f)
    BY <1>2, RefreshSteps
  <1>3. CASE ~ExchangeCode /\ \A c \in Calls : ~RefreshGrant(c)
    <2>1. granted' = granted /\ revoked \subseteq revoked'
      BY <1>3 DEF McpNext, PresentRevoked, PresentGrant, Disconnect, RevokeAllForUser, Revoke, Refuse,
         mcpVars, mcpRows
    <2> QED
      BY <2>1, RevokingSteps
  <1> QED
    BY <1>1, <1>2, <1>3

(* A connected app is one chain of tokens: it never forks, and once it is  *)
(* disconnected no refresh under way brings it back.                       *)
THEOREM GrantsImplementFamilies == McpSpec => GrantsAreLineages
  <1>1. McpInit => GrantLineage!FamiliesInit
    <2> SUFFICES ASSUME McpInit PROVE GrantLineage!FamiliesInit
      OBVIOUS
    <2>1. \A f \in Grants : GrantHolder(f) = NoGrant /\ GrantFamily(f) = {}
      BY DEF McpInit, GrantHolder, GrantFamily
    <2> QED
      BY <2>1 DEF GrantLineage!FamiliesInit
  <1>2. McpInv /\ McpInv' /\ [McpNext]_mcpVars
        => [GrantLineage!FamiliesNext]_(GrantLineage!familiesVars)
    <2> SUFFICES ASSUME McpInv, McpInv', [McpNext]_mcpVars
                 PROVE  GrantLineage!FamiliesNext
      OBVIOUS
    <2>1. \A f \in Grants : GrantStep(f)
      BY McpStepGrants
    <2> QED
      BY <2>1 DEF GrantStep, GrantLineage!FamiliesNext, GrantLineage!FamilyStays,
                  GrantLineage!FamilyAdvances, GrantLineage!FamilyEnds
  <1> QED
    BY <1>1, <1>2, McpAlways, PTL DEF McpSpec, GrantsAreLineages, GrantLineage!FamiliesSpec

(***************************************************************************)
(* Tickets.                                                                *)
(***************************************************************************)
(* A request that holds a ticket is the only one: the claim is committed,  *)
(* or the row is locked until the request is over.  A ticket that has had  *)
(* its effect is spent and nobody holds it.                                *)
OneHolder == \A c, d \in Claimers :
    holding[c] # NoTicket /\ holding[c] = holding[d] => c = d

HeldIsSpent == \A c \in Claimers :
    holding[c] # NoTicket =>
        IF ClaimCommitsFirst(Kind[holding[c]]) THEN ticket[holding[c]] = "spent"
        ELSE claimer[holding[c]] = c

DoneIsSpent == \A t \in Tickets :
    effects[t] > 0 => ticket[t] = "spent" /\ \A c \in Claimers : holding[c] # t

TicketsInv == TicketsTypeOK /\ OneHolder /\ HeldIsSpent /\ DoneIsSpent /\ TicketsWorkOnce

(* A request that lets go frees its row, and no other request's. *)
LEMMA LetGoFrees ==
    ASSUME TicketsInv, NEW c \in Claimers, holding[c] # NoTicket, LetGo(c),
           ticket' \in [Tickets -> {"unsent", "open", "spent", "expired"}],
           \A t \in Tickets : t # holding[c] => ticket'[t] = ticket[t],
           ticket'[holding[c]] = "spent" \/ ticket' = ticket
    PROVE  /\ claimer' \in [Tickets -> Claimers \cup {NoClaimer}]
           /\ holding' \in [Claimers -> Tickets \cup {NoTicket}]
           /\ holding'[c] = NoTicket
           /\ \A d \in Claimers \ {c} : holding'[d] = holding[d]
           /\ OneHolder' /\ HeldIsSpent'
           /\ \A d \in Claimers : LET t == holding'[d]
                                  IN t # NoTicket => (claimer'[t] = d \/ ticket'[t] = "spent")
  <1>1. /\ holding \in [Claimers -> Tickets \cup {NoTicket}] /\ holding[c] \in Tickets
        /\ claimer \in [Tickets -> Claimers \cup {NoClaimer}]
    BY DEF TicketsInv, TicketsTypeOK
  <1>2. /\ claimer' \in [Tickets -> Claimers \cup {NoClaimer}]
        /\ holding' \in [Claimers -> Tickets \cup {NoTicket}]
        /\ holding'[c] = NoTicket
        /\ \A d \in Claimers \ {c} : holding'[d] = holding[d]
        /\ \A t \in Tickets : t # holding[c] => claimer'[t] = claimer[t]
    BY <1>1 DEF LetGo
  <1>3. OneHolder'
    BY <1>2 DEF TicketsInv, OneHolder
  <1>4. \A d \in Claimers : holding'[d] # NoTicket =>
            /\ d # c /\ holding'[d] = holding[d] /\ holding[d] \in Tickets
            /\ holding[d] # holding[c]
    BY <1>1, <1>2 DEF TicketsInv, OneHolder
  <1>5. HeldIsSpent'
    BY <1>2, <1>4 DEF TicketsInv, HeldIsSpent
  <1>6. \A d \in Claimers : LET t == holding'[d]
                            IN t # NoTicket => (claimer'[t] = d \/ ticket'[t] = "spent")
    BY <1>2, <1>4 DEF TicketsInv, TicketsTypeOK
  <1>7. QED
    BY <1>2, <1>3, <1>5, <1>6

(* The invariant is kept by every step, so it holds in every state. *)
THEOREM TicketsAlways == TicketsSpec => []TicketsInv
  <1>1. TicketsInit => TicketsInv
    <2> SUFFICES ASSUME TicketsInit PROVE TicketsInv
      OBVIOUS
    <2>1. /\ \A c \in Claimers : holding[c] = NoTicket
          /\ \A t \in Tickets : effects[t] = 0
      BY DEF TicketsInit
    <2>2. TicketsTypeOK
      BY <2>1, TicketsAssumption DEF TicketsInit, TicketsTypeOK
    <2>3. QED
      BY <2>1, <2>2 DEF TicketsInv, OneHolder, HeldIsSpent, DoneIsSpent, TicketsWorkOnce
  <1>2. TicketsInv /\ [TicketsNext]_ticketsVars => TicketsInv'
    <2> SUFFICES ASSUME TicketsInv, [TicketsNext]_ticketsVars PROVE TicketsInv'
      OBVIOUS
    <2>1. CASE UNCHANGED ticketsVars
      BY <2>1 DEF ticketsVars, TicketsInv, TicketsTypeOK, OneHolder, HeldIsSpent, DoneIsSpent,
                  TicketsWorkOnce
    <2>2. CASE LeaveMeanwhile
      BY <2>2 DEF LeaveMeanwhile, TicketsInv, TicketsTypeOK, OneHolder, HeldIsSpent, DoneIsSpent,
                  TicketsWorkOnce
    <2>3. ASSUME NEW t \in Tickets, SendTicket(t) \/ ExpireTicket(t)
          PROVE  TicketsInv'
      <3>1. PICK s \in {"open", "expired"} :
                /\ ticket[t] \in {"unsent", "open"}
                /\ ticket' = [ticket EXCEPT ![t] = s]
                /\ UNCHANGED <<claimer, holding, effects, left>>
        BY <2>3 DEF SendTicket, ExpireTicket
      <3>2. \A u \in Tickets : ticket[u] = "spent" => ticket'[u] = "spent"
        BY <3>1 DEF TicketsInv, TicketsTypeOK
      <3>3. TicketsTypeOK'
        BY <3>1, <3>2 DEF TicketsInv, TicketsTypeOK
      <3>4. HeldIsSpent'
        BY <3>1, <3>2 DEF TicketsInv, TicketsTypeOK, HeldIsSpent
      <3>5. QED
        BY <3>1, <3>2, <3>3, <3>4 DEF TicketsInv, OneHolder, DoneIsSpent, TicketsWorkOnce
    <2>4. ASSUME NEW c \in Claimers, NEW t \in Tickets, ClaimTicket(c, t)
          PROVE  TicketsInv'
      <3>1. /\ ticket[t] = "open" /\ claimer[t] = NoClaimer /\ holding[c] = NoTicket
            /\ holding' = [holding EXCEPT ![c] = t]
            /\ UNCHANGED <<effects, left>>
            /\ t # NoTicket /\ NoClaimer \notin Claimers
        BY <2>4, TicketsAssumption DEF ClaimTicket
      <3>2. \A d \in Claimers : holding[d] # t
        BY <3>1 DEF TicketsInv, HeldIsSpent
      <3>3. /\ holding' \in [Claimers -> Tickets \cup {NoTicket}] /\ holding'[c] = t
            /\ \A d \in Claimers \ {c} : holding'[d] = holding[d]
        BY <3>1 DEF TicketsInv, TicketsTypeOK
      <3>4. /\ ticket' \in [Tickets -> {"unsent", "open", "spent", "expired"}]
            /\ claimer' \in [Tickets -> Claimers \cup {NoClaimer}]
            /\ \A u \in Tickets \ {t} : ticket'[u] = ticket[u] /\ claimer'[u] = claimer[u]
            /\ IF ClaimCommitsFirst(Kind[t]) THEN ticket'[t] = "spent" ELSE claimer'[t] = c
        BY <2>4 DEF ClaimTicket, TicketsInv, TicketsTypeOK
      <3>5. effects[t] = 0
        BY <3>1 DEF TicketsInv, DoneIsSpent, TicketsTypeOK
      <3>6. OneHolder'
        BY <3>2, <3>3 DEF TicketsInv, OneHolder
      <3>7. \A d \in Claimers \ {c} : holding[d] # NoTicket => holding[d] \in Tickets \ {t}
        BY <3>2 DEF TicketsInv, TicketsTypeOK
      <3>8. HeldIsSpent'
        BY <3>3, <3>4, <3>7 DEF TicketsInv, HeldIsSpent
      <3>9. TicketsTypeOK'
        BY <3>1, <3>3, <3>4, <3>7 DEF TicketsInv, TicketsTypeOK
      <3>10. DoneIsSpent' /\ TicketsWorkOnce'
        BY <3>1, <3>3, <3>4, <3>5 DEF TicketsInv, DoneIsSpent, TicketsWorkOnce
      <3>11. QED
        BY <3>6, <3>8, <3>9, <3>10 DEF TicketsInv
    <2>5. ASSUME NEW c \in Claimers, UseTicket(c) \/ RefuseLink(c) \/ Abandon(c)
          PROVE  TicketsInv'
      <3>1. /\ holding[c] # NoTicket /\ LetGo(c) /\ UNCHANGED left
            /\ ticket' = [ticket EXCEPT ![holding[c]] = "spent"] \/ ticket' = ticket
            /\ \/ UNCHANGED effects
               \/ /\ effects' = [effects EXCEPT ![holding[c]] = @ + 1]
                  /\ ticket' = [ticket EXCEPT ![holding[c]] = "spent"]
        BY <2>5 DEF UseTicket, RefuseLink, Abandon
      <3>2. /\ holding[c] \in Tickets /\ effects[holding[c]] = 0
            /\ ticket \in [Tickets -> {"unsent", "open", "spent", "expired"}]
            /\ effects \in [Tickets -> Nat]
        BY <3>1 DEF TicketsInv, TicketsTypeOK, DoneIsSpent
      <3>3. /\ ticket' \in [Tickets -> {"unsent", "open", "spent", "expired"}]
            /\ \A t \in Tickets : t # holding[c] => ticket'[t] = ticket[t]
            /\ ticket'[holding[c]] = "spent" \/ ticket' = ticket
            /\ \A t \in Tickets : ticket[t] = "spent" => ticket'[t] = "spent"
        BY <3>1, <3>2
      <3>4. /\ claimer' \in [Tickets -> Claimers \cup {NoClaimer}]
            /\ holding' \in [Claimers -> Tickets \cup {NoTicket}]
            /\ holding'[c] = NoTicket
            /\ \A d \in Claimers \ {c} : holding'[d] = holding[d]
            /\ OneHolder' /\ HeldIsSpent'
            /\ \A d \in Claimers : LET t == holding'[d]
                                   IN t # NoTicket => (claimer'[t] = d \/ ticket'[t] = "spent")
        BY <3>1, <3>3, LetGoFrees
      <3>5. effects' \in [Tickets -> Nat] /\ TicketsWorkOnce'
        BY <3>1, <3>2 DEF TicketsInv, TicketsWorkOnce
      <3>6. TicketsTypeOK'
        BY <3>1, <3>3, <3>4, <3>5 DEF TicketsInv, TicketsTypeOK
      <3>7. DoneIsSpent'
        <4> SUFFICES ASSUME NEW t \in Tickets, effects'[t] > 0
                     PROVE  ticket'[t] = "spent" /\ \A d \in Claimers : holding'[d] # t
          BY DEF DoneIsSpent
        <4>1. CASE t = holding[c]
          <5>1. ticket'[t] = "spent"
            BY <3>1, <3>2, <4>1
          <5>2. \A d \in Claimers : holding'[d] # t
            BY <3>1, <3>2, <3>4, <4>1, TicketsAssumption DEF TicketsInv, OneHolder
          <5>3. QED
            BY <5>1, <5>2
        <4>2. CASE t # holding[c]
          BY <3>1, <3>2, <3>3, <3>4, <4>2, TicketsAssumption DEF TicketsInv, DoneIsSpent
        <4>3. QED
          BY <4>1, <4>2
      <3>8. QED
        BY <3>4, <3>5, <3>6, <3>7 DEF TicketsInv
    <2>6. QED
      BY <2>1, <2>2, <2>3, <2>4, <2>5 DEF TicketsNext
  <1>3. QED
    BY <1>1, <1>2, PTL DEF TicketsSpec

(* Every reachable state of the tickets is well typed. *)
THEOREM TicketsTyped == TicketsSpec => []TicketsTypeOK
  <1>1. TicketsInv => TicketsTypeOK
    BY DEF TicketsInv
  <1>2. QED
    BY <1>1, TicketsAlways, PTL

(* A reset, a link, a code or a ceremony does what it is for once, however *)
(* many requests present it at once and whichever of them fail.            *)
THEOREM TicketsWork == TicketsSpec => []TicketsWorkOnce
  <1>1. TicketsInv => TicketsWorkOnce
    BY DEF TicketsInv
  <1>2. QED
    BY <1>1, TicketsAlways, PTL

(* A code or a ceremony takes one answer: nothing gives it back. *)
THEOREM AnswersAreOnce == TicketsSpec => OneAnswerEach
  <1> DEFINE Kept == \A t \in Tickets :
                 ClaimCommitsFirst(Kind[t]) /\ ticket[t] = "spent" => ticket'[t] = "spent"
  <1>1. TicketsInv /\ [TicketsNext]_ticketsVars => [Kept]_ticketsVars
    <2> SUFFICES ASSUME TicketsInv, TicketsNext, NEW t \in Tickets, ticket[t] = "spent"
                 PROVE  ticket'[t] = "spent"
      OBVIOUS
    <2>1. QED
      BY DEF TicketsInv, TicketsTypeOK, TicketsNext, LeaveMeanwhile, SendTicket, ExpireTicket,
             ClaimTicket, UseTicket, RefuseLink, Abandon
  <1>2. QED
    BY <1>1, TicketsAlways, PTL DEF TicketsSpec, OneAnswerEach

(***************************************************************************)
(* The instance the runs check: a behaviour of MCTurns is one of each part. *)
(***************************************************************************)
LEMMA PartsOfTurns == TurnsSpec => SessionsSpec /\ McpSpec /\ TicketsSpec
  <1>1. TurnsInit => SessionsInit /\ McpInit /\ TicketsInit
    BY DEF TurnsInit
  <1>2. [TurnsNext]_turnsVars =>
          [SessionsNext]_sessionsVars /\ [McpNext]_mcpVars /\ [TicketsNext]_ticketsVars
    BY DEF TurnsNext, turnsVars
  <1> QED
    BY <1>1, <1>2, PTL DEF TurnsSpec, SessionsSpec, McpSpec, TicketsSpec

(* Refresh tokens, grants and tickets are well typed, however they are     *)
(* taken, ended and abandoned.                                             *)
THEOREM TurnsTyped == TurnsSpec => []TurnsTypeOK
  <1>1. SessionsTypeOK /\ McpTypeOK /\ TicketsTypeOK => TurnsTypeOK
    BY DEF TurnsTypeOK
  <1> QED
    BY <1>1, PartsOfTurns, SessionsTyped, McpTyped, TicketsTyped, PTL

(* A sign-in and a grant hand over from one token to one new token, and    *)
(* what has ended never works again: both implement TokenFamilies.         *)
THEOREM RotationsHandOver == TurnsSpec => RotationsAreLineages
  BY PartsOfTurns, SessionsImplementFamilies, GrantsImplementFamilies, PTL DEF RotationsAreLineages

(* A grant has one live row, a ticket works once, and a code or a ceremony *)
(* takes one answer.                                                       *)
THEOREM OneOfEachTurn == TurnsSpec => OneEach
  BY PartsOfTurns, FamilyHasOneLive, GrantHasOneLive, TicketsWork, AnswersAreOnce, PTL DEF OneEach
=============================================================================
