---------------------------- MODULE TokenFamilies ----------------------------
(***************************************************************************)
(* What rotation promises about the tokens descended from one sign-in:     *)
(* one of them works at a time, it hands over to a token nobody has held,  *)
(* and a family that has ended does not come back.  A step may end many    *)
(* families at once.                                                       *)
(***************************************************************************)
CONSTANTS
    Families,
    FamilyTokens,
    NoHolder

VARIABLES
    holder, \* for each family the token that works, or NoHolder
    past    \* for each family the tokens that have worked

familiesVars == <<holder, past>>

FamiliesInit ==
    /\ holder = [f \in Families |-> NoHolder]
    /\ past = [f \in Families |-> {}]

FamilyStays(f) == holder'[f] = holder[f] /\ past'[f] = past[f]

\* The sign-in, and every rotation after it.
FamilyAdvances(f) ==
    \E t \in FamilyTokens :
        /\ t \notin past[f]
        /\ past[f] = {} \/ holder[f] # NoHolder
        /\ holder'[f] = t
        /\ past'[f] = past[f] \cup {t}

FamilyEnds(f) ==
    /\ holder[f] # NoHolder
    /\ holder'[f] = NoHolder
    /\ past'[f] = past[f]

FamiliesNext ==
    \A f \in Families : FamilyStays(f) \/ FamilyAdvances(f) \/ FamilyEnds(f)

FamiliesSpec == FamiliesInit /\ [][FamiliesNext]_familiesVars
=============================================================================
