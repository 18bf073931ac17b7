-------------------------- MODULE EscapeHatchProofs --------------------------
(***************************************************************************)
(* What holds of EscapeHatch for every policy, number of days and number   *)
(* of uses: no stretch of days has more escapes in the log than its window *)
(* allows, each of them is paid for on disk, and no payment is forgotten.  *)
(***************************************************************************)
EXTENDS EscapeHatch, FiniteSetTheorems, TLAPS

(* Every window keeps its budget, wherever it ends.                        *)
InBudget(uses) ==
  \A w \in Windows : \A d \in Days :
    Cardinality(Within(uses, d, w.days)) =< w.uses

(* What a lock remembers: nothing from the future, not even from after the *)
(* day its grant took from the clock, and at least what was saved.  Only   *)
(* the lock that is up saves, so its memory never gets out of date.        *)
Remembered ==
  /\ \A u \in tracker : u.day =< day
  /\ \A u \in history : u.day =< day
  /\ armed # Nothing => history \subseteq tracker
  /\ grant # Nothing => /\ armed # Nothing /\ grant =< day
                        /\ \A u \in tracker : u.day =< grant

(* A grant that is recorded has its use on disk.                           *)
PaidIsSaved ==
  paid => grant # Nothing /\ [day |-> grant, nr |-> nr] \in history

Budgeted ==
  /\ IsFiniteSet(tracker) /\ IsFiniteSet(history)
  /\ InBudget(tracker) /\ InBudget(history)

IInv == TypeOK /\ Remembered /\ PaidIsSaved /\ EscapesArePaid /\ Budgeted

-----------------------------------------------------------------------------
(* Windows as sets of uses.                                                *)

LEMMA WithinIsFinite ==
  ASSUME NEW uses, IsFiniteSet(uses), NEW d, NEW n
  PROVE  /\ IsFiniteSet(Within(uses, d, n))
         /\ Cardinality(Within(uses, d, n)) \in Nat
<1>1. Within(uses, d, n) \in SUBSET uses
  BY DEF Within
<1>2. IsFiniteSet(Within(uses, d, n))
  BY <1>1, FS_Subset
<1> QED BY <1>2, FS_CardinalityType

(* A smaller set of uses needs no larger budget.                           *)
LEMMA BudgetOfFewer ==
  ASSUME NEW uses, NEW fewer, IsFiniteSet(uses), fewer \subseteq uses, InBudget(uses)
  PROVE  InBudget(fewer)
<1> SUFFICES ASSUME NEW w \in Windows, NEW d \in Days
             PROVE  Cardinality(Within(fewer, d, w.days)) =< w.uses
  BY DEF InBudget
<1>1. Within(fewer, d, w.days) \in SUBSET Within(uses, d, w.days)
  BY DEF Within
<1>2. IsFiniteSet(Within(fewer, d, w.days)) /\ IsFiniteSet(fewer)
  BY <1>1, WithinIsFinite, FS_Subset
<1>3. Cardinality(Within(fewer, d, w.days)) =< Cardinality(Within(uses, d, w.days))
  BY <1>1, WithinIsFinite, FS_Subset
<1>4. Cardinality(Within(uses, d, w.days)) =< w.uses
  BY DEF InBudget
<1>5. w.uses \in Nat
  BY EscapeHatchAssumption
<1> QED BY <1>2, <1>3, <1>4, <1>5, WithinIsFinite

(* One more use on day g, when the windows that end with g have room and   *)
(* nothing is later than g, fills no window too far: neither those that    *)
(* end with g nor those that end after it.                                 *)
LEMMA BudgetOfOneMore ==
  ASSUME NEW uses \in SUBSET Use, IsFiniteSet(uses), InBudget(uses),
         NEW g \in Days, \A u \in uses : u.day =< g,
         \A w \in Windows : ~(Cardinality(Within(uses, g, w.days)) >= w.uses),
         NEW x \in Use, x.day = g
  PROVE  InBudget(uses \cup {x})
<1> DEFINE more == uses \cup {x}
<1> SUFFICES ASSUME NEW w \in Windows, NEW d \in Days
             PROVE  Cardinality(Within(more, d, w.days)) =< w.uses
  BY DEF InBudget
<1>1. w.days \in Nat \ {0} /\ w.uses \in Nat
  BY EscapeHatchAssumption
<1>2. d \in Nat /\ g \in Nat /\ \A u \in uses : u.day \in Nat
  BY EscapeHatchAssumption DEF Days, Use
<1>3. CASE g =< d /\ d < g + w.days
  <2> DEFINE ending == Within(uses, g, w.days)
  <2>1. Within(more, d, w.days) \in SUBSET (ending \cup {x})
    BY <1>1, <1>2, <1>3 DEF Within
  <2>2. IsFiniteSet(ending) /\ Cardinality(ending) \in Nat
    BY WithinIsFinite
  <2>3. Cardinality(ending) + 1 =< w.uses
    BY <2>2, <1>1
  <2>4. /\ IsFiniteSet(ending \cup {x})
        /\ Cardinality(ending \cup {x}) \in Nat
        /\ Cardinality(ending \cup {x}) =< Cardinality(ending) + 1
    <3> HIDE DEF ending
    <3>1. /\ IsFiniteSet(ending \cup {x})
          /\ Cardinality(ending \cup {x})
               = IF x \in ending THEN Cardinality(ending) ELSE Cardinality(ending) + 1
      BY <2>2, FS_AddElement
    <3> QED BY <2>2, <3>1
  <2>5. /\ Cardinality(Within(more, d, w.days)) =< Cardinality(ending \cup {x})
        /\ Cardinality(Within(more, d, w.days)) \in Nat
    BY <2>1, <2>4, FS_Subset, FS_CardinalityType
  <2> HIDE DEF ending, more
  <2> QED BY <2>2, <2>3, <2>4, <2>5, <1>1
<1>4. CASE ~(g =< d /\ d < g + w.days)
  <2>1. Within(more, d, w.days) = Within(uses, d, w.days)
    BY <1>1, <1>2, <1>4 DEF Within
  <2> QED BY <2>1 DEF InBudget
<1> QED BY <1>3, <1>4

-----------------------------------------------------------------------------
(* The invariant.                                                          *)

LEMMA InitIInv == Init => IInv
<1> SUFFICES ASSUME Init PROVE IInv
  OBVIOUS
<1>1. /\ TypeOK
      /\ Remembered /\ PaidIsSaved /\ EscapesArePaid
  <2>1. 1 \in Days /\ 0 \in 0 .. MaxUses
    BY EscapeHatchAssumption DEF Days
  <2>2. TypeOK
    BY <2>1 DEF Init, TypeOK
  <2>3. Remembered /\ PaidIsSaved /\ EscapesArePaid
    BY DEF Init, Remembered, PaidIsSaved, EscapesArePaid
  <2> QED BY <2>2, <2>3
<1>2. InBudget({})
  <2> SUFFICES ASSUME NEW w \in Windows, NEW d \in Days
               PROVE  Cardinality(Within({}, d, w.days)) =< w.uses
    BY DEF InBudget
  <2>1. Within({}, d, w.days) = {}
    BY DEF Within
  <2>2. w.uses \in Nat
    BY EscapeHatchAssumption
  <2> QED BY <2>1, <2>2, FS_EmptySet
<1> QED BY <1>1, <1>2, FS_EmptySet DEF Init, IInv, Budgeted

(* Both outcomes of asking for a use: the tracker knows one more, and      *)
(* every window still has its budget.                                      *)
LEMMA OneMoreUse ==
  ASSUME IInv, grant # Nothing, ~Exhausted(grant), nr < MaxUses
  PROVE  /\ NewUse(grant) \in Use /\ nr + 1 \in 0 .. MaxUses
         /\ IsFiniteSet(tracker \cup {NewUse(grant)})
         /\ InBudget(tracker \cup {NewUse(grant)})
<1>1. grant \in Days /\ nr + 1 \in 1 .. MaxUses
  BY EscapeHatchAssumption DEF IInv, TypeOK
<1>2. NewUse(grant) \in Use /\ NewUse(grant).day = grant
  BY <1>1 DEF NewUse, Use
<1>3. IsFiniteSet(tracker \cup {NewUse(grant)})
  BY FS_AddElement DEF IInv, Budgeted
<1>4. InBudget(tracker \cup {NewUse(grant)})
  BY <1>1, <1>2, BudgetOfOneMore DEF IInv, TypeOK, Budgeted, Remembered, Exhausted
<1> QED BY <1>1, <1>2, <1>3, <1>4, EscapeHatchAssumption

(* What stays as it was keeps its budget.                                  *)
LEMMA SameUses ==
  ASSUME Budgeted, UNCHANGED <<tracker, history>>
  PROVE  Budgeted'
BY DEF Budgeted, InBudget, Within

LEMMA NextIInv == IInv /\ [Next]_vars => IInv'
<1> SUFFICES ASSUME IInv, [Next]_vars PROVE IInv'
  OBVIOUS
<1> USE EscapeHatchAssumption DEF IInv
<1>1. CASE Arm
  <2>1. TypeOK' /\ Remembered' /\ PaidIsSaved' /\ EscapesArePaid'
    BY <1>1 DEF Arm, TypeOK, Remembered, PaidIsSaved, EscapesArePaid, Days
  <2>2. Budgeted'
    BY <1>1 DEF Arm, Budgeted, InBudget, Within
  <2> QED BY <2>1, <2>2
<1>2. CASE Submit
  <2>1. TypeOK' /\ Remembered' /\ PaidIsSaved' /\ EscapesArePaid'
    BY <1>2 DEF Submit, TypeOK, Remembered, PaidIsSaved, EscapesArePaid, Days
  <2> QED BY <1>2, <2>1, SameUses DEF Submit
<1>3. CASE Refuse
  <2>1. TypeOK' /\ Remembered' /\ PaidIsSaved' /\ EscapesArePaid'
    BY <1>3 DEF Refuse, TypeOK, Remembered, PaidIsSaved, EscapesArePaid
  <2> QED BY <1>3, <2>1, SameUses DEF Refuse
<1>4. CASE Record
  <2>1. /\ NewUse(grant) \in Use /\ nr' \in 0 .. MaxUses
        /\ IsFiniteSet(tracker') /\ InBudget(tracker')
    BY <1>4, OneMoreUse DEF Record
  <2>2. TypeOK'
    BY <1>4, <2>1 DEF Record, TypeOK
  <2>3. Remembered'
    BY <1>4 DEF Record, Remembered, NewUse, TypeOK, Days
  <2>4. PaidIsSaved' /\ EscapesArePaid'
    BY <1>4 DEF Record, PaidIsSaved, EscapesArePaid, NewUse, Remembered
  <2>5. Budgeted'
    BY <1>4, <2>1 DEF Record, Budgeted, InBudget, Within
  <2> QED BY <2>2, <2>3, <2>4, <2>5
<1>5. CASE RecordFails
  <2>1. /\ NewUse(grant) \in Use /\ nr' \in 0 .. MaxUses
        /\ IsFiniteSet(tracker') /\ InBudget(tracker')
    BY <1>5, OneMoreUse DEF RecordFails, Budgeted
  <2>2. TypeOK'
    BY <1>5, <2>1 DEF RecordFails, TypeOK
  <2>3. Remembered'
    BY <1>5 DEF RecordFails, Remembered, NewUse, TypeOK, Days
  <2>4. PaidIsSaved' /\ EscapesArePaid'
    BY <1>5 DEF RecordFails, PaidIsSaved, EscapesArePaid
  <2>5. Budgeted'
    BY <1>5, <2>1 DEF RecordFails, Budgeted, InBudget, Within
  <2> QED BY <2>2, <2>3, <2>4, <2>5
<1>6. CASE Append
  <2>1. [day |-> grant, nr |-> nr] \in history
    BY <1>6 DEF Append, PaidIsSaved
  <2>2. TypeOK' /\ PaidIsSaved' /\ EscapesArePaid'
    BY <1>6, <2>1 DEF Append, Closed, TypeOK, PaidIsSaved, EscapesArePaid
  <2>3. Remembered'
    BY <1>6 DEF Append, Closed, Remembered
  <2>4. Budgeted'
    BY <1>6, FS_EmptySet, BudgetOfFewer DEF Append, Closed, Budgeted, InBudget, Within
  <2> QED BY <2>2, <2>3, <2>4
<1>7. CASE Leave
  <2>1. TypeOK' /\ PaidIsSaved' /\ EscapesArePaid' /\ Remembered'
    BY <1>7 DEF Leave, Closed, TypeOK, PaidIsSaved, EscapesArePaid, Remembered
  <2>2. Budgeted'
    BY <1>7, FS_EmptySet, BudgetOfFewer DEF Leave, Closed, Budgeted, InBudget, Within
  <2> QED BY <2>1, <2>2
<1>8. CASE Midnight
  <2>1. TypeOK' /\ PaidIsSaved' /\ EscapesArePaid' /\ Remembered'
    BY <1>8
       DEF Midnight, lockVars, TypeOK, PaidIsSaved, EscapesArePaid, Remembered, Days, Use
  <2> QED BY <1>8, <2>1, SameUses DEF Midnight, lockVars
<1>9. CASE UNCHANGED vars
  <2>1. TypeOK' /\ PaidIsSaved' /\ EscapesArePaid' /\ Remembered'
    BY <1>9
       DEF vars, lockVars, TypeOK, PaidIsSaved, EscapesArePaid, Remembered
  <2> QED BY <1>9, <2>1, SameUses DEF vars, lockVars
<1> QED
  BY <1>1, <1>2, <1>3, <1>4, <1>5, <1>6, <1>7, <1>8, <1>9 DEF Next

(* The strengthened invariant holds in every reachable state.              *)
THEOREM Invariance == Spec => []IInv
<1> QED BY InitIInv, NextIInv, PTL DEF Spec

(* Every variable of the hatch, its history and the log's escapes keeps    *)
(* its type.                                                               *)
THEOREM TypeCorrect == Spec => []TypeOK
<1>1. IInv => TypeOK
  BY DEF IInv
<1> QED BY <1>1, Invariance, PTL

(* No escape is in the log whose use is not in the saved history, under    *)
(* the same day: the order of tracker.record and append_escape_entry.      *)
THEOREM EscapesStayPaid == Spec => []EscapesArePaid
<1>1. IInv => EscapesArePaid
  BY DEF IInv
<1> QED BY <1>1, Invariance, PTL

(* HATCH_POLICY is kept over any stretch of days, for any policy, however  *)
(* long locks stay up, saves fail and processes die.                       *)
THEOREM BudgetIsNeverExceeded == Spec => []RollingBudget
<1>1. IInv => RollingBudget
  <2> SUFFICES ASSUME IInv PROVE InBudget(escapes)
    BY DEF RollingBudget, InBudget
  <2> QED BY BudgetOfFewer DEF IInv, EscapesArePaid, Budgeted
<1> QED BY <1>1, Invariance, PTL

(* Saving a tracker never drops a use that an earlier lock saved.          *)
THEOREM HistoryOnlyGrows == Spec => HistoryGrows
<1>1. IInv /\ [Next]_vars => [history \subseteq history']_history
  <2> SUFFICES ASSUME IInv, [Next]_vars PROVE history \subseteq history'
    OBVIOUS
  <2>1. CASE Record
    BY <2>1 DEF Record, IInv, Remembered
  <2>2. CASE ~Record
    BY <2>2
       DEF Next, Arm, Submit, Refuse, RecordFails, Append, Leave, Closed, Midnight,
           vars, lockVars
  <2> QED BY <2>1, <2>2
<1> QED BY <1>1, Invariance, PTL DEF Spec, HistoryGrows
=============================================================================
