----------------------------- MODULE EscapeHatch -----------------------------
(***************************************************************************)
(* The way past a lock that no evidence can open (home_guard/              *)
(* _escape_hatch.py), its dialog (_view.py, open_escape_dialog) and the    *)
(* lock that owns both (_lock.py).  A grant costs one use out of rolling   *)
(* budgets, so many in any 7, 30 and 90 days, and satisfies the slot by an *)
(* `escape' entry in the log (_log.py, append_escape_entry).               *)
(*                                                                         *)
(* The budgets are kept by gatelock's EscapeTracker, which is not in this  *)
(* repository: it is modelled as the code here uses it, loaded when a lock *)
(* is built, asked and told with one day, and saving what it was told.     *)
(* LockGate has the log, the worker that appends to it at the same time    *)
(* and which slot an entry satisfies; here a use, and the entry it pays    *)
(* for, is its day and a number.                                           *)
(***************************************************************************)
EXTENDS Naturals, FiniteSets

CONSTANTS
  MaxDay,     \* days the model runs for                            (bound)
  MaxUses,    \* uses ever recorded                                 (bound)
  Windows,    \* HATCH_POLICY: how many uses in how many days
  Nothing     \* no lock, no grant under way

Days == 1 .. MaxDay
Use  == [day : Days, nr : 1 .. MaxUses]

ASSUME EscapeHatchAssumption ==
  /\ MaxDay \in Nat \ {0} /\ MaxUses \in Nat
  /\ Windows \subseteq [days : Nat \ {0}, uses : Nat]
  /\ Nothing \notin Days

VARIABLES
  day,      \* the local calendar day
  nr,       \* uses recorded so far, saved or not
  history,  \* .escape_hatch_history, the uses that were saved
  tracker,  \* the uses the lock's tracker remembers
  armed,    \* the day the lock that is up was armed on, or Nothing
  grant,    \* the day the grant under way read from the clock, or Nothing
  paid,     \* whether its use is recorded
  escapes   \* the escape entries in the log, each named by its use

lockVars == <<tracker, armed, grant, paid>>
vars == <<day, nr, history, lockVars, escapes>>

(* The uses of the n days that end with d.                                 *)
Within(uses, d, n) == {u \in uses : u.day =< d /\ d < u.day + n}

(* is_budget_exhausted *)
Exhausted(d) ==
  \E w \in Windows : Cardinality(Within(tracker, d, w.days)) >= w.uses

Closed == /\ tracker' = {} /\ armed' = Nothing
          /\ grant' = Nothing /\ paid' = FALSE

Init ==
  /\ day = 1 /\ nr = 0
  /\ history = {} /\ escapes = {}
  /\ tracker = {} /\ armed = Nothing /\ grant = Nothing /\ paid = FALSE

-----------------------------------------------------------------------------
(* Mutant of Arm: the tracker is built and not loaded.                     *)
ArmUnloaded ==
  /\ armed = Nothing
  /\ tracker' = {} /\ armed' = day
  /\ UNCHANGED <<day, nr, history, grant, paid, escapes>>

(* HomeGuardGuard.__init__, with build_tracker: one lock at a time holds   *)
(* the turn, and its tracker is not loaded again.                          *)
Arm ==
  /\ armed = Nothing
  /\ tracker' = history /\ armed' = day
  /\ UNCHANGED <<day, nr, history, grant, paid, escapes>>

(* _submit, a Tk callback, calls grant_escape, which reads the clock once. *)
Submit ==
  /\ armed # Nothing /\ grant = Nothing
  /\ grant' = day
  /\ UNCHANGED <<day, nr, history, tracker, armed, paid, escapes>>

(* No uses left, or the draft is not good enough: the dialog shows a       *)
(* complaint and stays.                                                    *)
Refuse ==
  /\ grant # Nothing /\ ~paid
  /\ grant' = Nothing
  /\ UNCHANGED <<day, nr, history, tracker, armed, paid, escapes>>

NewUse(d) == [day |-> d, nr |-> nr + 1]

(* Mutants of Record: the use is charged to the day the lock was armed on, *)
(* not the one the budget was asked for; what cannot be saved is granted.  *)
RecordArmedDay ==
  /\ grant # Nothing /\ ~paid
  /\ ~Exhausted(grant) /\ nr < MaxUses
  /\ nr' = nr + 1 /\ paid' = TRUE
  /\ tracker' = tracker \cup {NewUse(armed)} /\ history' = tracker'
  /\ UNCHANGED <<day, armed, grant, escapes>>

RecordAnyway ==
  /\ grant # Nothing /\ ~paid
  /\ ~Exhausted(grant) /\ nr < MaxUses
  /\ nr' = nr + 1 /\ paid' = TRUE
  /\ tracker' = tracker \cup {NewUse(grant)} /\ history' \in {tracker', history}
  /\ UNCHANGED <<day, armed, grant, escapes>>

(* tracker.record: the use, of the same day the budget was asked for, is   *)
(* saved with all the others ...                                           *)
Record ==
  /\ grant # Nothing /\ ~paid
  /\ ~Exhausted(grant) /\ nr < MaxUses
  /\ nr' = nr + 1 /\ paid' = TRUE
  /\ tracker' = tracker \cup {NewUse(grant)} /\ history' = tracker'
  /\ UNCHANGED <<day, armed, grant, escapes>>

(* ... or cannot be, which is a complaint too.  Whether the tracker goes   *)
(* on remembering it is gatelock's to say.                                 *)
RecordFails ==
  /\ grant # Nothing /\ ~paid
  /\ ~Exhausted(grant) /\ nr < MaxUses
  /\ nr' = nr + 1 /\ grant' = Nothing
  /\ tracker' \in {tracker, tracker \cup {NewUse(grant)}}
  /\ UNCHANGED <<day, history, armed, paid, escapes>>

(* Mutant of Append: the lock closes first.                                *)
AppendClosed ==
  /\ paid
  /\ Closed
  /\ escapes' \in {escapes \cup {[day |-> grant', nr |-> nr]}, escapes}
  /\ UNCHANGED <<day, nr, history>>

(* append_escape_entry, filed under the same day once more; on_granted     *)
(* closes the lock, and so does the callback's error handler when the log  *)
(* could not be written.                                                   *)
Append ==
  /\ paid
  /\ escapes' \in {escapes \cup {[day |-> grant, nr |-> nr]}, escapes}
  /\ Closed
  /\ UNCHANGED <<day, nr, history>>

(* The lock goes: evidence was accepted, in another callback of the same   *)
(* thread, or the process was stopped or killed, wherever it was.          *)
Leave ==
  /\ armed # Nothing
  /\ Closed
  /\ UNCHANGED <<day, nr, history, escapes>>

Midnight ==
  /\ day < MaxDay
  /\ day' = day + 1
  /\ UNCHANGED <<nr, history, lockVars, escapes>>

Next == \/ Arm \/ Submit \/ Refuse \/ Record \/ RecordFails \/ Append \/ Leave
        \/ Midnight

Spec == Init /\ [][Next]_vars

-----------------------------------------------------------------------------
(* Every variable has its type.                                            *)
TypeOK ==
  /\ day \in Days /\ nr \in 0 .. MaxUses
  /\ history \subseteq Use /\ tracker \subseteq Use /\ escapes \subseteq Use
  /\ armed \in Days \cup {Nothing} /\ grant \in Days \cup {Nothing}
  /\ paid \in BOOLEAN

(* The promise behind the hatch, "rate-limited [...] never unlimited": no  *)
(* stretch of days anywhere, not only one that ends with a grant, has more *)
(* escapes in the log than its window's budget, however locks left up past *)
(* midnight, failed saves, crashes and restarts follow each other.         *)
RollingBudget ==
  \A w \in Windows : \A d \in Days :
    Cardinality(Within(escapes, d, w.days)) =< w.uses

(* An entry is filed under the very day its use was charged to, and the    *)
(* use is on the disk before it: no crash, and no lock whose tracker was   *)
(* loaded days ago, leaves a free one or forgets one that was paid.        *)
EscapesArePaid == escapes \subseteq history

(* What the history has, no later save of an older copy takes out again.   *)
HistoryGrows == [][history \subseteq history']_history
=============================================================================
