----------------------------- MODULE TokenLedger -----------------------------
(***************************************************************************)
(* What the exchange of tokens promises, whoever keeps the books: a token  *)
(* is issued once, is open until it is spent, is spent only if the log has *)
(* something to show for it, and is announced as consumed only once spent. *)
(* LockGate and UploadQueue both implement this; between them lie the      *)
(* files, threads and networks that this module does not have.             *)
(***************************************************************************)
EXTENDS Naturals

CONSTANTS
  Token,    \* every token that can be minted
  DayOf,    \* DayOf[t]: the day of token t
  Nothing   \* no announcement yet

VARIABLES
  issued,   \* tokens minted so far
  open,     \* tokens that evidence can still be accepted for
  spent,    \* tokens recorded as consumed
  backed,   \* tokens the log has a credit or an excuse for
  notice    \* what was last announced: a token, and whether it is consumed

vars == <<issued, open, spent, backed, notice>>

Told == IF notice # Nothing /\ notice.consumed THEN {notice.token} ELSE {}

(* What may no longer lose its backing.                                    *)
Settled == spent \cup Told

Init ==
  /\ issued = {} /\ open = {} /\ spent = {} /\ backed = {}
  /\ notice = Nothing

(* A token is new; records whose signature is missing go at the same time. *)
(* It may be announced at once.                                            *)
Issue(t) ==
  /\ t \notin issued
  /\ issued' = issued \cup {t}
  /\ t \in open' /\ open' \subseteq open \cup {t}
  /\ spent' \subseteq spent
  /\ \/ UNCHANGED notice
     \/ notice' = [token |-> t, consumed |-> FALSE]
  /\ UNCHANGED backed

(* The log may gain t, and lose what nobody relies on yet.                 *)
Backs(gained) ==
  /\ gained \subseteq backed' /\ backed' \subseteq backed \cup gained
  /\ Settled \subseteq backed'

Credit(t) ==
  /\ t \in open
  /\ Backs({t})
  /\ UNCHANGED <<issued, open, spent, notice>>

(* A day is excused, and with it whatever was left of the days before.     *)
Excuse(d) ==
  /\ Backs({t \in Token : DayOf[t] =< d})
  /\ UNCHANGED <<issued, open, spent, notice>>

(* Spent with its credit, or some time after it.                           *)
Spend(t) ==
  /\ t \in open
  /\ Backs({t})
  /\ t \in spent' /\ spent' \subseteq spent \cup {t}
  /\ open' \subseteq open \ {t}
  /\ UNCHANGED <<issued, notice>>

Announce(t) ==
  /\ t \in open \cup spent
  /\ notice' = [token |-> t, consumed |-> t \in spent]
  /\ UNCHANGED <<issued, open, spent, backed>>

Next ==
  \/ \E t \in Token : Issue(t) \/ Credit(t) \/ Spend(t) \/ Announce(t)
  \/ \E d \in {DayOf[t] : t \in Token} : Excuse(d)

Spec == Init /\ [][Next]_vars
=============================================================================
