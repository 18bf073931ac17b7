--------------------------- MODULE LockGateProofs ---------------------------
(***************************************************************************)
(* The safety properties of LockGate, for every value of its constants.    *)
(* The inductive invariant IInv is the typing invariant and eight parts,   *)
(* each kept by every step on its own or with the help of the ones before. *)
(* AppInv adds three parts for what holds with the guards of the app, and  *)
(* the ledger of tokens is implemented step by step.                       *)
(***************************************************************************)
EXTENDS LockGate, FiniteSetTheorems, TLAPS

-----------------------------------------------------------------------------
(* Operators of the model, and the typing invariant.                       *)

(* A non-empty set of natural numbers has a least element.                 *)
LEMMA LeastNumber ==
  ASSUME NEW S, S \subseteq Nat, S # {}
  PROVE  \E i \in S : \A j \in S : i =< j
<1> DEFINE R == {p \in Nat \X Nat : p[1] < p[2]}
<1>1. IsWellFoundedOn(R, Nat)
  BY NatLessThanWellFounded DEF OpToRel
<1>2. PICK m \in S : \A k \in S : ~(<<k, m>> \in R)
  <2> HIDE DEF R
  <2> QED BY <1>1, WFMin
<1>3. ASSUME NEW j \in S PROVE m =< j
  <2>1. j \in Nat /\ m \in Nat
    OBVIOUS
  <2>2. <<j, m>> \in Nat \X Nat /\ (j < m => <<j, m>> \in R)
    BY <2>1
  <2> QED BY <1>2, <2>1, <2>2
<1> QED BY <1>3

(* The place after a zone of the rotation is a natural number: list.index  *)
(* finds the first of its places.                                          *)
LEMMA IndexAfterType ==
  ASSUME NEW d \in Days, NEW zone, InRotation(zone, d)
  PROVE  IndexAfter(zone, d) \in Nat
<1> DEFINE Places == {i \in 1 .. Len(Rotation[d]) : Rotation[d][i] = zone}
<1>1. Rotation[d] \in Seq(Zones) /\ Len(Rotation[d]) \in Nat
  BY LockGateAssumption
<1>2. Places \subseteq Nat /\ Places # {}
  BY <1>1 DEF InRotation
<1>3. PICK i \in Places : \A j \in Places : i =< j
  <2> HIDE DEF Places
  <2> QED BY <1>2, LeastNumber
<1>4. \A j \in 1 .. (i - 1) : Rotation[d][j] # zone
  BY <1>1, <1>3
<1>5. PlaceOf(zone, d) \in 1 .. Len(Rotation[d])
  BY <1>3, <1>4 DEF PlaceOf
<1> QED BY <1>1, <1>5 DEF IndexAfter

(* What put_challenge leaves in the store, field by field.                 *)
LEMMA PutChallengeStore ==
  ASSUME TypeOK, NEW k \in Keys, NEW r \in Record, PutChallenge(k, r)
  PROVE  /\ store' \in [Keys -> Record \cup {NoValue}]
         /\ store'[k] # NoValue
         /\ store'[k].gen = r.gen /\ store'[k].consumed = r.consumed
         /\ \A x \in Keys : x # k /\ store'[x] # NoValue =>
              /\ store[x] # NoValue
              /\ store'[x].gen = store[x].gen
              /\ store'[x].consumed = store[x].consumed
<1>1. hmacKey \in BOOLEAN /\ store \in [Keys -> Record \cup {NoValue}]
  BY DEF TypeOK
<1>2. NoValue \notin Record
  BY LockGateAssumption
<1>3. \A q \in Record : /\ [q EXCEPT !.signed = hmacKey] \in Record
                        /\ [q EXCEPT !.signed = hmacKey].gen = q.gen
                        /\ [q EXCEPT !.signed = hmacKey].consumed = q.consumed
  BY <1>1 DEF Record
<1>4. \A x \in Keys : Loaded(x) # NoValue => Loaded(x) = store[x] /\ store[x] # NoValue
  BY <1>1 DEF Loaded
<1>5. store' = [x \in Keys |->
                  IF x = k THEN [r EXCEPT !.signed = hmacKey]
                  ELSE IF Loaded(x) = NoValue THEN NoValue
                  ELSE [Loaded(x) EXCEPT !.signed = hmacKey]]
  BY DEF PutChallenge
<1>6. \A x \in Keys : Loaded(x) # NoValue => Loaded(x) \in Record
  BY <1>1, <1>4
<1> HIDE DEF Record, Keys
<1>7. store'[k] = [r EXCEPT !.signed = hmacKey]
  BY <1>5
<1>8. \A x \in Keys : x # k /\ store'[x] # NoValue =>
        Loaded(x) # NoValue /\ store'[x] = [Loaded(x) EXCEPT !.signed = hmacKey]
  BY <1>5
<1>9. \A x \in Keys : store'[x] \in Record \cup {NoValue}
  BY <1>3, <1>5, <1>6
<1>10. store' \in [Keys -> Record \cup {NoValue}]
  BY <1>5, <1>9
<1>11. ASSUME NEW x \in Keys, x # k, store'[x] # NoValue
       PROVE  /\ store[x] # NoValue
              /\ store'[x].gen = store[x].gen
              /\ store'[x].consumed = store[x].consumed
  <2>1. Loaded(x) = store[x] /\ store[x] # NoValue /\ store[x] \in Record
    BY <1>1, <1>4, <1>8, <1>11
  <2> QED BY <1>3, <1>8, <1>11, <2>1
<1>12. store'[k] # NoValue
  BY <1>2, <1>3, <1>7
<1>13. store'[k].gen = r.gen /\ store'[k].consumed = r.consumed
  BY <1>3, <1>7
<1> QED BY <1>10, <1>11, <1>12, <1>13

(* What TypeOK needs to be inductive: a record that a later step of a      *)
(* handler takes apart is there, and the threads are where their process   *)
(* is.                                                                     *)
Shape ==
  /\ pc \in {"waitx", "publish", "turn", "armed", "closed"} => lock # NoValue
  /\ pc = "publish" => store[LockKey] # NoValue
  /\ wpc # "idle" => pc \in {"armed", "closed"}
  /\ wpc \notin {"idle", "polling"} => wev # NoValue /\ wday # NoValue
  /\ wpc \in {"verified", "logread", "logged"} => InRotation(wev.zone, wday)
  /\ upc # "none" => pc = "armed" /\ uday # NoValue

TypeInv == TypeOK /\ Shape

(* The typing invariant holds at the start ...                             *)
LEMMA TypeInvInit == Init => TypeInv
<1> SUFFICES ASSUME Init PROVE TypeInv
  OBVIOUS
<1> USE LockGateAssumption, SlotsAssumption
<1>1. day \in Days /\ hour \in Hours
  BY DEF Init, Days, Hours
<1>2. /\ mints \in [Keys -> 0 .. MaxMints] /\ used \in 0 .. HatchBudget
      /\ faults \in 0 .. MaxFaults
  BY DEF Init
<1>3. cursor \in [index : Nat, last : Keys \cup {NoValue}]
  BY DEF Init
<1> QED BY <1>1, <1>2, <1>3 DEF Init, TypeInv, TypeOK, Shape

(* An entry is signed or not as there is a key when it is made.            *)
LEMMA SignatureSteps ==
  ASSUME [Next]_vars
  PROVE  /\ wsig' = wsig \/ wsig' = FALSE \/ wsig' = hmacKey
         /\ wpc' = "logread" => wsig' = IF wpc = "logread" THEN wsig ELSE hmacKey
BY DEF Next, GateRun, Worker, Hatch, Fault, Environment, vars, clockVars,
       fileVars, gateVars, workVars, hatchVars, netVars, TimerTick, CheckDue,
       XServerMissing, MintChallenge, PublishChallenge, TakeTurn, PollTick,
       FetchEvidence, Verify, ReadLog, AppendClear, AdvanceCursor,
       ConsumeChallenge, PublishConsumed, DrainEvidence, WorkerFails,
       CloseOnAccept, RecordEscape, EscapeReadLog, AppendEscape, CallbackError,
       ExitProcess, Crash, Clock, ToggleMarker, CreateKey, NetDown, NetUp,
       PhoneRead, PhoneUpload, WorkerAt, WorkerDone

(* ... and every step keeps it.                                            *)
LEMMA TypeInvNext == TypeInv /\ [Next]_vars => TypeInv'
<1> USE LockGateAssumption, SlotsAssumption
    DEF clockVars, fileVars, gateVars, workVars, hatchVars, netVars, vars
<1> SUFFICES ASSUME TypeInv, [Next]_vars PROVE TypeInv'
  OBVIOUS
<1>a. TypeOK /\ Shape
  BY DEF TypeInv
<1>b. wpc \notin {"idle", "polling"} =>
        /\ wev \in Payload /\ wday \in Days
        /\ wev.token \in Token /\ TokenKey(wev.token) \in Keys
        /\ wev.token.gen \in 1 .. MaxMints
  BY <1>a DEF TypeOK, Shape, Payload, Token, TokenKey, Keys
<1>c. pc \in {"waitx", "publish", "turn", "armed", "closed"} =>
        lock \in Lock /\ LockKey \in Keys
  BY <1>a DEF TypeOK, Shape, Lock, LockKey, Keys
<1>d. wsig' \in BOOLEAN
  BY <1>a, SignatureSteps DEF TypeOK
<1>1. CASE TimerTick
  BY <1>d, <1>1 DEF TimerTick, TypeInv, TypeOK, Shape, Stop
<1>2. CASE CheckDue
  <2>1. DueSlots \subseteq SlotHours
    BY DEF DueSlots, MissingSlots, ElapsedSlots
  <2>2. CASE DueSlots = {} /\ Stop("idle")
    BY <1>d, <1>2, <2>2 DEF CheckDue, TypeInv, TypeOK, Shape, Stop
  <2>3. CASE \E s \in DueSlots :
               pc' = "waitx" /\ lock' = [slot |-> s, day |-> day, published |-> FALSE]
    <3>1. lock' \in Lock
      BY <1>a, <2>1, <2>3 DEF TypeOK, Lock
    <3>2. lock' # NoValue
      BY <3>1
    <3> HIDE DEF Lock
    <3> QED BY <1>d, <1>2, <2>3, <3>1, <3>2 DEF CheckDue, TypeInv, TypeOK, Shape
  <2> QED BY <1>2, <2>2, <2>3 DEF CheckDue
<1>3. CASE XServerMissing
  BY <1>d, <1>3 DEF XServerMissing, TypeInv, TypeOK, Shape
<1>4. CASE MintChallenge
  <2> DEFINE k == <<day, lock.slot>>
             r == [gen |-> mints[k] + 1, consumed |-> FALSE, signed |-> hmacKey]
  <2>1. pc = "waitx" /\ lock \in Lock /\ k \in Keys /\ lock.slot \in SlotHours
    BY <1>4, <1>a, <1>c DEF MintChallenge, TypeOK, Lock, Keys
  <2>2. /\ lock' \in Lock /\ lock' # NoValue
        /\ lock'.day = day /\ lock'.slot = lock.slot /\ LockKey' = k
    BY <1>4, <1>a, <2>1 DEF MintChallenge, TypeOK, Lock, LockKey
  <2>3. CASE Loaded(k) # NoValue /\ UNCHANGED <<store, mints>>
    <3>1. store'[k] # NoValue
      BY <2>3 DEF Loaded
    <3> QED BY <1>d, <1>4, <2>1, <2>2, <2>3, <3>1
            DEF MintChallenge, TypeInv, TypeOK, Shape
  <2>4. CASE /\ mints[k] < MaxMints /\ PutChallenge(k, r)
             /\ mints' = [mints EXCEPT ![k] = @ + 1]
    <3>1. mints' \in [Keys -> 0 .. MaxMints] /\ r \in Record
      BY <1>a, <2>1, <2>4 DEF TypeOK, Record
    <3>2. store' \in [Keys -> Record \cup {NoValue}] /\ store'[k] # NoValue
      <4> HIDE DEF k, r
      <4> QED BY <1>a, <2>1, <2>4, <3>1, PutChallengeStore
    <3> QED BY <1>d, <1>4, <2>1, <2>2, <2>4, <3>1, <3>2
            DEF MintChallenge, TypeInv, TypeOK, Shape
  <2> QED BY <1>4, <2>3, <2>4 DEF MintChallenge
<1>5. CASE PublishChallenge
  <2>1. pc = "publish" /\ lock \in Lock /\ LockKey \in Keys
    BY <1>5, <1>c DEF PublishChallenge
  <2>2. store[LockKey] \in Record /\ TokenAt(LockKey) \in Token
    BY <1>a, <2>1 DEF TypeOK, Shape, Record, Token, TokenAt, Keys
  <2>3. chalNode' \in Challenge \cup {NoValue}
    BY <1>5, <1>a, <2>2 DEF PublishChallenge, TypeOK, Challenge, Record
  <2>4. lock' \in Lock
    BY <1>5, <1>a, <2>1 DEF PublishChallenge, TypeOK, Lock
  <2> QED BY <1>d, <1>5, <2>3, <2>4 DEF PublishChallenge, TypeInv, TypeOK, Shape
<1>6. CASE TakeTurn
  BY <1>d, <1>6 DEF TakeTurn, TypeInv, TypeOK, Shape, Stop
<1>7. CASE PollTick
  BY <1>d, <1>7 DEF PollTick, TypeInv, TypeOK, Shape, WorkerAt
<1>8. CASE FetchEvidence
  <2>1. CASE /\ evNode # NoValue /\ wpc' = "fetched" /\ wev' = evNode
             /\ wday' = CapturedDay(evNode) /\ UNCHANGED <<wsnap, wsig>>
    <3>1. evNode \in Payload /\ CapturedDay(evNode) \in Days
      BY <1>a, <2>1 DEF TypeOK, Payload, CapturedDay
    <3>2. CapturedDay(evNode) # NoValue
      BY <3>1
    <3> QED BY <1>d, <1>8, <2>1, <3>1, <3>2 DEF FetchEvidence, TypeInv, TypeOK, Shape, LockKey
  <2>2. CASE WorkerDone
    BY <1>d, <1>8, <2>2 DEF FetchEvidence, TypeInv, TypeOK, Shape, WorkerDone, LockKey
  <2> QED BY <1>8, <2>1, <2>2 DEF FetchEvidence
<1>9. CASE Verify
  <2>1. CASE WorkerAt("fetched", "verified") /\ Verifies(wev, wday) /\ UNCHANGED <<wsnap, wsig>>
    <3>1. InRotation(wev.zone, wday)
      BY <2>1 DEF Verifies
    <3> QED BY <1>d, <1>9, <2>1, <3>1 DEF Verify, TypeInv, TypeOK, Shape, WorkerAt, LockKey
  <2>2. CASE wpc = "fetched" /\ WorkerDone
    BY <1>d, <1>9, <2>2 DEF Verify, TypeInv, TypeOK, Shape, WorkerDone, LockKey
  <2> QED BY <1>9, <2>1, <2>2 DEF Verify
<1>10. CASE ReadLog
  BY <1>d, <1>10 DEF ReadLog, TypeInv, TypeOK, Shape, WorkerAt, LockKey
<1>11. CASE AppendClear
  <2>1. ClearOf(wev, wday) \in Entry
    BY <1>11, <1>a, <1>b DEF AppendClear, WorkerAt, TypeOK, ClearOf, Entry,
       ClearEntry, Payload, Token
  <2>2. log' \subseteq Entry /\ wsnap' \subseteq Entry
    BY <1>11, <1>a, <2>1 DEF AppendClear, TypeOK
  <2> QED BY <1>d, <1>11, <2>2 DEF AppendClear, TypeInv, TypeOK, Shape, WorkerAt, LockKey
<1>12. CASE AdvanceCursor
  <2>1. /\ wpc = "logged" /\ InRotation(wev.zone, wday)
        /\ wday \in Days /\ TokenKey(wev.token) \in Keys
    BY <1>12, <1>a, <1>b DEF AdvanceCursor, WorkerAt, Shape
  <2>2. IndexAfter(wev.zone, wday) \in Nat
    BY <2>1, IndexAfterType
  <2>3. cursor' \in [index : Nat, last : Keys \cup {NoValue}]
    BY <1>12, <1>a, <2>1, <2>2 DEF AdvanceCursor, TypeOK
  <2> QED BY <1>d, <1>12, <2>3 DEF AdvanceCursor, TypeInv, TypeOK, Shape, WorkerAt, LockKey
<1>13. CASE ConsumeChallenge
  <2> DEFINE k == TokenKey(wev.token)
             r == [gen |-> wev.token.gen, consumed |-> TRUE, signed |-> hmacKey]
  <2>1. k \in Keys /\ r \in Record
    BY <1>13, <1>a, <1>b DEF ConsumeChallenge, WorkerAt, TypeOK, Record
  <2>2. PutChallenge(k, r)
    BY <1>13 DEF ConsumeChallenge
  <2>3. store' \in [Keys -> Record \cup {NoValue}]
    <3> HIDE DEF k, r
    <3> QED BY <1>a, <2>1, <2>2, PutChallengeStore
  <2> QED BY <1>d, <1>13, <2>3
          DEF ConsumeChallenge, TypeInv, TypeOK, Shape, WorkerAt, LockKey
<1>14. CASE PublishConsumed
  <2>1. [token |-> wev.token, consumed |-> TRUE] \in Challenge
    BY <1>14, <1>b DEF PublishConsumed, WorkerAt, Challenge
  <2>2. chalNode' \in Challenge \cup {NoValue}
    BY <1>14, <1>a, <2>1 DEF PublishConsumed, TypeOK
  <2> QED BY <1>d, <1>14, <2>2 DEF PublishConsumed, TypeInv, TypeOK, Shape, WorkerAt, LockKey
<1>15. CASE DrainEvidence
  BY <1>d, <1>15 DEF DrainEvidence, TypeInv, TypeOK, Shape, WorkerAt, LockKey
<1>16. CASE WorkerFails
  BY <1>d, <1>16 DEF WorkerFails, TypeInv, TypeOK, Shape, WorkerDone, LockKey
<1>17. CASE CloseOnAccept
  BY <1>d, <1>17 DEF CloseOnAccept, TypeInv, TypeOK, Shape, Stop, WorkerDone
<1>18. CASE RecordEscape
  BY <1>d, <1>18 DEF RecordEscape, TypeInv, TypeOK, Shape, LockKey
<1>19. CASE EscapeReadLog
  BY <1>d, <1>19 DEF EscapeReadLog, TypeInv, TypeOK, Shape, LockKey
<1>20. CASE AppendEscape
  <2>1. pc = "armed" /\ lock \in Lock /\ uday \in Days
    BY <1>20, <1>a, <1>c DEF AppendEscape, TypeOK, Shape
  <2>2. [kind |-> "escape", bucket |-> uday, slot |-> lock.slot] \in Entry
    BY <2>1 DEF Lock, Entry, EscapeEntry
  <2>3. log' \subseteq Entry
    BY <1>20, <1>a, <2>2 DEF AppendEscape, TypeOK
  <2> QED BY <1>d, <1>20, <2>1, <2>3
          DEF AppendEscape, TypeInv, TypeOK, Shape, HatchIdle, Stop
<1>21. CASE CallbackError
  BY <1>d, <1>21 DEF CallbackError, TypeInv, TypeOK, Shape, Stop, HatchIdle
<1>22. CASE ExitProcess
  BY <1>d, <1>22 DEF ExitProcess, TypeInv, TypeOK, Shape, WorkerDone
<1>23. CASE Crash
  BY <1>d, <1>23 DEF Crash, TypeInv, TypeOK, Shape, WorkerDone, HatchIdle
<1>24. CASE Clock
  <2>1. day' \in Days /\ hour' \in Hours
    BY <1>24, <1>a DEF Clock, TypeOK, Days, Hours
  <2> QED BY <1>d, <1>24, <2>1 DEF Clock, TypeInv, TypeOK, Shape, LockKey
<1>25. CASE ToggleMarker
  BY <1>d, <1>25 DEF ToggleMarker, TypeInv, TypeOK, Shape, LockKey
<1>26. CASE CreateKey
  BY <1>d, <1>26 DEF CreateKey, TypeInv, TypeOK, Shape, LockKey
<1>27. CASE NetDown
  <2>1. faults' \in 0 .. MaxFaults
    BY <1>27, <1>a DEF NetDown, TypeOK
  <2>2. online' \in BOOLEAN
    BY <1>27 DEF NetDown
  <2>3. UNCHANGED <<clockVars, fileVars, gateVars, workVars, hatchVars,
                    chalNode, evNode, held>>
    BY <1>27 DEF NetDown
  <2> QED BY <1>a, <2>1, <2>2, <2>3 DEF TypeInv, TypeOK, Shape, LockKey
<1>28. CASE NetUp
  BY <1>d, <1>28 DEF NetUp, TypeInv, TypeOK, Shape, LockKey
<1>29. CASE PhoneRead
  BY <1>d, <1>29 DEF PhoneRead, TypeInv, TypeOK, Shape, LockKey
<1>30. CASE PhoneUpload
  <2>1. held \in Challenge /\ held.token \in Token
    BY <1>30, <1>a DEF PhoneUpload, TypeOK, Challenge
  <2>2. evNode' \in Payload
    BY <1>30, <2>1 DEF PhoneUpload, Payload
  <2> QED BY <1>d, <1>30, <2>2 DEF PhoneUpload, TypeInv, TypeOK, Shape, LockKey
<1>31. CASE UNCHANGED vars
  BY <1>d, <1>31 DEF TypeInv, TypeOK, Shape, LockKey
<1> QED
  BY <1>1, <1>2, <1>3, <1>4, <1>5, <1>6, <1>7, <1>8, <1>9, <1>10, <1>11,
     <1>12, <1>13, <1>14, <1>15, <1>16, <1>17, <1>18, <1>19, <1>20, <1>21,
     <1>22, <1>23, <1>24, <1>25, <1>26, <1>27, <1>28, <1>29, <1>30, <1>31
  DEF Next, GateRun, Worker, Hatch, Fault, Environment

-----------------------------------------------------------------------------
(* Lemmas about single steps.                                              *)

(* While the worker holds a payload, its token names a key of the store.   *)
LEMMA HeldPayload ==
  ASSUME TypeInv, wpc \notin {"idle", "polling"}
  PROVE  /\ wev \in Payload /\ wday \in Days
         /\ wev.token \in Token /\ TokenKey(wev.token) \in Keys
         /\ TokenKey(wev.token)[1] = wev.token.day
         /\ TokenKey(wev.token)[2] = wev.token.slot
BY DEF TypeInv, TypeOK, Shape, Payload, Token, TokenKey, Keys

(* A record that put_challenge or the minting of a token leaves in the     *)
(* store was there before, or is the new and unconsumed one.               *)
LEMMA MintStep ==
  ASSUME TypeInv, MintChallenge
  PROVE  /\ pc = "waitx" /\ lock'.day = day /\ LockKey' = <<day, lock.slot>>
         /\ \A x \in Keys : mints[x] =< mints'[x]
         /\ \A x \in Keys : store'[x] # NoValue =>
              \/ /\ store[x] # NoValue
                 /\ store'[x].gen = store[x].gen
                 /\ store'[x].consumed = store[x].consumed
              \/ /\ x = LockKey'
                 /\ store'[x].gen =< mints'[x]
                 /\ ~store'[x].consumed
<1> DEFINE k == <<day, lock.slot>>
           r == [gen |-> mints[k] + 1, consumed |-> FALSE, signed |-> hmacKey]
<1>1. pc = "waitx" /\ lock \in Lock /\ k \in Keys
  BY DEF MintChallenge, TypeInv, TypeOK, Shape, Lock, Keys
<1>2. lock'.day = day /\ LockKey' = k
  BY <1>1 DEF MintChallenge, LockKey, Lock
<1>3. mints \in [Keys -> 0 .. MaxMints] /\ MaxMints \in Nat
  BY LockGateAssumption DEF TypeInv, TypeOK
<1>4. CASE UNCHANGED <<store, mints>>
  BY <1>1, <1>2, <1>3, <1>4
<1>5. CASE /\ mints[k] < MaxMints /\ PutChallenge(k, r)
           /\ mints' = [mints EXCEPT ![k] = @ + 1]
  <2>1. r \in Record /\ r.gen = mints[k] + 1 /\ ~r.consumed
    BY <1>1, <1>3, <1>5 DEF TypeInv, TypeOK, Record
  <2>2. mints'[k] = mints[k] + 1 /\ \A x \in Keys : mints[x] =< mints'[x]
    BY <1>1, <1>3, <1>5
  <2>3. TypeOK
    BY DEF TypeInv
  <2> HIDE DEF k, r
  <2>4. /\ store'[k].gen = r.gen /\ store'[k].consumed = r.consumed
        /\ \A x \in Keys : x # k /\ store'[x] # NoValue =>
             /\ store[x] # NoValue
             /\ store'[x].gen = store[x].gen
             /\ store'[x].consumed = store[x].consumed
    BY <1>1, <1>5, <2>1, <2>3, PutChallengeStore
  <2>5. store'[k].gen =< mints'[k]
    BY <1>1, <1>3, <2>1, <2>2, <2>4
  <2>6. ~store'[k].consumed
    BY <2>1, <2>4, Zenon
  <2>7. LockKey' = <<day, lock.slot>> /\ LockKey' = k
    BY <1>2 DEF k
  <2> QED BY <1>1, <1>2, <2>2, <2>4, <2>5, <2>6, <2>7
<1> QED BY <1>4, <1>5 DEF MintChallenge

(* consume_challenge leaves the payload's record consumed and the others   *)
(* as they were, or drops them.                                            *)
LEMMA ConsumeStep ==
  ASSUME TypeInv, ConsumeChallenge
  PROVE  LET k == TokenKey(wev.token)
         IN /\ k \in Keys
            /\ store'[k] # NoValue /\ store'[k].consumed
            /\ store'[k].gen = wev.token.gen
            /\ \A x \in Keys : x # k /\ store'[x] # NoValue =>
                 /\ store[x] # NoValue
                 /\ store'[x].gen = store[x].gen
                 /\ store'[x].consumed = store[x].consumed
<1> DEFINE k == TokenKey(wev.token)
           r == [gen |-> wev.token.gen, consumed |-> TRUE, signed |-> hmacKey]
<1>1. wpc = "advanced"
  BY DEF ConsumeChallenge, WorkerAt
<1>2. wev.token \in Token /\ k \in Keys
  BY <1>1, HeldPayload
<1>3. r \in Record /\ r.gen = wev.token.gen /\ r.consumed
  BY <1>2 DEF TypeInv, TypeOK, Record, Token
<1>4. TypeOK /\ PutChallenge(k, r)
  BY DEF TypeInv, ConsumeChallenge
<1> HIDE DEF k, r
<1>5. /\ store'[k] # NoValue
      /\ store'[k].gen = r.gen /\ store'[k].consumed = r.consumed
      /\ \A x \in Keys : x # k /\ store'[x] # NoValue =>
           /\ store[x] # NoValue
           /\ store'[x].gen = store[x].gen
           /\ store'[x].consumed = store[x].consumed
  BY <1>2, <1>3, <1>4, PutChallengeStore
<1> QED BY <1>2, <1>3, <1>5 DEF k

-----------------------------------------------------------------------------
(* The rest of the inductive invariant.                                    *)

(* The lock has a day; the payload has been verified; its clear is logged. *)
Up        == {"publish", "turn", "armed", "closed"}
Idle      == {"idle", "polling", "fetched"}
Open      == {"verified", "logread", "logged", "advanced"}
Logged    == {"logged", "advanced", "consumed", "republished", "accepted"}
Advanced  == Logged \ {"logged"}
Spent     == Advanced \ {"advanced"}

(* What no one gets ahead of: the clock, and the tokens minted so far.     *)
EarnedIn(entries) ==
  \A e \in entries :
    /\ e.bucket =< day
    /\ e.kind = "clear" => e.token.gen =< mints[TokenKey(e.token)]

Earned ==
  /\ EarnedIn(log) /\ EarnedIn(wsnap) /\ EarnedIn(usnap)
  /\ \A k \in Keys : store[k] # NoValue => store[k].gen =< mints[k]
  /\ wpc \notin {"idle", "polling"} => wday =< day
  /\ wpc \notin Idle => wev.token.gen =< mints[TokenKey(wev.token)]
  /\ upc # "none" => uday =< day

(* No token in circulation is of a day after the lock's, and the hatch     *)
(* files under the lock's day or a later one.                              *)
Dated ==
  /\ pc \in Up => lock.day =< day
  /\ \A k \in Keys : store[k] # NoValue =>
       k[1] =< day /\ (pc \in Up => k[1] =< lock.day)
  /\ chalNode # NoValue =>
       /\ chalNode.token.day =< day
       /\ pc \in Up => chalNode.token.day =< lock.day
  /\ wpc \notin Idle => wev.token.day =< lock.day
  /\ upc # "none" => lock.day =< uday

(* Each consumed token is backed, by the log as it is and by the log as    *)
(* the worker will write it.                                               *)
StoreBackedIn(entries) ==
  \A k \in Keys :
    store[k] # NoValue /\ store[k].consumed => BackedIn(entries, TokenAt(k))

NodeBackedIn(entries) ==
  chalNode # NoValue /\ chalNode.consumed => BackedIn(entries, chalNode.token)

AllBacked ==
  /\ StoreBackedIn(log) /\ NodeBackedIn(log)
  /\ wpc = "logread" => StoreBackedIn(wsnap) /\ NodeBackedIn(wsnap)
  /\ wpc \in Logged => BackedIn(log, wev.token)

(* What the accept of a payload has done so far is still there.            *)
Progress ==
  /\ wpc \in Open =>
       LET rec == store[TokenKey(wev.token)]
       IN rec # NoValue /\ ~rec.consumed /\ rec.gen = wev.token.gen
  /\ wpc \in Logged /\ pc = "armed" =>
       \E e \in log : /\ e.kind = "clear" /\ e.token = wev.token
                      /\ e.bucket = wday
  /\ wpc \in Advanced => cursor.last = TokenKey(wev.token)
  /\ wpc \in Spent =>
       LET rec == store[TokenKey(wev.token)]
       IN rec # NoValue /\ rec.consumed /\ rec.gen = wev.token.gen

(* The two threads' copies of the log, against the log: neither holds an   *)
(* entry that is not in the log, and they lose only each other's.          *)
Snapshots ==
  /\ wpc = "logread" => wsnap \subseteq log
  /\ wpc = "logread" /\ pc = "armed" => log \subseteq wsnap
  /\ upc = "read" => usnap \subseteq log
  /\ upc = "read" /\ wpc \in {"polling", "fetched", "verified", "logread"} =>
       log \subseteq usnap

(* The escapes in the log, and the one the hatch is about to write, are    *)
(* paid for.                                                               *)
Escapes(entries) == {e \in entries : e.kind = "escape"}

Budgeted ==
  /\ IsFiniteSet(Escapes(log))
  /\ Cardinality(Escapes(log)) + (IF upc = "none" THEN 0 ELSE 1) =< used

(* A run that has looked at the log enforces a slot that is still due.     *)
StillDue == pc = "waitx" => lock.slot \notin ClearedSlots(day)

(* The cursor stands where a clear of the log, as it is and as the worker  *)
(* will write it, puts it; and the clear it moves for next is in the log.  *)
CursorIn(entries) ==
  cursor.last # NoValue =>
    \E e \in entries :
      \/ /\ e.kind = "clear" /\ TokenKey(e.token) = cursor.last
         /\ cursor.index = IndexAfter(e.zone, e.bucket)
      \/ /\ e.kind = "escape" /\ e.bucket >= cursor.last[1]

CursorPlaced ==
  /\ CursorIn(log)
  /\ wpc = "logread" => CursorIn(wsnap)
  /\ cursor.last # NoValue =>
       cursor.last[1] =< day /\ (pc \in Up => cursor.last[1] =< lock.day)
  /\ wpc = "logged" =>
       \E e \in log :
         \/ /\ e.kind = "clear" /\ e.token = wev.token
            /\ e.zone = wev.zone /\ e.bucket = wday
         \/ e.kind = "escape" /\ e.bucket >= wev.token.day

(* No step makes an entry unearned.                                        *)
LEMMA EarnedNext ==
  ASSUME TypeInv, TypeInv', Earned, [Next]_vars
  PROVE  Earned'
<1> USE DEF clockVars, fileVars, gateVars, workVars, hatchVars, netVars, vars,
            Earned, EarnedIn, Idle
<1>1. CASE TimerTick
  BY <1>1 DEF TimerTick, Stop, TypeInv, Shape
<1>2. CASE CheckDue
  BY <1>2 DEF CheckDue, Stop, TypeInv, Shape
<1>3. CASE XServerMissing
  BY <1>3 DEF XServerMissing, TypeInv, Shape
<1>4. CASE MintChallenge
  <2>1. \A x \in Keys : mints[x] \in Nat /\ mints'[x] \in Nat /\ mints[x] =< mints'[x]
    BY <1>4, MintStep DEF TypeInv, TypeOK
  <2>2. \A k \in Keys : store'[k] # NoValue => store'[k].gen =< mints'[k]
    <3> SUFFICES ASSUME NEW k \in Keys, store'[k] # NoValue
                 PROVE  store'[k].gen =< mints'[k]
      OBVIOUS
    <3>1. store[k] # NoValue => store[k].gen \in Nat
      BY DEF TypeInv, TypeOK, Record
    <3> QED BY <1>4, <2>1, <3>1, MintStep
  <2>3. \A e \in Entry : e.kind = "clear" =>
          TokenKey(e.token) \in Keys /\ e.token.gen \in Nat
    BY DEF Entry, ClearEntry, EscapeEntry, Token, TokenKey, Keys
  <2>4. EarnedIn(log)' /\ EarnedIn(wsnap)' /\ EarnedIn(usnap)'
    <3>1. ASSUME NEW e \in Entry, e.kind = "clear",
                 e.token.gen =< mints[TokenKey(e.token)]
          PROVE  e.token.gen =< mints'[TokenKey(e.token)]
      BY <2>1, <2>3, <3>1
    <3> QED BY <1>4, <3>1 DEF MintChallenge, TypeInv, TypeOK
  <2> QED BY <1>4, <2>2, <2>4 DEF MintChallenge, TypeInv, Shape
<1>5. CASE PublishChallenge
  BY <1>5 DEF PublishChallenge, TypeInv, Shape
<1>6. CASE TakeTurn
  BY <1>6 DEF TakeTurn, Stop, TypeInv, Shape
<1>7. CASE PollTick
  BY <1>7 DEF PollTick, WorkerAt, TypeInv, Shape
<1>8. CASE FetchEvidence
  <2>1. wday' # NoValue => wday' =< day
    BY <1>8 DEF FetchEvidence, CapturedDay, WorkerDone, TypeInv, TypeOK, Days, Payload
  <2> QED BY <1>8, <2>1 DEF FetchEvidence, WorkerDone, TypeInv, TypeOK, Shape
<1>9. CASE Verify
  <2>1. CASE WorkerAt("fetched", "verified") /\ Verifies(wev, wday) /\ UNCHANGED <<wsnap, wsig>>
    <3> DEFINE k == TokenKey(wev.token)
    <3>1. k \in Keys
      BY <2>1, HeldPayload DEF WorkerAt
    <3>2. store[k] # NoValue /\ store[k].gen = wev.token.gen
      BY <2>1 DEF Verifies, Loaded
    <3> QED BY <1>9, <2>1, <3>1, <3>2 DEF Verify, WorkerAt, TypeInv, Shape
  <2>2. CASE WorkerDone
    BY <1>9, <2>2 DEF Verify, WorkerDone
  <2> QED BY <1>9, <2>1, <2>2 DEF Verify
<1>10. CASE ReadLog
  BY <1>10 DEF ReadLog, WorkerAt, TypeInv, Shape
<1>11. CASE AppendClear
  <2>1. wpc = "logread" /\ log' = wsnap \cup {ClearOf(wev, wday)} /\ wsnap' = {}
    BY <1>11 DEF AppendClear, WorkerAt
  <2>2. /\ ClearOf(wev, wday).bucket = wday
        /\ ClearOf(wev, wday).token = wev.token
    BY DEF ClearOf
  <2>3. EarnedIn(log)'
    BY <1>11, <2>1, <2>2 DEF AppendClear
  <2> QED BY <1>11, <2>1, <2>3 DEF AppendClear, WorkerAt, TypeInv, Shape
<1>12. CASE AdvanceCursor
  BY <1>12 DEF AdvanceCursor, WorkerAt, TypeInv, Shape
<1>13. CASE ConsumeChallenge
  <2>1. \A k \in Keys : store'[k] # NoValue => store'[k].gen =< mints[k]
    BY <1>13, ConsumeStep DEF ConsumeChallenge, WorkerAt
  <2> QED BY <1>13, <2>1 DEF ConsumeChallenge, WorkerAt
<1>14. CASE PublishConsumed
  BY <1>14 DEF PublishConsumed, WorkerAt, TypeInv, Shape
<1>15. CASE DrainEvidence
  BY <1>15 DEF DrainEvidence, WorkerAt, TypeInv, Shape
<1>16. CASE WorkerFails
  BY <1>16 DEF WorkerFails, WorkerDone, TypeInv, Shape
<1>17. CASE CloseOnAccept
  BY <1>17 DEF CloseOnAccept, Stop, WorkerDone, TypeInv, Shape
<1>18. CASE RecordEscape
  <2>1. uday' =< day
    BY <1>18 DEF RecordEscape, TypeInv, TypeOK, Days
  <2> QED BY <1>18, <2>1 DEF RecordEscape, TypeInv, Shape
<1>19. CASE EscapeReadLog
  BY <1>19 DEF EscapeReadLog, TypeInv, Shape
<1>20. CASE AppendEscape
  BY <1>20 DEF AppendEscape, HatchIdle, Stop, TypeInv, Shape
<1>21. CASE CallbackError
  BY <1>21 DEF CallbackError, Stop, HatchIdle, TypeInv, Shape
<1>22. CASE ExitProcess
  BY <1>22 DEF ExitProcess, WorkerDone, TypeInv, Shape
<1>23. CASE Crash
  BY <1>23 DEF Crash, WorkerDone, HatchIdle, TypeInv, Shape
<1>24. CASE Clock
  <2>1. day \in Nat /\ day' \in Nat /\ day =< day'
    BY <1>24, LockGateAssumption DEF Clock, TypeInv, TypeOK, Days
  <2>2. \A e \in Entry : e.bucket \in Nat
    BY DEF Entry, ClearEntry, EscapeEntry, Days
  <2>3. EarnedIn(log)' /\ EarnedIn(wsnap)' /\ EarnedIn(usnap)'
    <3>1. ASSUME NEW e \in Entry, e.bucket =< day
          PROVE  e.bucket =< day'
      BY <2>1, <2>2, <3>1
    <3> QED BY <1>24, <3>1 DEF Clock, TypeInv, TypeOK
  <2>4. /\ wpc \notin {"idle", "polling"} => wday =< day'
        /\ upc # "none" => uday =< day'
    BY <2>1 DEF TypeInv, TypeOK, Shape, Days
  <2> QED BY <1>24, <2>3, <2>4 DEF Clock
<1>25. CASE ToggleMarker
  BY <1>25 DEF ToggleMarker, TypeInv, Shape
<1>26. CASE CreateKey
  BY <1>26 DEF CreateKey, TypeInv, Shape
<1>27. CASE NetDown
  BY <1>27 DEF NetDown, TypeInv, Shape
<1>28. CASE NetUp
  BY <1>28 DEF NetUp, TypeInv, Shape
<1>29. CASE PhoneRead
  BY <1>29 DEF PhoneRead, TypeInv, Shape
<1>30. CASE PhoneUpload
  BY <1>30 DEF PhoneUpload, TypeInv, Shape
<1>31. CASE UNCHANGED vars
  BY <1>31
<1> QED
  BY <1>1, <1>2, <1>3, <1>4, <1>5, <1>6, <1>7, <1>8, <1>9, <1>10, <1>11,
     <1>12, <1>13, <1>14, <1>15, <1>16, <1>17, <1>18, <1>19, <1>20, <1>21,
     <1>22, <1>23, <1>24, <1>25, <1>26, <1>27, <1>28, <1>29, <1>30, <1>31
  DEF Next, GateRun, Worker, Hatch, Fault, Environment

(* No step puts a token ahead of the lock.                                 *)
LEMMA DatedNext ==
  ASSUME TypeInv, TypeInv', Dated, [Next]_vars
  PROVE  Dated'
<1> USE DEF clockVars, fileVars, gateVars, workVars, hatchVars, netVars, vars,
            Dated, Up, Idle, LockKey
<1>1. CASE TimerTick
  BY <1>1 DEF TimerTick, Stop, TypeInv, Shape
<1>2. CASE CheckDue
  BY <1>2 DEF CheckDue, Stop, TypeInv, Shape
<1>3. CASE XServerMissing
  BY <1>3 DEF XServerMissing, TypeInv, Shape
<1>4. CASE MintChallenge
  <2>1. /\ pc = "waitx" /\ wpc = "idle" /\ upc = "none"
        /\ lock'.day = day /\ day \in Days
    BY <1>4, MintStep DEF TypeInv, TypeOK, Shape
  <2>2. ASSUME NEW k \in Keys, store'[k] # NoValue
        PROVE  k[1] =< day /\ k[1] =< lock'.day
    <3>1. store[k] # NoValue \/ k = LockKey'
      BY <1>4, <2>2, MintStep
    <3>2. k = LockKey' => k[1] = day
      BY <1>4, MintStep
    <3> QED BY <2>1, <3>1, <3>2 DEF Days
  <2> QED BY <1>4, <2>1, <2>2 DEF MintChallenge, TypeInv, TypeOK, Shape, Days
<1>5. CASE PublishChallenge
  <2>1. /\ pc = "publish" /\ lock \in Lock /\ LockKey \in Keys
        /\ lock'.day = lock.day
    BY <1>5 DEF PublishChallenge, TypeInv, TypeOK, Shape, Lock, LockKey, Keys
  <2>2. chalNode' # NoValue =>
          chalNode'.token.day =< day /\ chalNode'.token.day =< lock.day
    <3>1. TokenAt(LockKey).day = lock.day
      BY DEF TokenAt, LockKey
    <3> QED BY <1>5, <2>1, <3>1 DEF PublishChallenge, TypeInv, TypeOK, Lock, Days
  <2> QED BY <1>5, <2>1, <2>2 DEF PublishChallenge, TypeInv, Shape
<1>6. CASE TakeTurn
  BY <1>6 DEF TakeTurn, Stop, TypeInv, Shape
<1>7. CASE PollTick
  BY <1>7 DEF PollTick, WorkerAt, TypeInv, Shape
<1>8. CASE FetchEvidence
  BY <1>8 DEF FetchEvidence, WorkerDone, TypeInv, Shape
<1>9. CASE Verify
  <2>1. CASE WorkerAt("fetched", "verified") /\ Verifies(wev, wday) /\ UNCHANGED <<wsnap, wsig>>
    <3> DEFINE k == TokenKey(wev.token)
    <3>1. k \in Keys /\ k[1] = wev.token.day
      BY <2>1, HeldPayload DEF WorkerAt
    <3>2. store[k] # NoValue
      BY <2>1 DEF Verifies, Loaded
    <3>3. wev.token.day =< lock.day
      BY <2>1, <3>1, <3>2 DEF WorkerAt, TypeInv, Shape
    <3> QED BY <1>9, <2>1, <3>3 DEF Verify, WorkerAt, TypeInv, Shape
  <2>2. CASE WorkerDone
    BY <1>9, <2>2 DEF Verify, WorkerDone
  <2> QED BY <1>9, <2>1, <2>2 DEF Verify
<1>10. CASE ReadLog
  BY <1>10 DEF ReadLog, WorkerAt, TypeInv, Shape
<1>11. CASE AppendClear
  BY <1>11 DEF AppendClear, WorkerAt, TypeInv, Shape
<1>12. CASE AdvanceCursor
  BY <1>12 DEF AdvanceCursor, WorkerAt, TypeInv, Shape
<1>13. CASE ConsumeChallenge
  <2>1. \A k \in Keys : store'[k] # NoValue => k[1] =< day /\ k[1] =< lock.day
    <3>1. /\ wev.token.day =< lock.day
          /\ TokenKey(wev.token)[1] = wev.token.day
          /\ pc \in {"armed", "closed"}
      BY <1>13, HeldPayload DEF ConsumeChallenge, WorkerAt, TypeInv, Shape
    <3>2. lock.day \in Days /\ wev.token.day \in Days /\ day \in Days
      BY <1>13, <3>1, HeldPayload
      DEF ConsumeChallenge, WorkerAt, TypeInv, TypeOK, Shape, Lock, Token
    <3> QED BY <1>13, <3>1, <3>2, ConsumeStep DEF Days
  <2> QED BY <1>13, <2>1 DEF ConsumeChallenge, WorkerAt
<1>14. CASE PublishConsumed
  <2>1. /\ wev.token.day =< lock.day /\ pc \in {"armed", "closed"}
        /\ lock.day =< day
    BY <1>14 DEF PublishConsumed, WorkerAt, TypeInv, Shape
  <2>2. lock.day \in Days /\ wev.token.day \in Days /\ day \in Days
    BY <1>14, <2>1, HeldPayload
    DEF PublishConsumed, WorkerAt, TypeInv, TypeOK, Shape, Lock, Token
  <2>3. wev.token.day =< day
    BY <2>1, <2>2 DEF Days
  <2>4. chalNode' # NoValue =>
          chalNode'.token.day =< day /\ chalNode'.token.day =< lock.day
    BY <1>14, <2>1, <2>3 DEF PublishConsumed
  <2> QED BY <1>14, <2>4 DEF PublishConsumed, WorkerAt
<1>15. CASE DrainEvidence
  BY <1>15 DEF DrainEvidence, WorkerAt, TypeInv, Shape
<1>16. CASE WorkerFails
  BY <1>16 DEF WorkerFails, WorkerDone, TypeInv, Shape
<1>17. CASE CloseOnAccept
  BY <1>17 DEF CloseOnAccept, Stop, WorkerDone, TypeInv, Shape
<1>18. CASE RecordEscape
  BY <1>18 DEF RecordEscape, TypeInv, Shape
<1>19. CASE EscapeReadLog
  BY <1>19 DEF EscapeReadLog, TypeInv, Shape
<1>20. CASE AppendEscape
  BY <1>20 DEF AppendEscape, HatchIdle, Stop, TypeInv, Shape
<1>21. CASE CallbackError
  BY <1>21 DEF CallbackError, Stop, HatchIdle, TypeInv, Shape
<1>22. CASE ExitProcess
  BY <1>22 DEF ExitProcess, WorkerDone, TypeInv, Shape
<1>23. CASE Crash
  BY <1>23 DEF Crash, WorkerDone, HatchIdle, TypeInv, Shape
<1>24. CASE Clock
  <2>1. day \in Nat /\ day' \in Nat /\ day =< day'
    BY <1>24, LockGateAssumption DEF Clock, TypeInv, TypeOK, Days
  <2>2. pc \in Up => lock.day =< day'
    BY <2>1 DEF TypeInv, TypeOK, Shape, Lock, Days
  <2>3. \A k \in Keys : store[k] # NoValue => k[1] =< day'
    BY <2>1 DEF Keys, Days
  <2>4. chalNode # NoValue => chalNode.token.day =< day'
    BY <2>1 DEF TypeInv, TypeOK, Challenge, Token, Days
  <2> QED BY <1>24, <2>2, <2>3, <2>4 DEF Clock
<1>25. CASE ToggleMarker
  BY <1>25 DEF ToggleMarker, TypeInv, Shape
<1>26. CASE CreateKey
  BY <1>26 DEF CreateKey, TypeInv, Shape
<1>27. CASE NetDown
  BY <1>27 DEF NetDown, TypeInv, Shape
<1>28. CASE NetUp
  BY <1>28 DEF NetUp, TypeInv, Shape
<1>29. CASE PhoneRead
  BY <1>29 DEF PhoneRead, TypeInv, Shape
<1>30. CASE PhoneUpload
  BY <1>30 DEF PhoneUpload, TypeInv, Shape
<1>31. CASE UNCHANGED vars
  BY <1>31
<1> QED
  BY <1>1, <1>2, <1>3, <1>4, <1>5, <1>6, <1>7, <1>8, <1>9, <1>10, <1>11,
     <1>12, <1>13, <1>14, <1>15, <1>16, <1>17, <1>18, <1>19, <1>20, <1>21,
     <1>22, <1>23, <1>24, <1>25, <1>26, <1>27, <1>28, <1>29, <1>30, <1>31
  DEF Next, GateRun, Worker, Hatch, Fault, Environment

(* No step undoes a part of the accept under way.                          *)
LEMMA ProgressNext ==
  ASSUME TypeInv, TypeInv', Progress, [Next]_vars
  PROVE  Progress'
<1> USE DEF clockVars, fileVars, gateVars, workVars, hatchVars, netVars, vars,
            Progress, Open, Logged, Advanced, Spent
<1>1. CASE TimerTick
  BY <1>1 DEF TimerTick, Stop, TypeInv, Shape
<1>2. CASE CheckDue
  BY <1>2 DEF CheckDue, Stop, TypeInv, Shape
<1>3. CASE XServerMissing
  BY <1>3 DEF XServerMissing, TypeInv, Shape
<1>4. CASE MintChallenge
  BY <1>4 DEF MintChallenge, TypeInv, Shape
<1>5. CASE PublishChallenge
  BY <1>5 DEF PublishChallenge, TypeInv, Shape
<1>6. CASE TakeTurn
  BY <1>6 DEF TakeTurn, Stop, TypeInv, Shape
<1>7. CASE PollTick
  BY <1>7 DEF PollTick, WorkerAt, TypeInv, Shape
<1>8. CASE FetchEvidence
  BY <1>8 DEF FetchEvidence, WorkerDone, TypeInv, Shape
<1>9. CASE Verify
  <2>1. CASE WorkerAt("fetched", "verified") /\ Verifies(wev, wday) /\ UNCHANGED <<wsnap, wsig>>
    <3>1. LET rec == store[TokenKey(wev.token)]
          IN rec # NoValue /\ ~rec.consumed /\ rec.gen = wev.token.gen
      BY <2>1 DEF Verifies, Loaded
    <3> QED BY <1>9, <2>1, <3>1 DEF Verify, WorkerAt
  <2>2. CASE WorkerDone
    BY <1>9, <2>2 DEF Verify, WorkerDone
  <2> QED BY <1>9, <2>1, <2>2 DEF Verify
<1>10. CASE ReadLog
  BY <1>10 DEF ReadLog, WorkerAt, TypeInv, Shape
<1>11. CASE AppendClear
  <2>1. /\ ClearOf(wev, wday) \in log'
        /\ ClearOf(wev, wday).kind = "clear"
        /\ ClearOf(wev, wday).bucket = wday
        /\ ClearOf(wev, wday).token = wev.token
    BY <1>11 DEF AppendClear, ClearOf
  <2> QED BY <1>11, <2>1 DEF AppendClear, WorkerAt
<1>12. CASE AdvanceCursor
  BY <1>12 DEF AdvanceCursor, WorkerAt, TypeInv, Shape
<1>13. CASE ConsumeChallenge
  <2>1. /\ store'[TokenKey(wev.token)] # NoValue
        /\ store'[TokenKey(wev.token)].consumed
        /\ store'[TokenKey(wev.token)].gen = wev.token.gen
    BY <1>13, ConsumeStep
  <2> QED BY <1>13, <2>1 DEF ConsumeChallenge, WorkerAt
<1>14. CASE PublishConsumed
  BY <1>14 DEF PublishConsumed, WorkerAt, TypeInv, Shape
<1>15. CASE DrainEvidence
  BY <1>15 DEF DrainEvidence, WorkerAt, TypeInv, Shape
<1>16. CASE WorkerFails
  BY <1>16 DEF WorkerFails, WorkerDone, TypeInv, Shape
<1>17. CASE CloseOnAccept
  BY <1>17 DEF CloseOnAccept, Stop, WorkerDone, TypeInv, Shape
<1>18. CASE RecordEscape
  BY <1>18 DEF RecordEscape, TypeInv, Shape
<1>19. CASE EscapeReadLog
  BY <1>19 DEF EscapeReadLog, TypeInv, Shape
<1>20. CASE AppendEscape
  BY <1>20 DEF AppendEscape, HatchIdle, Stop, TypeInv, Shape
<1>21. CASE CallbackError
  BY <1>21 DEF CallbackError, Stop, HatchIdle, TypeInv, Shape
<1>22. CASE ExitProcess
  BY <1>22 DEF ExitProcess, WorkerDone, TypeInv, Shape
<1>23. CASE Crash
  BY <1>23 DEF Crash, WorkerDone, HatchIdle, TypeInv, Shape
<1>24. CASE Clock
  BY <1>24 DEF Clock, TypeInv, Shape
<1>25. CASE ToggleMarker
  BY <1>25 DEF ToggleMarker, TypeInv, Shape
<1>26. CASE CreateKey
  BY <1>26 DEF CreateKey, TypeInv, Shape
<1>27. CASE NetDown
  BY <1>27 DEF NetDown, TypeInv, Shape
<1>28. CASE NetUp
  BY <1>28 DEF NetUp, TypeInv, Shape
<1>29. CASE PhoneRead
  BY <1>29 DEF PhoneRead, TypeInv, Shape
<1>30. CASE PhoneUpload
  BY <1>30 DEF PhoneUpload, TypeInv, Shape
<1>31. CASE UNCHANGED vars
  BY <1>31
<1> QED
  BY <1>1, <1>2, <1>3, <1>4, <1>5, <1>6, <1>7, <1>8, <1>9, <1>10, <1>11,
     <1>12, <1>13, <1>14, <1>15, <1>16, <1>17, <1>18, <1>19, <1>20, <1>21,
     <1>22, <1>23, <1>24, <1>25, <1>26, <1>27, <1>28, <1>29, <1>30, <1>31
  DEF Next, GateRun, Worker, Hatch, Fault, Environment

(* No step takes the threads further apart.                                *)
LEMMA SnapshotsNext ==
  ASSUME TypeInv, TypeInv', Snapshots, [Next]_vars
  PROVE  Snapshots'
<1> USE DEF clockVars, fileVars, gateVars, workVars, hatchVars, netVars, vars,
            Snapshots
<1>1. CASE TimerTick
  BY <1>1 DEF TimerTick, Stop, TypeInv, Shape
<1>2. CASE CheckDue
  BY <1>2 DEF CheckDue, Stop, TypeInv, Shape
<1>3. CASE XServerMissing
  BY <1>3 DEF XServerMissing, TypeInv, Shape
<1>4. CASE MintChallenge
  BY <1>4 DEF MintChallenge, TypeInv, Shape
<1>5. CASE PublishChallenge
  BY <1>5 DEF PublishChallenge, TypeInv, Shape
<1>6. CASE TakeTurn
  BY <1>6 DEF TakeTurn, Stop, TypeInv, Shape
<1>7. CASE PollTick
  BY <1>7 DEF PollTick, WorkerAt, TypeInv, Shape
<1>8. CASE FetchEvidence
  BY <1>8 DEF FetchEvidence, WorkerDone, TypeInv, Shape
<1>9. CASE Verify
  BY <1>9 DEF Verify, WorkerAt, WorkerDone, TypeInv, Shape
<1>10. CASE ReadLog
  BY <1>10 DEF ReadLog, WorkerAt, TypeInv, Shape
<1>11. CASE AppendClear
  BY <1>11 DEF AppendClear, WorkerAt, TypeInv, Shape
<1>12. CASE AdvanceCursor
  BY <1>12 DEF AdvanceCursor, WorkerAt, TypeInv, Shape
<1>13. CASE ConsumeChallenge
  BY <1>13 DEF ConsumeChallenge, WorkerAt, TypeInv, Shape
<1>14. CASE PublishConsumed
  BY <1>14 DEF PublishConsumed, WorkerAt, TypeInv, Shape
<1>15. CASE DrainEvidence
  BY <1>15 DEF DrainEvidence, WorkerAt, TypeInv, Shape
<1>16. CASE WorkerFails
  BY <1>16 DEF WorkerFails, WorkerDone, TypeInv, Shape
<1>17. CASE CloseOnAccept
  BY <1>17 DEF CloseOnAccept, Stop, WorkerDone, TypeInv, Shape
<1>18. CASE RecordEscape
  BY <1>18 DEF RecordEscape, TypeInv, Shape
<1>19. CASE EscapeReadLog
  BY <1>19 DEF EscapeReadLog, TypeInv, Shape
<1>20. CASE AppendEscape
  BY <1>20 DEF AppendEscape, HatchIdle, Stop, TypeInv, Shape
<1>21. CASE CallbackError
  BY <1>21 DEF CallbackError, Stop, HatchIdle, TypeInv, Shape
<1>22. CASE ExitProcess
  BY <1>22 DEF ExitProcess, WorkerDone, TypeInv, Shape
<1>23. CASE Crash
  BY <1>23 DEF Crash, WorkerDone, HatchIdle, TypeInv, Shape
<1>24. CASE Clock
  BY <1>24 DEF Clock, TypeInv, Shape
<1>25. CASE ToggleMarker
  BY <1>25 DEF ToggleMarker, TypeInv, Shape
<1>26. CASE CreateKey
  BY <1>26 DEF CreateKey, TypeInv, Shape
<1>27. CASE NetDown
  BY <1>27 DEF NetDown, TypeInv, Shape
<1>28. CASE NetUp
  BY <1>28 DEF NetUp, TypeInv, Shape
<1>29. CASE PhoneRead
  BY <1>29 DEF PhoneRead, TypeInv, Shape
<1>30. CASE PhoneUpload
  BY <1>30 DEF PhoneUpload, TypeInv, Shape
<1>31. CASE UNCHANGED vars
  BY <1>31
<1> QED
  BY <1>1, <1>2, <1>3, <1>4, <1>5, <1>6, <1>7, <1>8, <1>9, <1>10, <1>11,
     <1>12, <1>13, <1>14, <1>15, <1>16, <1>17, <1>18, <1>19, <1>20, <1>21,
     <1>22, <1>23, <1>24, <1>25, <1>26, <1>27, <1>28, <1>29, <1>30, <1>31
  DEF Next, GateRun, Worker, Hatch, Fault, Environment

(* No step leaves a consumed token without its entry.                      *)
LEMMA AllBackedNext ==
  ASSUME TypeInv, TypeInv', Dated, AllBacked, [Next]_vars
  PROVE  AllBacked'
<1> USE DEF clockVars, fileVars, gateVars, workVars, hatchVars, netVars, vars,
            AllBacked, StoreBackedIn, NodeBackedIn, Logged, TokenAt
<1>1. CASE TimerTick
  BY <1>1 DEF TimerTick, Stop, TypeInv, Shape
<1>2. CASE CheckDue
  BY <1>2 DEF CheckDue, Stop, TypeInv, Shape
<1>3. CASE XServerMissing
  BY <1>3 DEF XServerMissing, TypeInv, Shape
<1>4. CASE MintChallenge
  <2>1. wpc' = "idle" /\ UNCHANGED <<log, chalNode>>
    BY <1>4, MintStep DEF MintChallenge, TypeInv, Shape
  <2>2. StoreBackedIn(log)'
    <3> SUFFICES ASSUME NEW k \in Keys, store'[k] # NoValue, store'[k].consumed
                 PROVE  BackedIn(log, TokenAt(k)')
      BY <2>1
    <3>1. /\ store[k] # NoValue /\ store[k].consumed
          /\ store'[k].gen = store[k].gen
      BY <1>4, MintStep
    <3>2. TokenAt(k)' = TokenAt(k)
      BY <3>1 DEF TokenAt
    <3> QED BY <3>1, <3>2
  <2> QED BY <2>1, <2>2
<1>5. CASE PublishChallenge
  <2>1. LockKey \in Keys /\ store[LockKey] # NoValue
    BY <1>5 DEF PublishChallenge, TypeInv, TypeOK, Shape, Lock, LockKey, Keys
  <2>2. NodeBackedIn(log)'
    BY <1>5, <2>1 DEF PublishChallenge
  <2> QED BY <1>5, <2>2 DEF PublishChallenge, TypeInv, Shape, TokenAt
<1>6. CASE TakeTurn
  BY <1>6 DEF TakeTurn, Stop, TypeInv, Shape
<1>7. CASE PollTick
  BY <1>7 DEF PollTick, WorkerAt, TypeInv, Shape
<1>8. CASE FetchEvidence
  BY <1>8 DEF FetchEvidence, WorkerDone, TypeInv, Shape
<1>9. CASE Verify
  BY <1>9 DEF Verify, WorkerAt, WorkerDone, TypeInv, Shape
<1>10. CASE ReadLog
  BY <1>10 DEF ReadLog, WorkerAt, TypeInv, Shape
<1>11. CASE AppendClear
  <2>1. /\ wpc = "logread" /\ wsnap \subseteq log'
        /\ ClearOf(wev, wday) \in log'
        /\ ClearOf(wev, wday).kind = "clear"
        /\ ClearOf(wev, wday).token = wev.token
    BY <1>11 DEF AppendClear, WorkerAt, ClearOf
  <2>2. \A t : BackedIn(wsnap, t) => BackedIn(log', t)
    BY <2>1 DEF BackedIn
  <2>3. BackedIn(log', wev.token)
    BY <2>1 DEF BackedIn
  <2> QED BY <1>11, <2>1, <2>2, <2>3 DEF AppendClear, WorkerAt, TokenAt
<1>12. CASE AdvanceCursor
  BY <1>12 DEF AdvanceCursor, WorkerAt, TypeInv, Shape
<1>13. CASE ConsumeChallenge
  <2> DEFINE t == wev.token
  <2>1. t \in Token /\ wpc = "advanced" /\ wpc' = "consumed" /\ wev' = wev
    BY <1>13, HeldPayload DEF ConsumeChallenge, WorkerAt
  <2>2. UNCHANGED <<log, chalNode>>
    BY <1>13 DEF ConsumeChallenge
  <2>3. ASSUME NEW k \in Keys, store'[k] # NoValue, store'[k].consumed
        PROVE  BackedIn(log, TokenAt(k)')
    <3>1. CASE k = TokenKey(t)
      <4>1. TokenAt(k)' = t
        BY <1>13, <2>1, <3>1, ConsumeStep DEF TokenAt, TokenKey, Token
      <4> QED BY <2>1, <4>1
    <3>2. CASE k # TokenKey(t)
      <4>1. /\ store[k] # NoValue /\ store[k].consumed
            /\ store'[k].gen = store[k].gen
        BY <1>13, <2>3, <3>2, ConsumeStep
      <4>2. TokenAt(k)' = TokenAt(k)
        BY <4>1 DEF TokenAt
      <4> QED BY <4>1, <4>2
    <3> QED BY <3>1, <3>2
  <2> QED BY <2>1, <2>2, <2>3
<1>14. CASE PublishConsumed
  BY <1>14 DEF PublishConsumed, WorkerAt, TypeInv, Shape
<1>15. CASE DrainEvidence
  BY <1>15 DEF DrainEvidence, WorkerAt, TypeInv, Shape
<1>16. CASE WorkerFails
  BY <1>16 DEF WorkerFails, WorkerDone, TypeInv, Shape
<1>17. CASE CloseOnAccept
  BY <1>17 DEF CloseOnAccept, Stop, WorkerDone, TypeInv, Shape
<1>18. CASE RecordEscape
  BY <1>18 DEF RecordEscape, TypeInv, Shape
<1>19. CASE EscapeReadLog
  BY <1>19 DEF EscapeReadLog, TypeInv, Shape
<1>20. CASE AppendEscape
  <2> DEFINE esc == [kind |-> "escape", bucket |-> uday, slot |-> lock.slot]
  <2>1. /\ esc \in log' /\ UNCHANGED <<store, chalNode, wpc, wev, wsnap>>
        /\ pc = "armed" /\ upc # "none"
    BY <1>20 DEF AppendEscape, TypeInv, Shape
  <2>2. lock.day \in Days /\ uday \in Days /\ lock.day =< uday
    BY <2>1 DEF TypeInv, TypeOK, Shape, Lock, Dated
  <2>3. \A t : t.day \in Days /\ t.day =< lock.day => BackedIn(log', t)
    <3>1. esc.kind = "escape" /\ esc.bucket = uday
      OBVIOUS
    <3> HIDE DEF esc
    <3> QED BY <2>1, <2>2, <3>1 DEF BackedIn, Days
  <2>4. \A k \in Keys : store[k] # NoValue => BackedIn(log', TokenAt(k))
    BY <2>1, <2>3 DEF Dated, Up, TokenAt, Keys
  <2>5. chalNode # NoValue => BackedIn(log', chalNode.token)
    BY <2>1, <2>3 DEF Dated, Up, TypeInv, TypeOK, Challenge, Token
  <2>6. wpc \in Logged => BackedIn(log', wev.token)
    BY <2>3, HeldPayload DEF Dated, Idle, Token
  <2> QED BY <2>1, <2>4, <2>5, <2>6 DEF TokenAt
<1>21. CASE CallbackError
  BY <1>21 DEF CallbackError, Stop, HatchIdle, TypeInv, Shape
<1>22. CASE ExitProcess
  BY <1>22 DEF ExitProcess, WorkerDone, TypeInv, Shape
<1>23. CASE Crash
  BY <1>23 DEF Crash, WorkerDone, HatchIdle, TypeInv, Shape
<1>24. CASE Clock
  BY <1>24 DEF Clock, TypeInv, Shape
<1>25. CASE ToggleMarker
  BY <1>25 DEF ToggleMarker, TypeInv, Shape
<1>26. CASE CreateKey
  BY <1>26 DEF CreateKey, TypeInv, Shape
<1>27. CASE NetDown
  BY <1>27 DEF NetDown, TypeInv, Shape
<1>28. CASE NetUp
  BY <1>28 DEF NetUp, TypeInv, Shape
<1>29. CASE PhoneRead
  BY <1>29 DEF PhoneRead, TypeInv, Shape
<1>30. CASE PhoneUpload
  BY <1>30 DEF PhoneUpload, TypeInv, Shape
<1>31. CASE UNCHANGED vars
  BY <1>31
<1> QED
  BY <1>1, <1>2, <1>3, <1>4, <1>5, <1>6, <1>7, <1>8, <1>9, <1>10, <1>11,
     <1>12, <1>13, <1>14, <1>15, <1>16, <1>17, <1>18, <1>19, <1>20, <1>21,
     <1>22, <1>23, <1>24, <1>25, <1>26, <1>27, <1>28, <1>29, <1>30, <1>31
  DEF Next, GateRun, Worker, Hatch, Fault, Environment

(* No step writes an escape that was not paid for.                         *)
LEMMA BudgetedNext ==
  ASSUME TypeInv, TypeInv', Snapshots, Budgeted, [Next]_vars
  PROVE  Budgeted'
<1> USE DEF clockVars, fileVars, gateVars, workVars, hatchVars, netVars, vars,
            Budgeted, Escapes
<1>1. CASE TimerTick
  BY <1>1 DEF TimerTick, Stop
<1>2. CASE CheckDue
  BY <1>2 DEF CheckDue, Stop
<1>3. CASE XServerMissing
  BY <1>3 DEF XServerMissing
<1>4. CASE MintChallenge
  BY <1>4 DEF MintChallenge
<1>5. CASE PublishChallenge
  BY <1>5 DEF PublishChallenge
<1>6. CASE TakeTurn
  BY <1>6 DEF TakeTurn, Stop
<1>7. CASE PollTick
  BY <1>7 DEF PollTick, WorkerAt
<1>8. CASE FetchEvidence
  BY <1>8 DEF FetchEvidence, WorkerDone
<1>9. CASE Verify
  BY <1>9 DEF Verify, WorkerAt, WorkerDone
<1>10. CASE ReadLog
  BY <1>10 DEF ReadLog, WorkerAt
<1>11. CASE AppendClear
  <2>1. /\ wpc = "logread" /\ log' = wsnap \cup {ClearOf(wev, wday)}
        /\ UNCHANGED <<upc, used>>
    BY <1>11 DEF AppendClear, WorkerAt
  <2>2. Escapes(log') \subseteq Escapes(log)
    BY <2>1 DEF Escapes, ClearOf, Snapshots
  <2>3. /\ IsFiniteSet(Escapes(log'))
        /\ Cardinality(Escapes(log')) =< Cardinality(Escapes(log))
    BY <2>2, FS_Subset
  <2>4. /\ Cardinality(Escapes(log)) \in Nat /\ used \in Nat
        /\ Cardinality(Escapes(log')) \in Nat
    BY <2>3, FS_CardinalityType, LockGateAssumption DEF TypeInv, TypeOK
  <2> QED BY <2>1, <2>3, <2>4
<1>12. CASE AdvanceCursor
  BY <1>12 DEF AdvanceCursor, WorkerAt
<1>13. CASE ConsumeChallenge
  BY <1>13 DEF ConsumeChallenge, WorkerAt
<1>14. CASE PublishConsumed
  BY <1>14 DEF PublishConsumed, WorkerAt
<1>15. CASE DrainEvidence
  BY <1>15 DEF DrainEvidence, WorkerAt
<1>16. CASE WorkerFails
  BY <1>16 DEF WorkerFails, WorkerDone
<1>17. CASE CloseOnAccept
  BY <1>17 DEF CloseOnAccept, Stop, WorkerDone
<1>18. CASE RecordEscape
  <2>1. /\ upc = "none" /\ upc' = "recorded"
        /\ used' = used + 1 /\ log' = log
    BY <1>18 DEF RecordEscape
  <2>2. Cardinality(Escapes(log)) \in Nat /\ used \in Nat
    BY FS_CardinalityType, LockGateAssumption DEF TypeInv, TypeOK
  <2> QED BY <2>1, <2>2
<1>19. CASE EscapeReadLog
  BY <1>19 DEF EscapeReadLog
<1>20. CASE AppendEscape
  <2> DEFINE esc == [kind |-> "escape", bucket |-> uday, slot |-> lock.slot]
  <2>1. /\ upc = "read" /\ upc' = "none" /\ used' = used
        /\ log' = usnap \cup {esc} /\ usnap \subseteq log
    BY <1>20 DEF AppendEscape, HatchIdle, Snapshots
  <2>2. Escapes(log') \subseteq Escapes(log) \cup {esc}
    BY <2>1 DEF Escapes
  <2>3. /\ IsFiniteSet(Escapes(log) \cup {esc})
        /\ Cardinality(Escapes(log) \cup {esc}) =< Cardinality(Escapes(log)) + 1
    <3> HIDE DEF esc
    <3>1. Cardinality(Escapes(log)) \in Nat
      BY FS_CardinalityType
    <3> QED BY <3>1, FS_AddElement
  <2>4. /\ IsFiniteSet(Escapes(log'))
        /\ Cardinality(Escapes(log')) =< Cardinality(Escapes(log) \cup {esc})
    <3> HIDE DEF esc
    <3> QED BY <2>2, <2>3, FS_Subset
  <2>5. /\ Cardinality(Escapes(log)) \in Nat /\ used \in Nat
        /\ Cardinality(Escapes(log')) \in Nat
        /\ Cardinality(Escapes(log) \cup {esc}) \in Nat
    <3> HIDE DEF esc
    <3> QED BY <2>3, <2>4, FS_CardinalityType, LockGateAssumption DEF TypeInv, TypeOK
  <2>6. Cardinality(Escapes(log')) =< Cardinality(Escapes(log)) + 1
    <3> HIDE DEF esc
    <3> QED BY <2>3, <2>4, <2>5
  <2> QED BY <2>1, <2>4, <2>5, <2>6
<1>21. CASE CallbackError
  <2>1. upc' = "none" /\ UNCHANGED <<log, used>>
    BY <1>21 DEF CallbackError, HatchIdle
  <2>2. Cardinality(Escapes(log)) \in Nat /\ used \in Nat
    BY FS_CardinalityType, LockGateAssumption DEF TypeInv, TypeOK
  <2> QED BY <2>1, <2>2
<1>22. CASE ExitProcess
  BY <1>22 DEF ExitProcess, WorkerDone
<1>23. CASE Crash
  <2>1. upc' = "none" /\ UNCHANGED <<log, used>>
    BY <1>23 DEF Crash, HatchIdle
  <2>2. Cardinality(Escapes(log)) \in Nat /\ used \in Nat
    BY FS_CardinalityType, LockGateAssumption DEF TypeInv, TypeOK
  <2> QED BY <2>1, <2>2
<1>24. CASE Clock
  BY <1>24 DEF Clock
<1>25. CASE ToggleMarker
  BY <1>25 DEF ToggleMarker
<1>26. CASE CreateKey
  BY <1>26 DEF CreateKey
<1>27. CASE NetDown
  BY <1>27 DEF NetDown
<1>28. CASE NetUp
  BY <1>28 DEF NetUp
<1>29. CASE PhoneRead
  BY <1>29 DEF PhoneRead
<1>30. CASE PhoneUpload
  BY <1>30 DEF PhoneUpload
<1>31. CASE UNCHANGED vars
  BY <1>31
<1> QED
  BY <1>1, <1>2, <1>3, <1>4, <1>5, <1>6, <1>7, <1>8, <1>9, <1>10, <1>11,
     <1>12, <1>13, <1>14, <1>15, <1>16, <1>17, <1>18, <1>19, <1>20, <1>21,
     <1>22, <1>23, <1>24, <1>25, <1>26, <1>27, <1>28, <1>29, <1>30, <1>31
  DEF Next, GateRun, Worker, Hatch, Fault, Environment

(* No step satisfies the slot a run is about to mint for.                  *)
LEMMA StillDueNext ==
  ASSUME TypeInv, TypeInv', Earned, StillDue, [Next]_vars
  PROVE  StillDue'
<1> USE DEF clockVars, fileVars, gateVars, workVars, hatchVars, netVars, vars,
            StillDue, ClearedSlots, IsValidClear
<1>1. CASE TimerTick
  BY <1>1 DEF TimerTick, Stop, TypeInv, Shape
<1>2. CASE CheckDue
  <2>1. CASE DueSlots = {} /\ Stop("idle")
    BY <1>2, <2>1 DEF CheckDue, Stop
  <2>2. CASE \E s \in DueSlots :
               pc' = "waitx" /\ lock' = [slot |-> s, day |-> day, published |-> FALSE]
    <3>1. lock'.slot \notin ClearedSlots(day)
      BY <2>2 DEF DueSlots, MissingSlots
    <3>2. ClearedSlots(day)' = ClearedSlots(day)
      BY <1>2 DEF CheckDue, ClearedSlots, IsValidClear
    <3> QED BY <3>1, <3>2
  <2> QED BY <1>2, <2>1, <2>2 DEF CheckDue
<1>3. CASE XServerMissing
  BY <1>3 DEF XServerMissing, TypeInv, Shape
<1>4. CASE MintChallenge
  BY <1>4 DEF MintChallenge, TypeInv, Shape
<1>5. CASE PublishChallenge
  BY <1>5 DEF PublishChallenge, TypeInv, Shape
<1>6. CASE TakeTurn
  BY <1>6 DEF TakeTurn, Stop, TypeInv, Shape
<1>7. CASE PollTick
  BY <1>7 DEF PollTick, WorkerAt, TypeInv, Shape
<1>8. CASE FetchEvidence
  BY <1>8 DEF FetchEvidence, WorkerDone, TypeInv, Shape
<1>9. CASE Verify
  BY <1>9 DEF Verify, WorkerAt, WorkerDone, TypeInv, Shape
<1>10. CASE ReadLog
  BY <1>10 DEF ReadLog, WorkerAt, TypeInv, Shape
<1>11. CASE AppendClear
  BY <1>11 DEF AppendClear, WorkerAt, TypeInv, Shape
<1>12. CASE AdvanceCursor
  BY <1>12 DEF AdvanceCursor, WorkerAt, TypeInv, Shape
<1>13. CASE ConsumeChallenge
  BY <1>13 DEF ConsumeChallenge, WorkerAt, TypeInv, Shape
<1>14. CASE PublishConsumed
  BY <1>14 DEF PublishConsumed, WorkerAt, TypeInv, Shape
<1>15. CASE DrainEvidence
  BY <1>15 DEF DrainEvidence, WorkerAt, TypeInv, Shape
<1>16. CASE WorkerFails
  BY <1>16 DEF WorkerFails, WorkerDone, TypeInv, Shape
<1>17. CASE CloseOnAccept
  BY <1>17 DEF CloseOnAccept, Stop, WorkerDone, TypeInv, Shape
<1>18. CASE RecordEscape
  BY <1>18 DEF RecordEscape, TypeInv, Shape
<1>19. CASE EscapeReadLog
  BY <1>19 DEF EscapeReadLog, TypeInv, Shape
<1>20. CASE AppendEscape
  BY <1>20 DEF AppendEscape, HatchIdle, Stop, TypeInv, Shape
<1>21. CASE CallbackError
  BY <1>21 DEF CallbackError, Stop, HatchIdle, TypeInv, Shape
<1>22. CASE ExitProcess
  BY <1>22 DEF ExitProcess, WorkerDone, TypeInv, Shape
<1>23. CASE Crash
  BY <1>23 DEF Crash, WorkerDone, HatchIdle, TypeInv, Shape
<1>24. CASE Clock
  <2>1. CASE day' = day /\ UNCHANGED <<hmacKey, log, pc, lock>>
    BY <2>1 DEF ClearedSlots, IsValidClear
  <2>2. CASE day' = day + 1 /\ UNCHANGED <<hmacKey, log, pc, lock>>
    <3>1. ASSUME NEW e \in log
          PROVE  e.bucket # day'
      <4>1. e.bucket =< day /\ e.bucket \in Nat /\ day \in Nat
        <5>1. e \in Entry /\ day \in Nat /\ e.bucket =< day
          BY DEF Earned, EarnedIn, TypeInv, TypeOK, Days
        <5> QED BY <5>1 DEF Entry, ClearEntry, EscapeEntry, Days
      <4> QED BY <2>2, <4>1
    <3>2. ClearedSlots(day)' = {}
      BY <2>2, <3>1 DEF ClearedSlots
    <3> QED BY <3>2
  <2> QED BY <1>24, <2>1, <2>2 DEF Clock
<1>25. CASE ToggleMarker
  BY <1>25 DEF ToggleMarker, TypeInv, Shape
<1>26. CASE CreateKey
  <2>1. ClearedSlots(day)' \subseteq ClearedSlots(day)
    BY <1>26 DEF CreateKey, ClearedSlots, IsValidClear
  <2> QED BY <1>26, <2>1 DEF CreateKey
<1>27. CASE NetDown
  BY <1>27 DEF NetDown, TypeInv, Shape
<1>28. CASE NetUp
  BY <1>28 DEF NetUp, TypeInv, Shape
<1>29. CASE PhoneRead
  BY <1>29 DEF PhoneRead, TypeInv, Shape
<1>30. CASE PhoneUpload
  BY <1>30 DEF PhoneUpload, TypeInv, Shape
<1>31. CASE UNCHANGED vars
  BY <1>31
<1> QED
  BY <1>1, <1>2, <1>3, <1>4, <1>5, <1>6, <1>7, <1>8, <1>9, <1>10, <1>11,
     <1>12, <1>13, <1>14, <1>15, <1>16, <1>17, <1>18, <1>19, <1>20, <1>21,
     <1>22, <1>23, <1>24, <1>25, <1>26, <1>27, <1>28, <1>29, <1>30, <1>31
  DEF Next, GateRun, Worker, Hatch, Fault, Environment

(* No step parts the cursor from the log.                                  *)
LEMMA CursorPlacedNext ==
  ASSUME TypeInv, TypeInv', Dated, CursorPlaced, [Next]_vars
  PROVE  CursorPlaced'
<1> USE DEF clockVars, fileVars, gateVars, workVars, hatchVars, netVars, vars,
            CursorPlaced, CursorIn, Up
<1>1. CASE TimerTick
  BY <1>1 DEF TimerTick, Stop, TypeInv, Shape
<1>2. CASE CheckDue
  BY <1>2 DEF CheckDue, Stop, TypeInv, Shape
<1>3. CASE XServerMissing
  BY <1>3 DEF XServerMissing, TypeInv, Shape
<1>4. CASE MintChallenge
  <2>1. /\ pc = "waitx" /\ wpc' = "idle" /\ lock'.day = day
        /\ UNCHANGED <<day, log, cursor, wev, wsnap>>
    BY <1>4, MintStep DEF MintChallenge, TypeInv, Shape
  <2> QED BY <2>1
<1>5. CASE PublishChallenge
  <2>1. lock'.day = lock.day
    BY <1>5 DEF PublishChallenge, TypeInv, TypeOK, Shape, Lock
  <2> QED BY <1>5, <2>1 DEF PublishChallenge, TypeInv, Shape
<1>6. CASE TakeTurn
  BY <1>6 DEF TakeTurn, Stop, TypeInv, Shape
<1>7. CASE PollTick
  BY <1>7 DEF PollTick, WorkerAt, TypeInv, Shape
<1>8. CASE FetchEvidence
  BY <1>8 DEF FetchEvidence, WorkerDone, TypeInv, Shape
<1>9. CASE Verify
  BY <1>9 DEF Verify, WorkerAt, WorkerDone, TypeInv, Shape
<1>10. CASE ReadLog
  BY <1>10 DEF ReadLog, WorkerAt, TypeInv, Shape
<1>11. CASE AppendClear
  <2>1. /\ wpc = "logread" /\ wsnap \subseteq log'
        /\ ClearOf(wev, wday) \in log'
        /\ UNCHANGED <<cursor, day, pc, lock, wev, wday>> /\ wpc' = "logged"
    BY <1>11 DEF AppendClear, WorkerAt
  <2>2. /\ ClearOf(wev, wday).kind = "clear"
        /\ ClearOf(wev, wday).token = wev.token
        /\ ClearOf(wev, wday).zone = wev.zone
        /\ ClearOf(wev, wday).bucket = wday
    BY DEF ClearOf
  <2>3. CursorIn(log)'
    BY <2>1
  <2> QED BY <2>1, <2>2, <2>3
<1>12. CASE AdvanceCursor
  <2>1. /\ wpc = "logged" /\ wpc' = "advanced"
        /\ UNCHANGED <<log, wsnap, day, pc, lock>>
    BY <1>12 DEF AdvanceCursor, WorkerAt
  <2>2. CASE cursor' = cursor
    BY <2>1, <2>2
  <2>3. CASE cursor' = [index |-> IndexAfter(wev.zone, wday),
                        last  |-> TokenKey(wev.token)]
    <3>1. /\ cursor'.last = TokenKey(wev.token)
          /\ cursor'.index = IndexAfter(wev.zone, wday)
          /\ TokenKey(wev.token)[1] = wev.token.day
      BY <2>1, <2>3, HeldPayload
    <3>2. CursorIn(log)'
      BY <2>1, <3>1
    <3>3. wev.token.day =< day /\ wev.token.day =< lock.day
      <4>1. lock.day \in Days /\ wev.token.day \in Days /\ day \in Days
        BY <2>1, HeldPayload DEF TypeInv, TypeOK, Shape, Lock, Token
      <4>2. wev.token.day =< lock.day /\ lock.day =< day
        BY <2>1 DEF Dated, Idle, TypeInv, Shape
      <4> QED BY <4>1, <4>2 DEF Days
    <3> QED BY <2>1, <3>1, <3>2, <3>3
  <2> QED BY <1>12, <2>2, <2>3 DEF AdvanceCursor
<1>13. CASE ConsumeChallenge
  BY <1>13 DEF ConsumeChallenge, WorkerAt, TypeInv, Shape
<1>14. CASE PublishConsumed
  BY <1>14 DEF PublishConsumed, WorkerAt, TypeInv, Shape
<1>15. CASE DrainEvidence
  BY <1>15 DEF DrainEvidence, WorkerAt, TypeInv, Shape
<1>16. CASE WorkerFails
  BY <1>16 DEF WorkerFails, WorkerDone, TypeInv, Shape
<1>17. CASE CloseOnAccept
  BY <1>17 DEF CloseOnAccept, Stop, WorkerDone, TypeInv, Shape
<1>18. CASE RecordEscape
  BY <1>18 DEF RecordEscape, TypeInv, Shape
<1>19. CASE EscapeReadLog
  BY <1>19 DEF EscapeReadLog, TypeInv, Shape
<1>20. CASE AppendEscape
  <2> DEFINE esc == [kind |-> "escape", bucket |-> uday, slot |-> lock.slot]
  <2>1. /\ esc \in log' /\ pc = "armed" /\ pc' = "closed" /\ upc # "none"
        /\ UNCHANGED <<cursor, day, lock, wpc, wev, wday, wsnap>>
    BY <1>20 DEF AppendEscape, Stop, TypeInv, Shape
  <2>2. lock.day \in Days /\ uday \in Days /\ lock.day =< uday
    BY <2>1 DEF TypeInv, TypeOK, Shape, Lock, Dated
  <2>3. esc.kind = "escape" /\ esc.bucket = uday
    OBVIOUS
  <2>4. CursorIn(log)'
    <3>1. cursor.last # NoValue => uday >= cursor.last[1]
      BY <2>1, <2>2 DEF TypeInv, TypeOK, Keys, Days
    <3> HIDE DEF esc
    <3> QED BY <2>1, <2>3, <3>1
  <2>5. wpc = "logged" => uday >= wev.token.day
    <3>1. wpc = "logged" => wev.token.day \in Days /\ wev.token.day =< lock.day
      BY HeldPayload DEF Dated, Idle, Token
    <3> QED BY <2>2, <3>1 DEF Days
  <2> HIDE DEF esc
  <2> QED BY <2>1, <2>3, <2>4, <2>5
<1>21. CASE CallbackError
  BY <1>21 DEF CallbackError, Stop, HatchIdle, TypeInv, Shape
<1>22. CASE ExitProcess
  BY <1>22 DEF ExitProcess, WorkerDone, TypeInv, Shape
<1>23. CASE Crash
  BY <1>23 DEF Crash, WorkerDone, HatchIdle, TypeInv, Shape
<1>24. CASE Clock
  <2>1. day \in Nat /\ day' \in Nat /\ day =< day'
    BY <1>24, LockGateAssumption DEF Clock, TypeInv, TypeOK, Days
  <2>2. cursor.last # NoValue => cursor.last[1] =< day'
    BY <2>1 DEF TypeInv, TypeOK, Keys, Days
  <2> QED BY <1>24, <2>2 DEF Clock
<1>25. CASE ToggleMarker
  BY <1>25 DEF ToggleMarker, TypeInv, Shape
<1>26. CASE CreateKey
  BY <1>26 DEF CreateKey, TypeInv, Shape
<1>27. CASE NetDown
  BY <1>27 DEF NetDown, TypeInv, Shape
<1>28. CASE NetUp
  BY <1>28 DEF NetUp, TypeInv, Shape
<1>29. CASE PhoneRead
  BY <1>29 DEF PhoneRead, TypeInv, Shape
<1>30. CASE PhoneUpload
  BY <1>30 DEF PhoneUpload, TypeInv, Shape
<1>31. CASE UNCHANGED vars
  BY <1>31
<1> QED
  BY <1>1, <1>2, <1>3, <1>4, <1>5, <1>6, <1>7, <1>8, <1>9, <1>10, <1>11,
     <1>12, <1>13, <1>14, <1>15, <1>16, <1>17, <1>18, <1>19, <1>20, <1>21,
     <1>22, <1>23, <1>24, <1>25, <1>26, <1>27, <1>28, <1>29, <1>30, <1>31
  DEF Next, GateRun, Worker, Hatch, Fault, Environment

-----------------------------------------------------------------------------
(* The theorems.                                                           *)

IInv ==
  /\ TypeInv /\ Earned /\ Dated /\ AllBacked /\ Progress /\ Snapshots
  /\ Budgeted /\ StillDue /\ CursorPlaced

(* The inductive invariant holds at the start.                             *)
LEMMA IInvInit == Init => IInv
<1> SUFFICES ASSUME Init PROVE IInv
  OBVIOUS
<1>1. TypeInv
  BY TypeInvInit
<1>2. Earned /\ Dated /\ AllBacked /\ CursorPlaced
  BY DEF Init, Earned, EarnedIn, Idle, Dated, Up, AllBacked, StoreBackedIn,
         NodeBackedIn, Logged, CursorPlaced, CursorIn
<1>3. Progress /\ Snapshots /\ StillDue
  BY DEF Init, Progress, Open, Logged, Advanced, Spent, Snapshots, StillDue
<1>4. Budgeted
  <2>1. Escapes(log) = {}
    BY DEF Init, Escapes
  <2> QED BY <2>1, FS_EmptySet DEF Init, Budgeted
<1> QED BY <1>1, <1>2, <1>3, <1>4 DEF IInv

(* Every step keeps it.                                                    *)
LEMMA IInvNext == IInv /\ [Next]_vars => IInv'
<1> SUFFICES ASSUME IInv, [Next]_vars PROVE IInv'
  OBVIOUS
<1>1. TypeInv'
  BY TypeInvNext DEF IInv
<1> QED
  BY <1>1, EarnedNext, DatedNext, AllBackedNext, ProgressNext, SnapshotsNext,
     BudgetedNext, StillDueNext, CursorPlacedNext
  DEF IInv

(* The inductive invariant holds in every run.                             *)
THEOREM Invariance == Spec => []IInv
  BY IInvInit, IInvNext, PTL DEF Spec

(* The variables keep their types, in every run of every instance.         *)
THEOREM TypeCorrect == Spec => []TypeOK
<1>1. IInv => TypeOK
  BY DEF IInv, TypeInv
<1> QED BY <1>1, Invariance, PTL

(* The store never holds a consumed challenge that the log does not back,  *)
(* for any number of days, slots, zones and faults: the order of           *)
(* process_evidence (log, cursor, then consume) is enough, although the    *)
(* two threads overwrite each other's log entries.                         *)
THEOREM ConsumedAreBacked == Spec => []ConsumedIsBacked
<1>1. IInv => ConsumedIsBacked
  BY DEF IInv, AllBacked, StoreBackedIn, ConsumedIsBacked
<1> QED BY <1>1, Invariance, PTL

(* The phone never reads a challenge as consumed that the log does not     *)
(* back, whether the key existed when it was minted or not.                *)
THEOREM NodeConsumedAreBacked == Spec => []NodeConsumedIsBacked
<1>1. IInv => NodeConsumedIsBacked
  BY DEF IInv, AllBacked, NodeBackedIn, NodeConsumedIsBacked
<1> QED BY <1>1, Invariance, PTL

(* No log entry is ahead of the PC's clock or carries a token that was not *)
(* minted, whatever day the phone reports.                                 *)
THEOREM CreditsAreEarned == Spec => []CreditIsEarned
<1>1. IInv => CreditIsEarned
  BY DEF IInv, Earned, EarnedIn, CreditIsEarned
<1> QED BY <1>1, Invariance, PTL

(* There are never more escapes in the log than uses the hatch recorded.   *)
THEOREM EscapesStayBudgeted == Spec => []EscapesAreBudgeted
<1>1. IInv => EscapesAreBudgeted
  <2> SUFFICES ASSUME IInv PROVE EscapesAreBudgeted
    OBVIOUS
  <2>1. Cardinality(Escapes(log)) \in Nat /\ used \in Nat
    BY FS_CardinalityType, LockGateAssumption DEF IInv, Budgeted, TypeInv, TypeOK
  <2>2. Cardinality(Escapes(log)) =< used
    BY <2>1 DEF IInv, Budgeted
  <2> QED BY <2>2 DEF Escapes, EscapesAreBudgeted
<1> QED BY <1>1, Invariance, PTL

(* The cursor always stands just past a zone whose clean is on record, or  *)
(* was until a hatch grant of that day or later replaced it.               *)
THEOREM CursorStaysWithLog == Spec => []CursorFollowsLog
<1>1. IInv => CursorFollowsLog
  BY DEF IInv, CursorPlaced, CursorIn, CursorFollowsLog
<1> QED BY <1>1, Invariance, PTL

(* A lock that is about to close on an accept has all of it on disk.       *)
THEOREM AcceptsAreOnRecord == Spec => []AcceptedIsOnRecord
<1>1. IInv => AcceptedIsOnRecord
  BY DEF IInv, Progress, Logged, Advanced, Spent, AcceptedIsOnRecord
<1> QED BY <1>1, Invariance, PTL

(* No step adds a clear for a token that the store holds as consumed.      *)
THEOREM TokensAreSingleUse == Spec => TokenIsSingleUse
<1> DEFINE Fresh == \A e \in log' \ log :
             e.kind = "clear" =>
               LET rec == store[TokenKey(e.token)]
               IN ~(rec # NoValue /\ rec.gen = e.token.gen /\ rec.consumed)
<1>1. ASSUME IInv, [Next]_vars PROVE [Fresh]_vars
  <2>1. CASE AppendClear
    <3>1. /\ wpc = "logread" /\ wsnap \subseteq log
          /\ log' = wsnap \cup {ClearOf(wev, wday)}
      BY <1>1, <2>1 DEF AppendClear, WorkerAt, IInv, Snapshots
    <3>2. /\ ClearOf(wev, wday).token = wev.token
          /\ ~store[TokenKey(wev.token)].consumed
      BY <1>1, <3>1 DEF ClearOf, IInv, Progress, Open
    <3> QED BY <3>1, <3>2
  <2>2. CASE AppendEscape
    <3> DEFINE esc == [kind |-> "escape", bucket |-> uday, slot |-> lock.slot]
    <3>1. usnap \subseteq log /\ log' = usnap \cup {esc} /\ esc.kind # "clear"
      BY <1>1, <2>2 DEF AppendEscape, IInv, Snapshots
    <3> QED BY <3>1
  <2>3. CASE log' = log
    BY <2>3
  <2>4. AppendClear \/ AppendEscape \/ log' = log
    BY <1>1 DEF Next, GateRun, Worker, Hatch, Fault, Environment, vars,
       clockVars, fileVars, gateVars, workVars, hatchVars, netVars, TimerTick,
       CheckDue, XServerMissing, MintChallenge, PublishChallenge, TakeTurn,
       PollTick, FetchEvidence, Verify, ReadLog, AdvanceCursor,
       ConsumeChallenge, PublishConsumed, DrainEvidence, WorkerFails,
       CloseOnAccept, RecordEscape, EscapeReadLog, CallbackError, ExitProcess,
       Crash, Clock, ToggleMarker, CreateKey, NetDown, NetUp, PhoneRead,
       PhoneUpload
  <2> QED BY <2>1, <2>2, <2>3, <2>4
<1> QED BY <1>1, Invariance, PTL DEF Spec, TokenIsSingleUse

(* No step mints a token for a slot that the log holds as satisfied.       *)
THEOREM TokensAreForDueSlots == Spec => TokenOnlyForDueSlot
<1>1. ASSUME IInv, [Next]_vars
      PROVE  [mints' # mints => lock.slot \notin ClearedSlots(day)]_vars
  <2>1. CASE MintChallenge
    BY <1>1, <2>1 DEF MintChallenge, IInv, StillDue
  <2>2. MintChallenge \/ mints' = mints
    BY <1>1 DEF Next, GateRun, Worker, Hatch, Fault, Environment, vars,
       clockVars, fileVars, gateVars, workVars, hatchVars, netVars, TimerTick,
       CheckDue, XServerMissing, PublishChallenge, TakeTurn, PollTick,
       FetchEvidence, Verify, ReadLog, AppendClear, AdvanceCursor,
       ConsumeChallenge, PublishConsumed, DrainEvidence, WorkerFails,
       CloseOnAccept, RecordEscape, EscapeReadLog, AppendEscape,
       CallbackError, ExitProcess, Crash, Clock, ToggleMarker, CreateKey,
       NetDown, NetUp, PhoneRead, PhoneUpload
  <2> QED BY <2>1, <2>2
<1> QED BY <1>1, Invariance, PTL DEF Spec, TokenOnlyForDueSlot

-----------------------------------------------------------------------------
(* The ledger of tokens.                                                   *)

(* The steps that write what the ledger is made of.                        *)
LEMMA LedgerSteps ==
  ASSUME [Next]_vars
  PROVE  \/ MintChallenge \/ ConsumeChallenge \/ AppendClear \/ AppendEscape
         \/ PublishChallenge \/ PublishConsumed
         \/ UNCHANGED <<store, mints, log, chalNode>>
BY DEF Next, GateRun, Worker, Hatch, Fault, Environment, vars, clockVars,
       fileVars, gateVars, workVars, hatchVars, netVars, TimerTick, CheckDue,
       XServerMissing, TakeTurn, PollTick, FetchEvidence, Verify, ReadLog,
       AdvanceCursor, DrainEvidence, WorkerFails, CloseOnAccept, RecordEscape,
       EscapeReadLog, CallbackError, ExitProcess, Crash, Clock, ToggleMarker,
       CreateKey, NetDown, NetUp, PhoneRead, PhoneUpload

(* What stands for the ledger's variables.                                 *)
Issued       == {t \in Token : t.gen =< mints[TokenKey(t)]}
OpenTokens   == {t \in Token : Stored(t) /\ ~RecordOf(t).consumed}
SpentTokens  == {t \in Token : Stored(t) /\ RecordOf(t).consumed}
BackedTokens == {t \in Token : BackedIn(log, t)}

LEMMA KeyOfToken ==
  ASSUME NEW t \in Token
  PROVE  TokenKey(t) \in Keys /\ t = [day |-> t.day, slot |-> t.slot, gen |-> t.gen]
BY DEF Token, TokenKey, Keys

LEMMA TokenOfKey ==
  ASSUME NEW t \in Token, NEW u \in Token, TokenKey(t) = TokenKey(u), t.gen = u.gen
  PROVE  t = u
BY DEF Token, TokenKey

(* Whatever is spent or announced as consumed is backed.                   *)
LEMMA SettledIsBacked ==
  ASSUME IInv
  PROVE  /\ SpentTokens \subseteq BackedTokens
         /\ chalNode # NoValue /\ chalNode.consumed =>
              chalNode.token \in BackedTokens
<1>1. ASSUME NEW t \in SpentTokens
      PROVE  t \in BackedTokens
  <2> DEFINE k == TokenKey(t)
  <2>1. t \in Token /\ k \in Keys
    BY KeyOfToken DEF SpentTokens
  <2>2. store[k] # NoValue /\ store[k].consumed /\ store[k].gen = t.gen
    BY DEF SpentTokens, Stored, RecordOf
  <2>3. TokenAt(k) = t
    BY <2>1, <2>2, KeyOfToken DEF TokenAt, TokenKey
  <2> QED BY <2>1, <2>2, <2>3 DEF IInv, AllBacked, StoreBackedIn, BackedTokens
<1>2. ASSUME chalNode # NoValue, chalNode.consumed
      PROVE  chalNode.token \in BackedTokens
  <2>1. chalNode.token \in Token
    BY <1>2 DEF IInv, TypeInv, TypeOK, Challenge
  <2> QED BY <1>2, <2>1 DEF IInv, AllBacked, NodeBackedIn, BackedTokens
<1> QED BY <1>1, <1>2

(* A write of the log that leaves the store and the node alone keeps what  *)
(* they have settled.                                                      *)
LEMMA SettledAfter ==
  ASSUME IInv', UNCHANGED <<store, chalNode>>
  PROVE  /\ SpentTokens \subseteq BackedTokens'
         /\ chalNode # NoValue /\ chalNode.consumed =>
              chalNode.token \in BackedTokens'
<1>1. ASSUME NEW t \in SpentTokens
      PROVE  t \in BackedTokens'
  <2> DEFINE k == TokenKey(t)
  <2>1. t \in Token /\ k \in Keys
    BY KeyOfToken DEF SpentTokens
  <2>2. store[k] # NoValue /\ store[k].consumed /\ store[k].gen = t.gen
    BY DEF SpentTokens, Stored, RecordOf
  <2>3. TokenAt(k) = t /\ TokenAt(k)' = TokenAt(k)
    BY <2>1, <2>2, KeyOfToken DEF TokenAt, TokenKey
  <2> QED BY <2>1, <2>2, <2>3 DEF IInv, AllBacked, StoreBackedIn, BackedTokens
<1>2. ASSUME chalNode # NoValue, chalNode.consumed
      PROVE  chalNode.token \in BackedTokens'
  <2>1. chalNode.token \in Token
    BY <1>2 DEF IInv, TypeInv, TypeOK, Challenge
  <2> QED BY <1>2, <2>1 DEF IInv, AllBacked, NodeBackedIn, BackedTokens
<1> QED BY <1>1, <1>2

(* A mint writes a token that is new, open and not spent.                  *)
LEMMA MintIssues ==
  ASSUME IInv, MintChallenge, ~UNCHANGED <<store, mints>>
  PROVE  \E t \in Token :
           /\ t \notin Issued /\ Issued' = Issued \cup {t}
           /\ t \in OpenTokens' /\ OpenTokens' \subseteq OpenTokens \cup {t}
           /\ SpentTokens' \subseteq SpentTokens
<1> DEFINE k == <<day, lock.slot>>
           r == [gen |-> mints[k] + 1, consumed |-> FALSE, signed |-> hmacKey]
           t == [day |-> day, slot |-> lock.slot, gen |-> mints[k] + 1]
<1>1. /\ mints[k] < MaxMints /\ PutChallenge(k, r)
      /\ mints' = [mints EXCEPT ![k] = mints[k] + 1]
  BY DEF MintChallenge
<1>2. pc = "waitx" /\ lock \in Lock /\ k \in Keys /\ day \in Days
  BY DEF MintChallenge, IInv, TypeInv, TypeOK, Shape, Lock, Keys
<1>3. mints[k] \in Nat /\ mints[k] + 1 \in 1 .. MaxMints
      /\ mints \in [Keys -> 0 .. MaxMints]
  BY <1>1, <1>2, LockGateAssumption DEF IInv, TypeInv, TypeOK
<1>4. r \in Record /\ r.gen = mints[k] + 1 /\ ~r.consumed
  BY <1>3 DEF IInv, TypeInv, TypeOK, Record
<1>5. t \in Token /\ TokenKey(t) = k /\ t.gen = mints[k] + 1
  BY <1>2, <1>3 DEF Token, Lock, TokenKey
<1> HIDE DEF k, r, t
<1>6. /\ store'[k] # NoValue /\ store'[k].gen = r.gen
      /\ store'[k].consumed = r.consumed
      /\ \A x \in Keys : x # k /\ store'[x] # NoValue =>
           /\ store[x] # NoValue
           /\ store'[x].gen = store[x].gen
           /\ store'[x].consumed = store[x].consumed
  BY <1>1, <1>2, <1>4, PutChallengeStore DEF IInv, TypeInv
<1>7. ASSUME NEW u \in Token
      PROVE  /\ u \in Issued' <=> u \in Issued \/ u = t
             /\ u \in OpenTokens' => u \in OpenTokens \/ u = t
             /\ u \in SpentTokens' => u \in SpentTokens
  <2>1. TokenKey(u) \in Keys /\ u.gen \in Nat
    BY KeyOfToken DEF Token
  <2>2. CASE TokenKey(u) = k
    <3>1. u.gen = mints[k] + 1 <=> u = t
      BY <1>5, <2>2, TokenOfKey
    <3>2. mints'[k] = mints[k] + 1
      BY <1>1, <1>2, <1>3
    <3>3. u.gen =< mints'[k] <=> u.gen =< mints[k] \/ u.gen = mints[k] + 1
      BY <1>3, <2>1, <3>2
    <3> QED BY <1>4, <1>6, <2>2, <3>1, <3>3
            DEF Issued, OpenTokens, SpentTokens, Stored, RecordOf
  <2>3. CASE TokenKey(u) # k
    <3>1. mints'[TokenKey(u)] = mints[TokenKey(u)] /\ u # t
      BY <1>1, <1>3, <1>5, <2>1, <2>3
    <3> QED BY <1>6, <2>1, <2>3, <3>1
            DEF Issued, OpenTokens, SpentTokens, Stored, RecordOf
  <2> QED BY <2>2, <2>3
<1>8. t \notin Issued
  BY <1>3, <1>5 DEF Issued
<1>9. t \in OpenTokens'
  BY <1>4, <1>5, <1>6 DEF OpenTokens, Stored, RecordOf
<1>10. Issued' = Issued \cup {t} /\ OpenTokens' \subseteq OpenTokens \cup {t}
       /\ SpentTokens' \subseteq SpentTokens
  <2>1. Issued \subseteq Token /\ Issued' \subseteq Token /\ OpenTokens' \subseteq Token
        /\ SpentTokens' \subseteq Token
    BY DEF Issued, OpenTokens, SpentTokens, Token, Days, SlotHours
  <2> QED BY <1>5, <1>7, <2>1
<1> QED BY <1>5, <1>8, <1>9, <1>10

(* Consuming a challenge spends its token, and opens none.                 *)
LEMMA ConsumeSpends ==
  ASSUME IInv, ConsumeChallenge
  PROVE  /\ wev.token \in OpenTokens /\ wev.token \in BackedTokens
         /\ wev.token \in SpentTokens'
         /\ SpentTokens' \subseteq SpentTokens \cup {wev.token}
         /\ OpenTokens' \subseteq OpenTokens \ {wev.token}
<1> DEFINE t == wev.token
           k == TokenKey(t)
<1>1. wpc = "advanced"
  BY DEF ConsumeChallenge, WorkerAt
<1>2. t \in Token /\ k \in Keys
  BY <1>1, HeldPayload DEF IInv
<1>3. store[k] # NoValue /\ ~store[k].consumed /\ store[k].gen = t.gen
  BY <1>1 DEF IInv, Progress, Open
<1>4. BackedIn(log, t)
  BY <1>1 DEF IInv, AllBacked, Logged
<1>5. /\ store'[k] # NoValue /\ store'[k].consumed /\ store'[k].gen = t.gen
      /\ \A x \in Keys : x # k /\ store'[x] # NoValue =>
           /\ store[x] # NoValue
           /\ store'[x].gen = store[x].gen
           /\ store'[x].consumed = store[x].consumed
  BY ConsumeStep DEF IInv
<1> HIDE DEF t, k
<1>6. TokenKey(t) = k
  BY DEF k
<1>7. t \in OpenTokens /\ t \in BackedTokens /\ t \in SpentTokens'
  BY <1>2, <1>3, <1>4, <1>5, <1>6 DEF OpenTokens, SpentTokens, BackedTokens, Stored, RecordOf
<1>8. ASSUME NEW u \in Token
      PROVE  /\ u \in SpentTokens' => u \in SpentTokens \/ u = t
             /\ u \in OpenTokens' => u \in OpenTokens /\ u # t
  <2>1. TokenKey(u) \in Keys
    BY KeyOfToken
  <2>2. CASE TokenKey(u) = k
    <3>1. u.gen = t.gen => u = t
      BY <1>2, <1>6, <2>2, TokenOfKey
    <3> QED BY <1>5, <2>2, <3>1 DEF OpenTokens, SpentTokens, Stored, RecordOf
  <2>3. CASE TokenKey(u) # k
    BY <1>5, <1>6, <2>1, <2>3 DEF OpenTokens, SpentTokens, Stored, RecordOf
  <2> QED BY <2>2, <2>3
<1>9. OpenTokens' \subseteq Token /\ SpentTokens' \subseteq Token
  BY DEF OpenTokens, SpentTokens, Token, Days, SlotHours
<1>10. SpentTokens' \subseteq SpentTokens \cup {t} /\ OpenTokens' \subseteq OpenTokens \ {t}
  BY <1>8, <1>9
<1> QED BY <1>7, <1>10 DEF t

(* The worker's write of the log credits its open token, and loses no      *)
(* token that is settled.                                                  *)
LEMMA AppendCredits ==
  ASSUME IInv, IInv', AppendClear
  PROVE  /\ wev.token \in OpenTokens
         /\ wev.token \in BackedTokens'
         /\ BackedTokens' \subseteq BackedTokens \cup {wev.token}
<1> DEFINE t == wev.token
           c == ClearOf(wev, wday)
<1>1. wpc = "logread" /\ log' = wsnap \cup {c} /\ wsnap \subseteq log
  BY DEF AppendClear, WorkerAt, IInv, Snapshots
<1>2. t \in Token
  BY <1>1, HeldPayload DEF IInv
<1>3. c.kind = "clear" /\ c.token = t
  BY DEF ClearOf
<1>4. t \in OpenTokens
  BY <1>1, <1>2 DEF IInv, Progress, Open, OpenTokens, Stored, RecordOf
<1> HIDE DEF t, c
<1>5. t \in BackedTokens'
  BY <1>1, <1>2, <1>3 DEF BackedTokens, BackedIn
<1>6. ASSUME NEW u \in BackedTokens'
      PROVE  u \in BackedTokens \/ u = t
  BY <1>1, <1>3, <1>6 DEF BackedTokens, BackedIn
<1> QED BY <1>4, <1>5, <1>6 DEF t

(* The hatch's write excuses the day it files under and those before.      *)
LEMMA EscapeExcuses ==
  ASSUME IInv, AppendEscape
  PROVE  LET past == {t \in Token : t.day =< uday}
         IN /\ \E t \in Token : t.day = uday
            /\ past \subseteq BackedTokens'
            /\ BackedTokens' \subseteq BackedTokens \cup past
<1> DEFINE e == [kind |-> "escape", bucket |-> uday, slot |-> lock.slot]
<1>1. upc = "read" /\ log' = usnap \cup {e} /\ usnap \subseteq log
  BY DEF AppendEscape, IInv, Snapshots
<1>2. uday \in Days /\ lock.slot \in SlotHours
  BY <1>1 DEF IInv, TypeInv, TypeOK, Shape, Lock
<1>3. \E t \in Token : t.day = uday
  <2>1. 1 \in 1 .. MaxMints
    BY LockGateAssumption
  <2>2. [day |-> uday, slot |-> lock.slot, gen |-> 1] \in Token
    BY <1>2, <2>1 DEF Token
  <2> QED BY <2>2
<1>4. e.kind = "escape" /\ e.bucket = uday
  OBVIOUS
<1> HIDE DEF e
<1>5. \A t \in Token : t.day \in Int /\ uday \in Int
  BY <1>2 DEF Token, Days
<1>6. ASSUME NEW t \in Token
      PROVE  /\ t.day =< uday => t \in BackedTokens'
             /\ t \in BackedTokens' => t \in BackedTokens \/ t.day =< uday
  BY <1>1, <1>4, <1>5 DEF BackedTokens, BackedIn
<1>7. BackedTokens' \subseteq Token
  BY DEF BackedTokens, Token, Days, SlotHours
<1> QED BY <1>3, <1>6, <1>7

(* What the gate announces is a token of the store, as it stands there.    *)
LEMMA PublishAnnounces ==
  ASSUME IInv, PublishChallenge \/ PublishConsumed, chalNode' # chalNode
  PROVE  \E t \in Token :
           /\ t \in OpenTokens \cup SpentTokens
           /\ chalNode' = [token |-> t, consumed |-> t \in SpentTokens]
<1>1. CASE PublishChallenge
  <2> DEFINE t == TokenAt(LockKey)
             k == LockKey
  <2>1. /\ chalNode' = [token |-> t, consumed |-> store[k].consumed]
        /\ pc = "publish" /\ store[k] # NoValue /\ lock \in Lock
    BY <1>1 DEF PublishChallenge, IInv, TypeInv, TypeOK, Shape
  <2>2. k \in Keys /\ k = <<lock.day, lock.slot>> /\ store[k] \in Record
    BY <2>1 DEF LockKey, Lock, Keys, IInv, TypeInv, TypeOK
  <2>3. t \in Token /\ TokenKey(t) = k /\ t.gen = store[k].gen
    BY <2>1, <2>2 DEF TokenAt, Token, TokenKey, Record, Lock
  <2>4. store[k].consumed \in BOOLEAN
    BY <2>2 DEF Record
  <2> HIDE DEF t, k
  <2>5. /\ t \in OpenTokens <=> ~store[k].consumed
        /\ t \in SpentTokens <=> store[k].consumed
    BY <2>1, <2>3 DEF OpenTokens, SpentTokens, Stored, RecordOf
  <2>6. store[k].consumed = (t \in SpentTokens)
    BY <2>4, <2>5
  <2> QED BY <2>1, <2>3, <2>5, <2>6
<1>2. CASE PublishConsumed
  <2>1. chalNode' = [token |-> wev.token, consumed |-> TRUE] /\ wpc = "consumed"
    BY <1>2 DEF PublishConsumed, WorkerAt
  <2>2. wev.token \in Token
    BY <2>1, HeldPayload DEF IInv
  <2>3. wev.token \in SpentTokens
    BY <2>1, <2>2 DEF IInv, Progress, Spent, Advanced, Logged, SpentTokens, Stored, RecordOf
  <2>4. TRUE = (wev.token \in SpentTokens)
    BY <2>3
  <2> QED BY <2>1, <2>2, <2>3, <2>4
<1> QED BY <1>1, <1>2

(* The PC's files, threads and nodes implement the ledger of tokens, for   *)
(* any number of days, slots, zones, faults and key changes: a mint issues *)
(* a token, consume_challenge spends it, the two threads' writes of the    *)
(* log credit and excuse, publish_challenge announces, and every other     *)
(* step leaves the ledger alone.                                           *)
THEOREM PcImplementsLedger == Spec => ImplementsLedger
<1>1. Init => Ledger!Init
  <2> SUFFICES ASSUME Init PROVE Ledger!Init
    OBVIOUS
  <2>1. \A t \in Token : /\ ~(t.gen =< mints[TokenKey(t)])
                         /\ store[TokenKey(t)] = NoValue
                         /\ ~BackedIn(log, t)
    BY KeyOfToken DEF Init, Token, BackedIn
  <2> QED BY <2>1 DEF Init, Ledger!Init, Stored, RecordOf
<1>2. ASSUME IInv, IInv', [Next]_vars
      PROVE  [Ledger!Next]_Ledger!vars
  <2> USE DEF Ledger!Next, Ledger!vars
  <2>1. CASE MintChallenge
    <3>1. UNCHANGED <<log, chalNode>>
      BY <2>1 DEF MintChallenge, netVars
    <3>2. CASE UNCHANGED <<store, mints>>
      BY <3>1, <3>2 DEF Stored, RecordOf, BackedIn
    <3>3. CASE ~UNCHANGED <<store, mints>>
      <4>1. PICK t \in Token :
              /\ t \notin Issued /\ Issued' = Issued \cup {t}
              /\ t \in OpenTokens' /\ OpenTokens' \subseteq OpenTokens \cup {t}
              /\ SpentTokens' \subseteq SpentTokens
        BY <1>2, <2>1, <3>3, MintIssues
      <4>2. BackedTokens' = BackedTokens
        BY <3>1 DEF BackedTokens, BackedIn
      <4>3. Ledger!Issue(t)
        BY <3>1, <4>1, <4>2 DEF Ledger!Issue, Issued, OpenTokens, SpentTokens, BackedTokens
      <4> QED BY <4>3
    <3> QED BY <3>2, <3>3
  <2>2. CASE ConsumeChallenge
    <3>1. UNCHANGED <<log, mints, chalNode>>
      BY <2>2 DEF ConsumeChallenge, netVars
    <3>2. Issued' = Issued /\ BackedTokens' = BackedTokens
      BY <3>1 DEF Issued, BackedTokens, BackedIn
    <3>3. wev.token \in Token
      BY <1>2, <2>2, ConsumeSpends DEF OpenTokens
    <3>4. Ledger!Spend(wev.token)
      BY <1>2, <2>2, <3>1, <3>2, ConsumeSpends, SettledIsBacked
      DEF Ledger!Spend, Ledger!Backs, Ledger!Settled, Ledger!Told, Issued, OpenTokens,
          SpentTokens, BackedTokens
    <3> QED BY <3>3, <3>4
  <2>3. CASE AppendClear
    <3>1. UNCHANGED <<store, mints, chalNode>>
      BY <2>3 DEF AppendClear, netVars
    <3>2. Issued' = Issued /\ OpenTokens' = OpenTokens /\ SpentTokens' = SpentTokens
      BY <3>1 DEF Issued, OpenTokens, SpentTokens, Stored, RecordOf
    <3>3. /\ SpentTokens \subseteq BackedTokens'
          /\ chalNode # NoValue /\ chalNode.consumed => chalNode.token \in BackedTokens'
      BY <1>2, <3>1, <3>2, SettledAfter
    <3>4. wev.token \in Token
      BY <1>2, <2>3, AppendCredits DEF OpenTokens
    <3>5. Ledger!Credit(wev.token)
      BY <1>2, <2>3, <3>1, <3>2, <3>3, AppendCredits
      DEF Ledger!Credit, Ledger!Backs, Ledger!Settled, Ledger!Told, Issued, OpenTokens,
          SpentTokens, BackedTokens
    <3> QED BY <3>4, <3>5
  <2>4. CASE AppendEscape
    <3>1. UNCHANGED <<store, mints, chalNode>>
      BY <2>4 DEF AppendEscape, netVars
    <3>2. Issued' = Issued /\ OpenTokens' = OpenTokens /\ SpentTokens' = SpentTokens
      BY <3>1 DEF Issued, OpenTokens, SpentTokens, Stored, RecordOf
    <3>3. /\ SpentTokens \subseteq BackedTokens'
          /\ chalNode # NoValue /\ chalNode.consumed => chalNode.token \in BackedTokens'
      BY <1>2, <3>1, <3>2, SettledAfter
    <3>4. {t \in Token : [x \in Token |-> x.day][t] =< uday} = {t \in Token : t.day =< uday}
      OBVIOUS
    <3>5. Ledger!Excuse(uday)
      BY <1>2, <2>4, <3>1, <3>2, <3>3, <3>4, EscapeExcuses
      DEF Ledger!Excuse, Ledger!Backs, Ledger!Settled, Ledger!Told, Issued, OpenTokens,
          SpentTokens, BackedTokens
    <3>6. uday \in {[x \in Token |-> x.day][t] : t \in Token}
      BY <1>2, <2>4, EscapeExcuses
    <3> QED BY <3>5, <3>6
  <2>5. CASE PublishChallenge \/ PublishConsumed
    <3>1. UNCHANGED <<store, mints, log>>
      BY <2>5 DEF PublishChallenge, PublishConsumed, fileVars
    <3>2. /\ Issued' = Issued /\ OpenTokens' = OpenTokens /\ SpentTokens' = SpentTokens
          /\ BackedTokens' = BackedTokens
      BY <3>1 DEF Issued, OpenTokens, SpentTokens, BackedTokens, Stored, RecordOf, BackedIn
    <3>3. CASE chalNode' = chalNode
      BY <3>2, <3>3 DEF Issued, OpenTokens, SpentTokens, BackedTokens
    <3>4. CASE chalNode' # chalNode
      <4>1. PICK t \in Token : /\ t \in OpenTokens \cup SpentTokens
                               /\ chalNode' = [token |-> t, consumed |-> t \in SpentTokens]
        BY <1>2, <2>5, <3>4, PublishAnnounces
      <4>2. Ledger!Announce(t)
        BY <3>2, <4>1 DEF Ledger!Announce, Issued, OpenTokens, SpentTokens, BackedTokens
      <4> QED BY <4>2
    <3> QED BY <3>3, <3>4
  <2>6. CASE UNCHANGED <<store, mints, log, chalNode>>
    BY <2>6 DEF Stored, RecordOf, BackedIn
  <2> QED BY <1>2, <2>1, <2>2, <2>3, <2>4, <2>5, <2>6, LedgerSteps
<1> QED BY <1>1, <1>2, Invariance, PTL DEF Spec, ImplementsLedger, Ledger!Spec

-----------------------------------------------------------------------------
(* With the app's guards.                                                  *)

(* The tokens the phone has are of days that have begun; with its guards   *)
(* it captures for the token's day, and the worker files under that day.   *)
PhoneDated ==
  /\ held # NoValue => held.token.day =< day
  /\ evNode # NoValue =>
       /\ evNode.token.day =< day
       /\ AppGuards => evNode.captured = evNode.token.day
  /\ wpc \notin {"idle", "polling"} => (AppGuards => wday = wev.token.day)

(* Clears are for their token's slot, with the app's guards for its day,   *)
(* and signed where there has always been a key.                           *)
ClearsFit ==
  /\ KeyAtStart => hmacKey
  /\ \A e \in log : e.kind = "clear" =>
       /\ e.slot = e.token.slot
       /\ AppGuards => e.bucket = e.token.day
       /\ KeyAtStart => e.signed
  /\ wpc = "logread" /\ KeyAtStart => wsig

(* A grant for another slot of the lock's day is on record.                *)
OtherGrant ==
  \E e \in log : e.kind = "escape" /\ e.bucket = lock.day /\ e.slot # lock.slot

(* From its minting on, the lock's challenge is consumed by the accept     *)
(* that closes it only, or was consumed before that grant.                 *)
Answerable ==
  AppGuards /\ KeyAtStart /\ pc \in {"publish", "turn", "armed"} /\ wpc \notin Spent =>
    ~store[LockKey].consumed \/ OtherGrant

AppInv == PhoneDated /\ ClearsFit /\ Answerable

LEMMA AppInvInit == Init => AppInv
BY DEF Init, AppInv, PhoneDated, ClearsFit, Answerable

(* The steps that write what the phone and the worker hold.                *)
LEMMA PhoneSteps ==
  ASSUME [Next]_vars
  PROVE  \/ FetchEvidence \/ Verify \/ PhoneRead \/ PhoneUpload \/ Clock
         \/ wpc' \in {"idle", "polling"} /\ UNCHANGED <<day, held>> /\ evNode' = evNode
         \/ /\ UNCHANGED <<day, held, wev, wday>> /\ evNode' \in {evNode, NoValue}
            /\ wpc' \notin {"idle", "polling"} => wpc \notin {"idle", "polling"}
BY DEF Next, GateRun, Worker, Hatch, Fault, Environment, vars, clockVars, gateVars,
       workVars, hatchVars, netVars, TimerTick, CheckDue, XServerMissing,
       MintChallenge, PublishChallenge, TakeTurn, PollTick, ReadLog, AppendClear,
       AdvanceCursor, ConsumeChallenge, PublishConsumed, DrainEvidence, WorkerFails,
       CloseOnAccept, RecordEscape, EscapeReadLog, AppendEscape, CallbackError,
       ExitProcess, Crash, ToggleMarker, CreateKey, NetDown, NetUp, WorkerAt, WorkerDone

LEMMA PhoneDatedNext ==
  ASSUME IInv, PhoneDated, [Next]_vars
  PROVE  PhoneDated'
<1> USE DEF PhoneDated
<1>1. CASE FetchEvidence
  <2>1. UNCHANGED <<day, held, evNode>>
    BY <1>1 DEF FetchEvidence, clockVars, netVars
  <2>2. CASE WorkerDone
    BY <2>1, <2>2 DEF WorkerDone
  <2>3. CASE /\ evNode # NoValue /\ wev' = evNode /\ wday' = CapturedDay(evNode)
    <3>1. evNode \in Payload /\ day \in Days
      BY <2>3 DEF IInv, TypeInv, TypeOK
    <3>2. evNode.token.day \in Int /\ day \in Int
      BY <3>1 DEF Payload, Token, Days
    <3>3. AppGuards => CapturedDay(evNode) = evNode.token.day
      BY <2>3, <3>2 DEF CapturedDay
    <3> QED BY <2>1, <2>3, <3>3
  <2> QED BY <1>1, <2>2, <2>3 DEF FetchEvidence
<1>2. CASE Verify
  BY <1>2 DEF Verify, WorkerAt, WorkerDone, clockVars, netVars
<1>3. CASE PhoneRead
  BY <1>3 DEF PhoneRead, clockVars, workVars, IInv, Dated
<1>4. CASE PhoneUpload
  <2>1. UNCHANGED <<day, held, wpc, wev, wday>>
    BY <1>4 DEF PhoneUpload, clockVars, workVars
  <2>2. evNode'.token = held.token /\ held # NoValue
    BY <1>4 DEF PhoneUpload
  <2>3. AppGuards => evNode'.captured = evNode'.token.day
    BY <1>4 DEF PhoneUpload
  <2> QED BY <2>1, <2>2, <2>3
<1>5. CASE Clock
  <2>1. UNCHANGED <<held, evNode, wpc, wev, wday>>
    BY <1>5 DEF Clock, workVars, netVars
  <2>2. day \in Nat /\ day' \in Nat /\ day =< day'
    BY <1>5, LockGateAssumption DEF Clock, IInv, TypeInv, TypeOK, Days
  <2>3. /\ held # NoValue => held.token.day \in Int
        /\ evNode # NoValue => evNode.token.day \in Int
    BY DEF IInv, TypeInv, TypeOK, Challenge, Payload, Token, Days
  <2> QED BY <2>1, <2>2, <2>3
<1>6. CASE wpc' \in {"idle", "polling"} /\ UNCHANGED <<day, held>> /\ evNode' = evNode
  BY <1>6
<1>7. CASE /\ UNCHANGED <<day, held, wev, wday>> /\ evNode' \in {evNode, NoValue}
           /\ wpc' \notin {"idle", "polling"} => wpc \notin {"idle", "polling"}
  BY <1>7
<1> QED BY <1>1, <1>2, <1>3, <1>4, <1>5, <1>6, <1>7, PhoneSteps

(* The key is never removed.                                               *)
LEMMA KeyStays ==
  ASSUME [Next]_vars, hmacKey
  PROVE  hmacKey'
BY DEF Next, GateRun, Worker, Hatch, Fault, Environment, vars, clockVars,
       fileVars, gateVars, workVars, hatchVars, netVars, TimerTick, CheckDue,
       XServerMissing, MintChallenge, PublishChallenge, TakeTurn, PollTick,
       FetchEvidence, Verify, ReadLog, AppendClear, AdvanceCursor,
       ConsumeChallenge, PublishConsumed, DrainEvidence, WorkerFails,
       CloseOnAccept, RecordEscape, EscapeReadLog, AppendEscape, CallbackError,
       ExitProcess, Crash, Clock, ToggleMarker, CreateKey, NetDown, NetUp,
       PhoneRead, PhoneUpload

LEMMA ClearsFitNext ==
  ASSUME IInv, PhoneDated, ClearsFit, [Next]_vars
  PROVE  ClearsFit'
<1>1. KeyAtStart => hmacKey'
  BY KeyStays DEF ClearsFit
<1>w. wpc' = "logread" /\ KeyAtStart => wsig'
  BY SignatureSteps DEF ClearsFit
<1>2. CASE AppendClear
  <2> DEFINE c == ClearOf(wev, wday)
  <2>1. wpc = "logread" /\ log' = wsnap \cup {c} /\ wsnap \subseteq log
    BY <1>2 DEF AppendClear, WorkerAt, IInv, Snapshots
  <2>2. /\ c.slot = c.token.slot
        /\ AppGuards => c.bucket = c.token.day
        /\ KeyAtStart => c.signed
    BY <2>1 DEF ClearOf, PhoneDated, ClearsFit
  <2> HIDE DEF c
  <2> QED BY <1>1, <1>w, <2>1, <2>2 DEF ClearsFit
<1>3. CASE AppendEscape
  <2> DEFINE e == [kind |-> "escape", bucket |-> uday, slot |-> lock.slot]
  <2>1. log' = usnap \cup {e} /\ usnap \subseteq log /\ e.kind # "clear"
    BY <1>3 DEF AppendEscape, IInv, Snapshots
  <2> HIDE DEF e
  <2> QED BY <1>1, <1>w, <2>1 DEF ClearsFit
<1>4. CASE log' = log
  BY <1>1, <1>w, <1>4 DEF ClearsFit
<1>5. AppendClear \/ AppendEscape \/ log' = log
  BY LedgerSteps DEF MintChallenge, ConsumeChallenge, PublishChallenge, PublishConsumed,
                     fileVars
<1> QED BY <1>2, <1>3, <1>4, <1>5

(* A challenge that is found when its slot is still due is open, or a      *)
(* grant for another slot has overwritten the clear it was consumed for.   *)
LEMMA FoundChallenge ==
  ASSUME IInv, ClearsFit, AppGuards, KeyAtStart, pc = "waitx",
         NEW k, k = <<day, lock.slot>>, store[k] # NoValue, store[k].consumed
  PROVE  \E e \in log : e.kind = "escape" /\ e.bucket = day /\ e.slot # lock.slot
<1>1. k \in Keys /\ TokenAt(k).day = day /\ TokenAt(k).slot = lock.slot
  BY DEF IInv, TypeInv, TypeOK, Shape, Lock, Keys, TokenAt
<1>2. lock.slot \notin ClearedSlots(day)
  BY DEF IInv, StillDue
<1>3. PICK e \in log : \/ e.kind = "clear" /\ e.token = TokenAt(k)
                       \/ e.kind = "escape" /\ e.bucket >= TokenAt(k).day
  BY <1>1 DEF IInv, AllBacked, StoreBackedIn, BackedIn
<1>4. CASE e.kind = "clear" /\ e.token = TokenAt(k)
  <2>1. e.slot = lock.slot /\ e.bucket = day /\ e.signed
    BY <1>1, <1>4 DEF ClearsFit
  <2> QED BY <1>2, <2>1 DEF ClearedSlots, IsValidClear
<1>5. CASE e.kind = "escape" /\ e.bucket >= TokenAt(k).day
  <2>1. e.bucket =< day
    BY DEF IInv, Earned, EarnedIn
  <2>2. e.bucket \in Int /\ day \in Int
    BY DEF IInv, TypeInv, TypeOK, Entry, ClearEntry, EscapeEntry, Days
  <2>3. e.bucket = day
    BY <1>1, <1>5, <2>1, <2>2
  <2>4. e.slot # lock.slot
    BY <1>2, <1>5, <2>3 DEF ClearedSlots
  <2> QED BY <1>5, <2>3, <2>4
<1> QED BY <1>3, <1>4, <1>5

(* The steps that touch the lock, the store, the log, or begin or end an   *)
(* accept.                                                                 *)
Live == {"publish", "turn", "armed"}

LEMMA AnswerSteps ==
  ASSUME TypeInv, [Next]_vars, pc' \in Live, wpc' \notin Spent
  PROVE  \/ MintChallenge
         \/ AppendClear
         \/ /\ pc \in Live /\ wpc \notin Spent
            /\ UNCHANGED <<store, log>>
            /\ lock'.day = lock.day /\ lock'.slot = lock.slot
<1>1. pc \in Live => lock \in Lock
  BY DEF Live, TypeInv, TypeOK, Shape
<1>2. PublishChallenge \/ ~PublishChallenge
  OBVIOUS
<1>3. CASE PublishChallenge
  BY <1>1, <1>3 DEF PublishChallenge, fileVars, workVars, Live, Lock, Spent, Advanced,
                    Logged
<1>4. CASE ~PublishChallenge
  BY <1>4 DEF Live, Spent, Advanced, Logged, Next, GateRun, Worker, Hatch, Fault,
       Environment, vars, clockVars, fileVars, gateVars, workVars, hatchVars, netVars,
       TimerTick, CheckDue, XServerMissing, TakeTurn, PollTick, FetchEvidence, Verify,
       ReadLog, AdvanceCursor, ConsumeChallenge, PublishConsumed, DrainEvidence,
       WorkerFails, CloseOnAccept, RecordEscape, EscapeReadLog, AppendEscape,
       CallbackError, ExitProcess, Crash, Clock, ToggleMarker, CreateKey, NetDown,
       NetUp, PhoneRead, PhoneUpload, Stop, WorkerAt, WorkerDone
<1> QED BY <1>3, <1>4

LEMMA AnswerableNext ==
  ASSUME IInv, IInv', ClearsFit, Answerable, [Next]_vars
  PROVE  Answerable'
<1> SUFFICES ASSUME AppGuards, KeyAtStart, pc' \in Live, wpc' \notin Spent
             PROVE  ~store'[LockKey'].consumed \/ OtherGrant'
  BY DEF Answerable, Live
<1>1. CASE MintChallenge
  <2>1. /\ pc = "waitx" /\ lock'.day = day /\ LockKey' = <<day, lock.slot>>
        /\ lock'.slot = lock.slot /\ log' = log /\ pc' = "publish"
    BY <1>1, MintStep DEF IInv, TypeInv, TypeOK, Shape, Lock, MintChallenge
  <2>2. LockKey' \in Keys /\ store'[LockKey'] # NoValue
    BY <2>1 DEF IInv, TypeInv, TypeOK, Shape, Lock, LockKey, Keys
  <2>3. \/ store[LockKey'] # NoValue /\ store'[LockKey'].consumed = store[LockKey'].consumed
        \/ ~store'[LockKey'].consumed
    BY <1>1, <2>2, MintStep DEF IInv
  <2>4. CASE store[LockKey'] # NoValue /\ store[LockKey'].consumed
    <3>1. \E e \in log : e.kind = "escape" /\ e.bucket = day /\ e.slot # lock.slot
      BY <2>1, <2>4, FoundChallenge
    <3> QED BY <2>1, <3>1 DEF OtherGrant
  <2> QED BY <2>3, <2>4
<1>2. CASE AppendClear
  <2>1. /\ wpc = "logread" /\ wsnap \subseteq log'
        /\ UNCHANGED <<store, lock, pc>>
    BY <1>2 DEF AppendClear, WorkerAt, gateVars
  <2>2. pc = "armed" /\ log \subseteq wsnap
    BY <2>1 DEF IInv, TypeInv, Shape, Live, Snapshots
  <2>3. ~store[LockKey].consumed \/ OtherGrant
    BY <2>1, <2>2 DEF Answerable, Spent, Advanced, Logged
  <2>4. OtherGrant => OtherGrant'
    BY <2>1, <2>2 DEF OtherGrant
  <2> QED BY <2>1, <2>3, <2>4 DEF LockKey
<1>3. CASE /\ pc \in Live /\ wpc \notin Spent
           /\ UNCHANGED <<store, log>>
           /\ lock'.day = lock.day /\ lock'.slot = lock.slot
  BY <1>3 DEF Answerable, Live, LockKey, OtherGrant
<1> QED BY <1>1, <1>2, <1>3, AnswerSteps DEF IInv

(* The two invariants together are inductive.                              *)
LEMMA AppInvNext == IInv /\ IInv' /\ AppInv /\ [Next]_vars => AppInv'
  BY PhoneDatedNext, ClearsFitNext, AnswerableNext DEF AppInv

LEMMA AppInvariance == Spec => []AppInv
  BY AppInvInit, AppInvNext, Invariance, PTL DEF Spec

(* With the app's guards no photo credits another day than the one its     *)
(* challenge was minted for, however late it is uploaded and processed,    *)
(* although verify_evidence never compares the two.                        *)
THEOREM PhotosCreditTheirOwnDay == Spec => [](AppGuards => CreditsOwnDay)
<1>1. AppInv => (AppGuards => CreditsOwnDay)
  BY DEF AppInv, ClearsFit, CreditsOwnDay
<1> QED BY <1>1, AppInvariance, PTL

(* With the app's guards, and a key that was there from the start, a lock  *)
(* that is up can still be answered by a photo, unless a grant for another *)
(* slot of its day has overwritten the clear its challenge went to.        *)
THEOREM OpenLocksAreAnswerable ==
  Spec => [](AppGuards /\ KeyAtStart => OpenLockIsAnswerable)
<1>1. AppInv => (AppGuards /\ KeyAtStart => OpenLockIsAnswerable)
  BY DEF AppInv, Answerable, OtherGrant, OpenLockIsAnswerable, Spent, Advanced, Logged
<1> QED BY <1>1, AppInvariance, PTL

=============================================================================
