--------------------------- MODULE ZoneCycleProofs ---------------------------
(***************************************************************************)
(* The safety properties of ZoneCycle, for any number of days, edits and   *)
(* faults and any set of rotations to choose from.                         *)
(***************************************************************************)
EXTENDS ZoneCycle, WellFoundedInduction, TLAPS

-----------------------------------------------------------------------------
(* Operators of the model.                                                 *)

(* A non-empty set of natural numbers has a least element.                 *)
LEMMA LeastNumber ==
  ASSUME NEW S, S \subseteq Nat, S # {}
  PROVE  \E i \in S : \A j \in S : i =< j
<1> DEFINE R == {p \in Nat \X Nat : p[1] < p[2]}
<1>1. IsWellFoundedOn(R, Nat)
  BY NatLessThanWellFounded DEF OpToRel
<1>2. PICK m \in S : \A k \in S : ~(<<k, m>> \in R)
  <2> HIDE DEF R
  <2> QED BY <1>1, WFMin
<1>3. ASSUME NEW j \in S PROVE m =< j
  <2>1. j \in Nat /\ m \in Nat
    OBVIOUS
  <2>2. <<j, m>> \in Nat \X Nat /\ (j < m => <<j, m>> \in R)
    BY <2>1
  <2> QED BY <1>2, <2>1, <2>2
<1> QED BY <1>3

(* A list of zones, and the remainders the cursor is taken by.             *)
LEMMA ListFacts ==
  ASSUME NEW list \in Lists
  PROVE  /\ Len(list) \in Nat \ {0}
         /\ \A i \in 1 .. Len(list) : list[i] \in Zones
<1>1. list \in Seq(Zones) /\ list # <<>>
  BY ZoneCycleAssumption
<1> QED BY <1>1

LEMMA Remainders ==
  ASSUME NEW n \in Nat \ {0}, NEW i \in Nat
  PROVE  i % n \in 0 .. (n - 1) /\ (i % n) % n = i % n
<1>1. i % n \in 0 .. (n - 1)
  OBVIOUS
<1>2. \A j \in 0 .. (n - 1) : j % n = j
  OBVIOUS
<1> QED BY <1>1, <1>2

(* zone_list_for_day finds an edit for every day, since the first list is  *)
(* in force from the beginning.                                            *)
LEMMA ListForType ==
  ASSUME TypeOK, NEW d \in Days
  PROVE  ListFor(d) \in Lists
<1> DEFINE Edited == {e \in 0 .. d : hist[e] # NoValue}
           Ago    == {d - e : e \in Edited}
<1>1. d \in Nat /\ d =< MaxDay /\ MaxDay \in Nat
  BY ZoneCycleAssumption DEF Days
<1>2. Ago \subseteq Nat /\ Ago # {}
  BY <1>1 DEF TypeOK
<1>3. PICK a \in Ago : \A b \in Ago : a =< b
  <2> HIDE DEF Ago
  <2> QED BY <1>2, LeastNumber
<1>4. PICK e \in Edited : a = d - e
  BY <1>3
<1>5. \A f \in (e + 1) .. d : hist[f] = NoValue
  <2> SUFFICES ASSUME NEW f \in (e + 1) .. d, hist[f] # NoValue
               PROVE  FALSE
    OBVIOUS
  <2>1. f \in Edited /\ d - f < d - e
    BY <1>1, <1>4
  <2> QED BY <1>1, <1>3, <1>4, <2>1
<1>6. \E g \in 0 .. d : hist[g] # NoValue /\ \A f \in (g + 1) .. d : hist[f] = NoValue
  BY <1>4, <1>5
<1>7. \A g \in 0 .. d : hist[g] # NoValue => hist[g] \in Lists
  BY <1>1 DEF TypeOK
<1> QED BY <1>6, <1>7 DEF ListFor

(* list.index finds the first place of a listed zone.                      *)
LEMMA FirstPlaceType ==
  ASSUME NEW list \in Lists, NEW zone, Listed(zone, list)
  PROVE  FirstPlace(zone, list) \in 1 .. Len(list)
<1> DEFINE Places == {i \in 1 .. Len(list) : list[i] = zone}
<1>1. Len(list) \in Nat
  BY ListFacts
<1>2. Places \subseteq Nat /\ Places # {}
  BY <1>1 DEF Listed
<1>3. PICK i \in Places : \A j \in Places : i =< j
  <2> HIDE DEF Places
  <2> QED BY <1>2, LeastNumber
<1>4. \A j \in 1 .. (i - 1) : list[j] # zone
  BY <1>1, <1>3
<1> QED BY <1>3, <1>4 DEF FirstPlace

LEMMA ZoneAtType ==
  ASSUME NEW list \in Lists, NEW i \in Nat
  PROVE  ZoneAt(i, list) \in Zones
<1>1. i % Len(list) \in 0 .. (Len(list) - 1)
  BY ListFacts, Remainders
<1>2. (i % Len(list)) + 1 \in 1 .. Len(list)
  BY <1>1, ListFacts
<1> QED BY <1>2, ListFacts DEF ZoneAt

LEMMA IndexAfterFacts ==
  ASSUME NEW list \in Lists, NEW zone, index \in Nat
  PROVE  /\ IndexAfter(zone, list) \in Nat
         /\ Listed(zone, list) =>
              ZoneAt(IndexAfter(zone, list), list) = ZoneAt(FirstPlace(zone, list), list)
<1>1. Len(list) \in Nat \ {0}
  BY ListFacts
<1>2. CASE Listed(zone, list)
  <2>1. FirstPlace(zone, list) \in Nat
    BY <1>1, <1>2, FirstPlaceType
  <2>2. IndexAfter(zone, list) = FirstPlace(zone, list) % Len(list)
    BY <1>2 DEF IndexAfter
  <2>3. (FirstPlace(zone, list) % Len(list)) \in 0 .. (Len(list) - 1)
    BY <1>1, <2>1, Remainders
  <2>4. (FirstPlace(zone, list) % Len(list)) % Len(list) = FirstPlace(zone, list) % Len(list)
    BY <1>1, <2>1, Remainders
  <2>5. IndexAfter(zone, list) \in Nat
    BY <1>1, <2>2, <2>3
  <2>6. IndexAfter(zone, list) % Len(list) = FirstPlace(zone, list) % Len(list)
    BY <2>2, <2>4
  <2> QED BY <2>5, <2>6 DEF ZoneAt
<1>3. CASE ~Listed(zone, list)
  BY <1>1, <1>3 DEF IndexAfter
<1> QED BY <1>2, <1>3

-----------------------------------------------------------------------------
(* The inductive invariant.                                                *)

(* The lock's and the payload's challenges are there, and an accept has    *)
(* its payload.                                                            *)
Shape ==
  /\ work # "idle" => wev # NoValue
  /\ node # NoValue => store[node.day] # NoValue
  /\ wev # NoValue => store[wev.day] # NoValue

TypeInv == TypeOK /\ Shape

(* The days run one way: a payload is for a day that has begun, a newer    *)
(* one replaces an older, and the cursor never moved for a later day than  *)
(* that of the payload on the node or in the accept.                       *)
OneWay ==
  /\ node # NoValue => node.day =< day /\ (last # NoValue => last =< node.day)
  /\ wev # NoValue => wev.day =< day /\ (last # NoValue => last =< wev.day)
  /\ node # NoValue /\ wev # NoValue => wev.day =< node.day
  /\ last # NoValue => last =< day

(* Each day's token has moved the cursor at most once, and none of a day   *)
(* after the last one has.                                                 *)
MovedOnce ==
  \A d \in Days :
    /\ moved[d] =< 1
    /\ moved[d] > 0 => last # NoValue /\ d =< last

(* The cursor points, in the list that the last turn was taken in, at the  *)
(* zone whose turn it is.                                                  *)
PointsAtTurn ==
  turn # NoValue /\ Listed(turn.zone, turn.list) =>
    ZoneAt(index, turn.list) = TurnOf(turn)

IInv == TypeInv /\ OneWay /\ MovedOnce /\ PointsAtTurn

LEMMA IInvInit == Init => IInv
<1> SUFFICES ASSUME Init PROVE IInv
  OBVIOUS
<1> USE ZoneCycleAssumption DEF Init
<1>1. day \in Days /\ edits \in 0 .. MaxEdits /\ faults \in 0 .. MaxFaults
  BY DEF Days
<1>2. hist \in [0 .. MaxDay -> Lists \cup {NoValue}] /\ hist[0] # NoValue
  OBVIOUS
<1>3. moved \in [Days -> Nat] /\ \A d \in Days : moved[d] = 0
  OBVIOUS
<1>4. TypeOK
  BY <1>1, <1>2, <1>3 DEF TypeOK
<1> QED BY <1>3, <1>4 DEF IInv, TypeInv, Shape, OneWay, MovedOnce, PointsAtTurn

(* The values that the handlers compute.                                   *)
LEMMA Values ==
  ASSUME TypeInv
  PROVE  /\ day \in Days /\ Days \subseteq Nat /\ MaxDay \in Nat
         /\ NoValue \notin Lists
         /\ ListFor(day) \in Lists /\ CurrentZone \in Zones
         /\ node # NoValue => node \in Payload /\ node.day \in Days /\ node.zone \in Zones
         /\ wev # NoValue => /\ wev \in Payload /\ wev.day \in Days /\ wev.zone \in Zones
                             /\ ListFor(wev.day) \in Lists
                             /\ IndexAfter(wev.zone, ListFor(wev.day)) \in Nat
<1>1. TypeOK /\ day \in Days /\ index \in Nat /\ MaxDay \in Nat /\ NoValue \notin Lists
  BY ZoneCycleAssumption DEF TypeInv, TypeOK
<1>2. ListFor(day) \in Lists
  BY <1>1, ListForType
<1>3. CurrentZone \in Zones
  BY <1>1, <1>2, ZoneAtType DEF CurrentZone
<1>4. node # NoValue => node \in Payload /\ node.day \in Days /\ node.zone \in Zones
  BY <1>1 DEF TypeOK, Payload
<1>5. wev # NoValue => wev \in Payload /\ wev.day \in Days /\ wev.zone \in Zones
  BY <1>1 DEF TypeOK, Payload
<1>6. wev # NoValue => ListFor(wev.day) \in Lists
  BY <1>1, <1>5, ListForType
<1>7. wev # NoValue => IndexAfter(wev.zone, ListFor(wev.day)) \in Nat
  BY <1>1, <1>6, IndexAfterFacts
<1> QED BY <1>1, <1>2, <1>3, <1>4, <1>5, <1>6, <1>7 DEF Days

(* Every step keeps the types ...                                          *)
LEMMA TypeInvNext == TypeInv /\ [Next]_vars => TypeInv'
<1> SUFFICES ASSUME TypeInv, [Next]_vars PROVE TypeInv'
  OBVIOUS
<1> USE ZoneCycleAssumption, Values
    DEF vars, listVars, cursorVars, gateVars, workVars
<1>a. TypeOK /\ Shape
  BY DEF TypeInv
<1>1. CASE Arm
  <2> DEFINE rec  == [zone |-> CurrentZone, consumed |-> FALSE]
             turn1 == [zone |-> CurrentZone, list |-> ListFor(day), clean |-> FALSE]
             Turn == [zone : Zones, list : Lists, clean : BOOLEAN]
  <2>1. lock' \in Lock
    BY <1>1 DEF Arm, Lock
  <2>2. rec \in Record /\ turn1 \in Turn
    BY DEF Record
  <2>3. \/ store' = [store EXCEPT ![day] = rec] /\ turn' = turn1
        \/ UNCHANGED <<store, turn>>
    BY <1>1 DEF Arm
  <2>4. store \in [Days -> Record \cup {NoValue}] /\ turn \in Turn \cup {NoValue}
    BY <1>a DEF TypeOK
  <2>5. store' \in [Days -> Record \cup {NoValue}] /\ turn' \in Turn \cup {NoValue}
    <3> HIDE DEF rec, turn1, Turn
    <3> QED BY <2>2, <2>3, <2>4
  <2>6. TypeOK'
    BY <1>1, <1>a, <2>1, <2>5 DEF Arm, TypeOK
  <2>7. Shape'
    BY <1>1, <1>a DEF Arm, Shape, TypeOK
  <2> QED BY <2>6, <2>7 DEF TypeInv
<1>2. CASE PhoneUpload
  <2>1. node' \in Payload /\ node'.day = day
    BY <1>2 DEF PhoneUpload, Payload
  <2>2. TypeOK'
    BY <1>2, <1>a, <2>1 DEF PhoneUpload, TypeOK
  <2>3. Shape'
    BY <1>2, <1>a, <2>1 DEF PhoneUpload, Shape
  <2> QED BY <2>2, <2>3 DEF TypeInv
<1>3. CASE Verify
  BY <1>3, <1>a DEF Verify, TypeInv, TypeOK, Shape
<1>b. work = "verified" => LogWithClear \in [Days -> SUBSET Zones]
  BY <1>a DEF LogWithClear, TypeOK, Shape
<1>4. CASE AppendClear
  <2>1. log' \in [Days -> SUBSET Zones]
    BY <1>4, <1>b DEF AppendClear
  <2> QED BY <1>4, <1>a, <2>1 DEF AppendClear, TypeInv, TypeOK, Shape
<1>5. CASE AdvanceCursor
  <2>1. CASE UNCHANGED cursorVars
    BY <1>5, <1>a, <2>1 DEF AdvanceCursor, TypeInv, TypeOK, Shape
  <2>2. CASE /\ Turned
             /\ index' = IndexAfter(wev.zone, ListFor(wev.day))
             /\ last' = wev.day
             /\ moved' = [moved EXCEPT ![wev.day] = @ + 1]
    <3>1. wev # NoValue
      BY <1>5, <1>a DEF AdvanceCursor, Shape
    <3>2. index' \in Nat /\ last' \in Days /\ moved' \in [Days -> Nat]
      BY <1>a, <2>2, <3>1 DEF TypeOK
    <3>3. turn' \in [zone : Zones, list : Lists, clean : BOOLEAN]
      BY <2>2, <3>1 DEF Turned
    <3> QED BY <1>5, <1>a, <3>2, <3>3 DEF AdvanceCursor, TypeInv, TypeOK, Shape
  <2> QED BY <1>5, <2>1, <2>2 DEF AdvanceCursor
<1>6. CASE Consume
  <2>1. wev # NoValue
    BY <1>6, <1>a DEF Consume, Shape
  <2>2. store[wev.day] \in Record
    BY <1>a, <2>1 DEF TypeOK, Shape
  <2>3. store' \in [Days -> Record \cup {NoValue}]
    BY <1>6, <1>a, <2>1, <2>2 DEF Consume, TypeOK, Record
  <2> QED BY <1>6, <1>a, <2>3 DEF Consume, TypeInv, TypeOK, Shape
<1>7. CASE Escape
  <2>1. log' \in [Days -> SUBSET Zones] /\ excused' \subseteq Days
    BY <1>7, <1>a, <1>b DEF Escape, TypeOK
  <2>2. /\ work' \in {"idle", "verified", "logged", "advanced"}
        /\ work' # "idle" => work # "idle"
    BY <1>7, <1>a DEF Escape, TypeOK
  <2> QED BY <1>7, <1>a, <2>1, <2>2 DEF Escape, TypeInv, TypeOK, Shape
<1>8. CASE Fault
  BY <1>8, <1>a DEF Fault, TypeInv, TypeOK, Shape
<1>9. CASE CmdStart
  BY <1>9, <1>a DEF CmdStart, TypeInv, TypeOK, Shape
<1>10. ASSUME NEW d \in Days, NEW list \in Lists, Edit(d, list)
       PROVE  /\ hist' \in [0 .. MaxDay -> Lists \cup {NoValue}] /\ hist'[0] # NoValue
              /\ edits' \in 0 .. MaxEdits
  BY <1>10, <1>a DEF Edit, TypeOK, Days
<1>11. CASE CmdPull
  BY <1>10, <1>11, <1>a DEF CmdPull, TypeInv, TypeOK, Shape
<1>12. CASE CmdEdit
  BY <1>10, <1>12, <1>a DEF CmdEdit, TypeInv, TypeOK, Shape
<1>13. CASE CmdEnd
  BY <1>13, <1>a DEF CmdEnd, TypeInv, TypeOK, Shape
<1>14. CASE Midnight
  <2>1. day' \in Days
    BY <1>14, <1>a DEF Midnight, Days
  <2> QED BY <1>14, <1>a, <2>1 DEF Midnight, TypeInv, TypeOK, Shape
<1>15. CASE UNCHANGED vars
  BY <1>15, <1>a DEF TypeInv, TypeOK, Shape
<1> QED BY <1>1, <1>2, <1>3, <1>4, <1>5, <1>6, <1>7, <1>8, <1>9, <1>11, <1>12, <1>13, <1>14,
           <1>15 DEF Next

(* ... the one way of the days ...                                         *)
LEMMA OneWayNext ==
  ASSUME TypeInv, OneWay, [Next]_vars
  PROVE  OneWay'
<1> USE DEF OneWay, vars, listVars, cursorVars, gateVars, workVars
<1>a. /\ day \in Nat
      /\ last # NoValue => last \in Nat
      /\ node # NoValue => node.day \in Nat
      /\ wev # NoValue => wev.day \in Nat
  BY Values DEF TypeInv, TypeOK
<1>1. CASE Arm
  BY <1>1 DEF Arm
<1>2. CASE PhoneUpload
  <2>1. node'.day = day /\ UNCHANGED <<day, last, wev>>
    BY <1>2 DEF PhoneUpload
  <2> QED BY <1>a, <2>1
<1>3. CASE Verify
  BY <1>a, <1>3 DEF Verify
<1>4. CASE AppendClear
  BY <1>4 DEF AppendClear
<1>5. CASE AdvanceCursor
  BY <1>a, <1>5 DEF AdvanceCursor, TypeInv, Shape
<1>6. CASE Consume
  BY <1>6 DEF Consume
<1>7. CASE Escape
  BY <1>7 DEF Escape
<1>8. CASE Fault
  BY <1>8 DEF Fault
<1>9. CASE CmdStart \/ CmdPull \/ CmdEdit \/ CmdEnd
  BY <1>9 DEF CmdStart, CmdPull, CmdEdit, CmdEnd
<1>10. CASE Midnight
  BY <1>a, <1>10 DEF Midnight
<1>11. CASE UNCHANGED vars
  BY <1>11
<1> QED BY <1>1, <1>2, <1>3, <1>4, <1>5, <1>6, <1>7, <1>8, <1>9, <1>10, <1>11 DEF Next

(* The cursor is written by AdvanceCursor only, and what it says of the    *)
(* turn by that and the minting of a challenge.                            *)
LEMMA CursorSteps ==
  ASSUME [Next]_vars
  PROVE  Arm \/ AdvanceCursor \/ UNCHANGED cursorVars
BY DEF Next, vars, cursorVars, PhoneUpload, Verify, AppendClear, Consume, Escape, Fault,
       CmdStart, CmdPull, CmdEdit, CmdEnd, Midnight

(* ... the one move of each token ...                                      *)
LEMMA MovedOnceNext ==
  ASSUME TypeInv, OneWay, MovedOnce, [Next]_vars
  PROVE  MovedOnce'
<1>1. CASE AdvanceCursor /\ ~UNCHANGED cursorVars
  <2>1. /\ last # wev.day /\ last' = wev.day /\ wev # NoValue
        /\ moved' = [moved EXCEPT ![wev.day] = @ + 1]
    BY <1>1 DEF AdvanceCursor, TypeInv, Shape
  <2>2. /\ wev.day \in Days /\ Days \subseteq Nat /\ moved \in [Days -> Nat]
        /\ last # NoValue => last \in Nat
        /\ NoValue \notin Days
    BY <2>1, Values, ZoneCycleAssumption DEF TypeInv, TypeOK, Days
  <2>3. last # NoValue => last < wev.day
    <3>1. last # NoValue => last =< wev.day
      BY <2>1 DEF OneWay
    <3>2. wev.day \in Nat
      BY <2>2
    <3> QED BY <2>1, <2>2, <3>1, <3>2
  <2>4. moved[wev.day] = 0
    <3>1. moved[wev.day] \in Nat /\ wev.day \in Nat
      BY <2>2
    <3>2. moved[wev.day] > 0 => last # NoValue /\ wev.day =< last
      BY <2>2 DEF MovedOnce
    <3> QED BY <2>2, <2>3, <3>1, <3>2
  <2>5. \A d \in Days : moved'[d] = IF d = wev.day THEN 1 ELSE moved[d]
    BY <2>1, <2>2, <2>4
  <2>6. ASSUME NEW d \in Days
        PROVE  moved'[d] =< 1 /\ (moved'[d] > 0 => last' # NoValue /\ d =< last')
    <3>1. CASE d = wev.day
      BY <2>1, <2>2, <2>5, <3>1
    <3>2. CASE d # wev.day
      <4>1. moved'[d] = moved[d] /\ last' = wev.day /\ d \in Nat /\ wev.day \in Nat
        BY <2>1, <2>2, <2>5, <3>2
      <4>2. moved[d] =< 1 /\ (moved[d] > 0 => last # NoValue /\ d =< last)
        BY DEF MovedOnce
      <4> QED BY <2>2, <2>3, <4>1, <4>2
    <3> QED BY <3>1, <3>2
  <2> QED BY <2>6 DEF MovedOnce
<1>2. CASE Arm
  BY <1>2 DEF Arm, MovedOnce
<1>3. CASE UNCHANGED cursorVars
  BY <1>3 DEF cursorVars, MovedOnce
<1> QED BY <1>1, <1>2, <1>3, CursorSteps

(* ... and where the cursor points.                                        *)
LEMMA PointsAtTurnNext ==
  ASSUME TypeInv, PointsAtTurn, [Next]_vars
  PROVE  PointsAtTurn'
<1>1. CASE Arm
  <2>1. CASE UNCHANGED turn
    BY <1>1, <2>1 DEF Arm, PointsAtTurn, ZoneAt, TurnOf, Listed, FirstPlace
  <2>2. CASE turn' = [zone |-> CurrentZone, list |-> ListFor(day), clean |-> FALSE]
    <3>1. TurnOf(turn') = CurrentZone /\ turn'.list = ListFor(day) /\ index' = index
      BY <1>1, <2>2 DEF Arm, TurnOf
    <3> QED BY <3>1 DEF PointsAtTurn, CurrentZone
  <2> QED BY <1>1, <2>1, <2>2 DEF Arm
<1>2. CASE AdvanceCursor /\ ~UNCHANGED cursorVars
  <2>1. /\ turn' = [zone |-> wev.zone, list |-> ListFor(wev.day), clean |-> TRUE]
        /\ index' = IndexAfter(wev.zone, ListFor(wev.day)) /\ wev # NoValue
    BY <1>2 DEF AdvanceCursor, Turned, TypeInv, Shape
  <2>2. ListFor(wev.day) \in Lists /\ index \in Nat
    BY <2>1, Values DEF TypeInv, TypeOK
  <2>3. TurnOf(turn') = ZoneAt(FirstPlace(wev.zone, ListFor(wev.day)), ListFor(wev.day))
    BY <2>1 DEF TurnOf
  <2>4. Listed(wev.zone, ListFor(wev.day)) =>
          ZoneAt(index', ListFor(wev.day)) = TurnOf(turn')
    BY <2>1, <2>2, <2>3, IndexAfterFacts
  <2> QED BY <2>1, <2>4 DEF PointsAtTurn
<1>3. CASE UNCHANGED cursorVars
  BY <1>3 DEF cursorVars, PointsAtTurn, ZoneAt, TurnOf, Listed, FirstPlace
<1> QED BY <1>1, <1>2, <1>3, CursorSteps

LEMMA IInvNext == IInv /\ [Next]_vars => IInv'
  BY TypeInvNext, OneWayNext, MovedOnceNext, PointsAtTurnNext DEF IInv

(* The inductive invariant holds in every run.                             *)
THEOREM Invariance == Spec => []IInv
  BY IInvInit, IInvNext, PTL DEF Spec

-----------------------------------------------------------------------------
(* The properties.                                                         *)

(* The variables keep their types: in particular every day has a list in   *)
(* force, and the cursor is always at a zone of it.                        *)
THEOREM TypeCorrect == Spec => []TypeOK
<1>1. IInv => TypeOK
  BY DEF IInv, TypeInv
<1> QED BY <1>1, Invariance, PTL

(* A token moves the rotation at most once, however often its accept is    *)
(* started over and whatever edit of the list comes in between             *)
(* (_zone_cursor.py).                                                      *)
THEOREM TokensMoveItOnce == Spec => []MovesOncePerToken
<1>1. IInv => MovesOncePerToken
  BY DEF IInv, MovedOnce, MovesOncePerToken
<1> QED BY <1>1, Invariance, PTL

(* While the list stays the same, the next challenge is for the zone whose *)
(* turn it is (docs/DOCS-zone-rotation.md), for lists of any length, also  *)
(* with repeated zones.                                                    *)
THEOREM RotationKeepsItsTurn == Spec => RotationFollowsCleans
<1> DEFINE Follows ==
      \A d \in Days :
        /\ store[d] = NoValue /\ store'[d] # NoValue /\ turn # NoValue
        /\ turn.list = ListFor(d) /\ Listed(turn.zone, turn.list)
        => store'[d].zone = TurnOf(turn)
<1>1. ASSUME IInv, [Next]_vars
      PROVE  [Follows]_vars
  <2> SUFFICES ASSUME NEW d \in Days,
                      store[d] = NoValue, store'[d] # NoValue, turn # NoValue,
                      turn.list = ListFor(d), Listed(turn.zone, turn.list)
               PROVE  store'[d].zone = TurnOf(turn)
    OBVIOUS
  <2>1. store \in [Days -> Record \cup {NoValue}] /\ day \in Days
    BY <1>1 DEF IInv, TypeInv, TypeOK
  <2>2. CASE Arm
    <3>1. d = day /\ store'[d].zone = CurrentZone
      BY <2>1, <2>2 DEF Arm
    <3>2. CurrentZone = ZoneAt(index, turn.list)
      BY <3>1 DEF CurrentZone
    <3> QED BY <1>1, <3>1, <3>2 DEF IInv, PointsAtTurn
  <2>3. CASE Consume
    <3>1. wev # NoValue /\ wev.day \in Days /\ store[wev.day] # NoValue
      BY <1>1, <2>3, Values DEF Consume, IInv, TypeInv, Shape
    <3>2. store'[d] = store[d]
      BY <2>1, <2>3, <3>1 DEF Consume
    <3> QED BY <3>2
  <2>4. Arm \/ Consume \/ store' = store
    BY <1>1 DEF Next, vars, gateVars, PhoneUpload, Verify, AppendClear, AdvanceCursor,
                Escape, Fault, CmdStart, CmdPull, CmdEdit, CmdEnd, Midnight
  <2> QED BY <2>2, <2>3, <2>4
<1> QED BY <1>1, Invariance, PTL DEF Spec, RotationFollowsCleans
=============================================================================
