------------------------------ MODULE ZoneCycle ------------------------------
(***************************************************************************)
(* The rotation of zones while its list is being edited: which zone the    *)
(* gate assigns (_zone_cursor.py's current_zone), what an accepted photo   *)
(* does to that (_accept.py, advance), and the edits of the list that the  *)
(* `zones' command and the phone make meanwhile (_cli_zones.py,            *)
(* _zone_list.py).  LockGate has the whole gate, over lists that stay as   *)
(* they are; ZoneHistory has the exchange of the edits, without the gate.  *)
(*                                                                         *)
(* There is one slot a day, so a day stands for the key of its slot, and   *)
(* the challenge of a day for its token.                                   *)
(***************************************************************************)
EXTENDS Naturals, Sequences

CONSTANTS
  MaxDay,    \* days the model runs for                          (bound)
  MaxEdits,  \* edits of the rotation                            (bound)
  MaxFaults, \* kills and failed file calls                      (bound)
  Zones,     \* zone names
  Lists,     \* the rotations that the edits choose from
  NoValue    \* absent: no edit of a day, no challenge, no lock, no payload

ASSUME ZoneCycleAssumption ==
  /\ MaxDay \in Nat \ {0} /\ MaxEdits \in Nat /\ MaxFaults \in Nat
  /\ Lists \subseteq Seq(Zones) \ {<<>>}
  /\ NoValue \notin Lists \cup Zones /\ NoValue \notin 1 .. MaxDay

Days == 1 .. MaxDay

(* A record of the challenge store: the zone assigned when it was minted.  *)
Record  == [zone : Zones, consumed : BOOLEAN]
Payload == [day : Days, zone : Zones]
Lock    == [day : Days, zone : Zones]

VARIABLES
  day,     \* the PC's day, and the phone's
  hist,    \* .zone_list: the list an edit puts in force from a day on
  edits,   \* edits made so far
  cmd,     \* the day the running `zones' command began on, or NoValue
  index,   \* .zone_cursor: the place in the list ...
  last,    \* ... and the day of the last token it moved for
  moved,   \* how often it moved for the token of each day
  store,   \* challenges.json
  log,     \* the clear log: zones cleaned on a day
  excused, \* days with an escape entry
  lock,    \* the lock that is up: its day and the zone on its face
  node,    \* the evidence node
  work,    \* how far the accept of `wev' got
  wev,     \* the payload being accepted
  turn,    \* the zone last assigned, or cleaned and counted, in its list
  faults

listVars   == <<hist, edits, cmd>>
cursorVars == <<index, last, moved, turn>>
gateVars   == <<store, log, excused, lock>>
workVars   == <<node, work, wev>>
vars == <<day, listVars, cursorVars, gateVars, workVars, faults>>

-----------------------------------------------------------------------------
(* zone_list_for_day: the newest edit that took effect by then.            *)
ListFor(d) ==
  hist[CHOOSE e \in 0 .. d :
         hist[e] # NoValue /\ \A f \in (e + 1) .. d : hist[f] = NoValue]

Listed(zone, list) == \E i \in 1 .. Len(list) : list[i] = zone

(* zones.index(zone) + 1, and the zone that a cursor just past it is at.   *)
FirstPlace(zone, list) ==
  CHOOSE i \in 1 .. Len(list) :
    list[i] = zone /\ \A j \in 1 .. (i - 1) : list[j] # zone

ZoneAt(i, list) == list[(i % Len(list)) + 1]

(* Just past the cleaned zone, or one on if it has left the list.          *)
IndexAfter(zone, list) ==
  (IF Listed(zone, list) THEN FirstPlace(zone, list) ELSE index + 1) % Len(list)

CurrentZone == ZoneAt(index, ListFor(day))

Due == excused \cap {day} = {} /\ log[day] = {}

Init ==
  /\ day = 1
  /\ \E l \in Lists : hist = [d \in 0 .. MaxDay |-> IF d = 0 THEN l ELSE NoValue]
  /\ edits = 0 /\ cmd = NoValue
  /\ index = 0 /\ last = NoValue /\ moved = [d \in Days |-> 0]
  /\ store = [d \in Days |-> NoValue]
  /\ log = [d \in Days |-> {}] /\ excused = {} /\ lock = NoValue
  /\ node = NoValue /\ work = "idle" /\ wev = NoValue
  /\ turn = NoValue /\ faults = 0

-----------------------------------------------------------------------------
(* The gate.                                                               *)

(* prepare_slot: the zone on the lock is read now; the challenge has the   *)
(* one that was read when it was minted.  A gate whose lock was closed by  *)
(* a grant ends when the accept under way does, and the next one can start.*)
Arm ==
  /\ lock = NoValue /\ work = "idle" /\ Due
  /\ lock' = [day |-> day, zone |-> CurrentZone]
  /\ \/ /\ store[day] = NoValue
        /\ store' = [store EXCEPT ![day] = [zone |-> CurrentZone, consumed |-> FALSE]]
        /\ turn' = [zone |-> CurrentZone, list |-> ListFor(day), clean |-> FALSE]
     \/ /\ store[day] # NoValue
        /\ UNCHANGED <<store, turn>>
  /\ UNCHANGED <<day, listVars, index, last, moved, log, excused, workVars, faults>>

(* The zones of the phone's own copy of the rotation are offered, for the  *)
(* challenge of the day and while it is not consumed.                      *)
PhoneUpload ==
  /\ store[day] # NoValue /\ ~store[day].consumed
  /\ \E zone \in Zones : node' = [day |-> day, zone |-> zone]
  /\ UNCHANGED <<day, listVars, cursorVars, gateVars, work, wev, faults>>

(* verify_evidence, under the list of the captured day.                    *)
Verifies(ev) == ~store[ev.day].consumed /\ Listed(ev.zone, ListFor(ev.day))

Verify ==
  /\ lock # NoValue /\ work = "idle" /\ node # NoValue
  /\ Verifies(node)
  /\ work' = "verified" /\ wev' = node
  /\ UNCHANGED <<day, listVars, cursorVars, gateVars, node, faults>>

LogWithClear == [log EXCEPT ![wev.day] = @ \cup {wev.zone}]

AppendClear ==
  /\ work = "verified" /\ work' = "logged"
  /\ log' = LogWithClear
  /\ UNCHANGED <<day, listVars, cursorVars, store, excused, lock, node, wev, faults>>

Turned ==
  turn' = [zone |-> wev.zone, list |-> ListFor(wev.day), clean |-> TRUE]

(* Mutants of AdvanceCursor: on by one, whatever zone was cleaned; and     *)
(* without the look at the last key.                                       *)
AdvanceByOne ==
  /\ work = "logged" /\ work' = "advanced"
  /\ \/ last = wev.day /\ UNCHANGED cursorVars
     \/ /\ last # wev.day /\ Turned
        /\ index' = (index + 1) % Len(ListFor(wev.day))
        /\ last' = wev.day
        /\ moved' = [moved EXCEPT ![wev.day] = @ + 1]
  /\ UNCHANGED <<day, listVars, gateVars, node, wev, faults>>

AdvanceAgain ==
  /\ work = "logged" /\ work' = "advanced"
  /\ index' = IndexAfter(wev.zone, ListFor(wev.day))
  /\ last' = wev.day /\ Turned
  /\ moved' = [moved EXCEPT ![wev.day] = @ + 1]
  /\ UNCHANGED <<day, listVars, gateVars, node, wev, faults>>

(* advance, in the list of the captured day as it is by now.               *)
AdvanceCursor ==
  /\ work = "logged" /\ work' = "advanced"
  /\ \/ last = wev.day /\ UNCHANGED cursorVars
     \/ /\ last # wev.day /\ Turned
        /\ index' = IndexAfter(wev.zone, ListFor(wev.day))
        /\ last' = wev.day
        /\ moved' = [moved EXCEPT ![wev.day] = @ + 1]
  /\ UNCHANGED <<day, listVars, gateVars, node, wev, faults>>

(* consume_challenge, the drain of the node, and the lock closes.          *)
Consume ==
  /\ work = "advanced" /\ work' = "idle" /\ wev' = NoValue
  /\ store' = [store EXCEPT ![wev.day].consumed = TRUE]
  /\ node' = NoValue /\ lock' = NoValue
  /\ UNCHANGED <<day, listVars, cursorVars, log, excused, faults>>

(* A grant of the hatch satisfies the slot and leaves the rotation alone.  *)
(* It closes the lock; an accept under way goes on.  Both rewrite the whole*)
(* log: when the append falls between the grant's read and write, or the   *)
(* other way round, the entry that was written first is lost.              *)
Escape ==
  /\ lock # NoValue /\ lock' = NoValue
  /\ \/ excused' = excused \cup {day} /\ UNCHANGED <<log, work>>
     \/ /\ work = "verified" /\ work' = "logged"
        /\ \/ excused' = excused \cup {day} /\ UNCHANGED log
           \/ log' = LogWithClear /\ UNCHANGED excused
  /\ UNCHANGED <<day, listVars, cursorVars, store, node, wev, faults>>

(* A file call of the accept fails, or the gate is killed.                 *)
Fault ==
  /\ lock # NoValue \/ work # "idle"
  /\ faults < MaxFaults /\ faults' = faults + 1
  /\ work' = "idle" /\ wev' = NoValue
  /\ \/ work # "idle" /\ UNCHANGED lock
     \/ lock' = NoValue
  /\ UNCHANGED <<day, listVars, cursorVars, store, log, excused, node>>

-----------------------------------------------------------------------------
(* The zones command.                                                      *)

CmdStart ==
  /\ cmd = NoValue /\ cmd' = day
  /\ UNCHANGED <<day, hist, edits, cursorVars, gateVars, workVars, faults>>

Edit(d, list) ==
  /\ edits < MaxEdits /\ edits' = edits + 1
  /\ hist' = [hist EXCEPT ![d] = list]

(* _pull: an edit of the phone's, of a day that is not past -- or of one   *)
(* that had no edit (ZoneHistory's Merge).                                 *)
CmdPull ==
  /\ cmd # NoValue
  /\ \E d \in Days, list \in Lists : (d >= cmd \/ hist[d] = NoValue) /\ Edit(d, list)
  /\ UNCHANGED <<day, cmd, cursorVars, gateVars, workVars, faults>>

(* Mutant of CmdEdit: the last zone can be removed.                        *)
CmdEditEmpty ==
  /\ cmd # NoValue /\ cmd' = NoValue
  /\ \E d \in Days, list \in Lists \cup {<<>>} : d >= cmd /\ Edit(d, list)
  /\ UNCHANGED <<day, cursorVars, gateVars, workVars, faults>>

(* --set, --add or --remove, from the day the command began on or later.   *)
CmdEdit ==
  /\ cmd # NoValue /\ cmd' = NoValue
  /\ \E d \in Days, list \in Lists : d >= cmd /\ Edit(d, list)
  /\ UNCHANGED <<day, cursorVars, gateVars, workVars, faults>>

CmdEnd ==
  /\ cmd # NoValue /\ cmd' = NoValue
  /\ UNCHANGED <<day, hist, edits, cursorVars, gateVars, workVars, faults>>

Midnight ==
  /\ day < MaxDay /\ day' = day + 1
  /\ UNCHANGED <<listVars, cursorVars, gateVars, workVars, faults>>

-----------------------------------------------------------------------------
Next ==
  \/ Arm \/ PhoneUpload \/ Verify \/ AppendClear \/ AdvanceCursor \/ Consume
  \/ Escape \/ Fault
  \/ CmdStart \/ CmdPull \/ CmdEdit \/ CmdEnd
  \/ Midnight

Spec == Init /\ [][Next]_vars

-----------------------------------------------------------------------------
(* Properties.                                                             *)

(* The variables keep their types.                                         *)
TypeOK ==
  /\ day \in Days
  /\ hist \in [0 .. MaxDay -> Lists \cup {NoValue}] /\ hist[0] # NoValue
  /\ edits \in 0 .. MaxEdits /\ cmd \in Days \cup {NoValue}
  /\ index \in Nat /\ last \in Days \cup {NoValue}
  /\ moved \in [Days -> Nat]
  /\ store \in [Days -> Record \cup {NoValue}]
  /\ log \in [Days -> SUBSET Zones] /\ excused \subseteq Days
  /\ lock \in Lock \cup {NoValue}
  /\ node \in Payload \cup {NoValue} /\ wev \in Payload \cup {NoValue}
  /\ work \in {"idle", "verified", "logged", "advanced"}
  /\ turn \in [zone : Zones, list : Lists, clean : BOOLEAN] \cup {NoValue}
  /\ faults \in 0 .. MaxFaults

(* The zone whose turn it is, by the docs: the assigned zone stays until   *)
(* a photo was accepted, then the one that follows the cleaned zone comes. *)
TurnOf(t) ==
  IF t.clean THEN ZoneAt(FirstPlace(t.zone, t.list), t.list) ELSE t.zone

(* docs/DOCS-zone-rotation.md, "rotating to the next only on a verified    *)
(* clear": while the list stays the same, a new challenge is for the zone  *)
(* whose turn it is, after whatever grants, kills, half-done accepts,      *)
(* retries and cleans of other zones came in between.                      *)
RotationFollowsCleans ==
  [][\A d \in Days :
       /\ store[d] = NoValue /\ store'[d] # NoValue /\ turn # NoValue
       /\ turn.list = ListFor(d) /\ Listed(turn.zone, turn.list)
       => store'[d].zone = TurnOf(turn)]_vars

(* _zone_cursor.py, "advanced exactly once per accepted clear": a token    *)
(* moves the rotation at most once, also where an edit took its zone away  *)
(* in the middle of the accept and the move is a plain step on.            *)
MovesOncePerToken == \A d \in Days : moved[d] =< 1

-----------------------------------------------------------------------------
(* Statements of the repository that the code does not keep.               *)

(* DOCS-zone-rotation.md, "one zone assigned at a time": the lock and the  *)
(* challenge that the phone shows name the same zone.                      *)
OneZoneAtATime == lock # NoValue => store[lock.day].zone = lock.zone

(* DOCS-marker-protocol.md: the zone is checked "as recorded in the        *)
(* challenge, not a freshly-read current zone".  A photo of the recorded   *)
(* zone is good as long as its token is.                                   *)
RecordedZoneIsAccepted ==
  node # NoValue /\ ~store[node.day].consumed /\ node.zone = store[node.day].zone
    => Verifies(node)

(* _zone_cursor.py: "the thing you just cleaned is the last to come round  *)
(* again".                                                                 *)
JustCleanedComesLast ==
  [][\A d \in Days :
       /\ store[d] = NoValue /\ store'[d] # NoValue
       /\ turn # NoValue /\ turn.clean /\ Len(ListFor(d)) > 1
       => store'[d].zone # turn.zone]_vars

(* _zone_list.py: an edit must not "retroactively change which zone an     *)
(* already-judged past slot was checked against".                          *)
JudgedDaysKeepTheirList ==
  [][CmdEdit => \A d \in 1 .. (day - 1) : ListFor(d)' = ListFor(d)]_vars

(* README.md: "the same list keeps cycling".  When every assigned zone of  *)
(* as many days as the list is long was cleaned, the whole list was.       *)
SameListKeepsCycling ==
  \A d \in Days :
    LET list == hist[0]
        days == d .. (d + Len(list) - 1)
    IN  /\ edits = 0 /\ days \subseteq Days
        /\ \A e \in days : store[e] # NoValue /\ log[e] = {store[e].zone}
        => \A i \in 1 .. Len(list) : \E e \in days : log[e] = {list[i]}
=============================================================================
