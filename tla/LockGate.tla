------------------------------ MODULE LockGate ------------------------------
(***************************************************************************)
(* The PC side of home-guard: `home_guard gate' (home_guard/_cli_gate.py), *)
(* the lock it arms (_lock.py), the poller thread that turns an uploaded   *)
(* photo into credit (_poller.py, _accept.py), the escape hatch            *)
(* (_escape_hatch.py, _view.py) and the files and RTDB nodes they share.   *)
(*                                                                         *)
(* Two threads of one process write the files: the Tk thread (which arms,  *)
(* grants the hatch and closes the lock) and the poller's one worker.      *)
(* Handlers are split where they touch a file or the network, so that the  *)
(* other thread, a crash, the phone or the clock can come in between.      *)
(***************************************************************************)
EXTENDS Slots, FiniteSets, Sequences

CONSTANTS
  MaxDay,       \* days the model runs for                (bound)
  MaxMints,     \* tokens minted for one day and slot     (bound)
  MaxFaults,    \* crashes, outages and failed file calls (bound)
  HatchBudget,  \* uses the hatch's rolling windows leave over these days
  FreeDays,     \* days booked in the shared free-day pool
  Zones,        \* zone names
  Rotation,     \* Rotation[d]: the zone list in force on day d
  PhotoKinds,   \* {"good"} or {"good", "bad"}: what a payload's photos can be
  AppGuards,    \* TRUE: the phone applies upload_queue.dart's guards
  KeyAtStart,   \* the shared HMAC key exists from the beginning
  NoValue       \* absent: no record, no payload, no key

Days  == 1 .. MaxDay
Keys  == Days \X SlotHours
Token == [day : Days, slot : SlotHours, gen : 1 .. MaxMints]

(* A challenge store record; its day and slot are the key it is filed at.  *)
Record == [gen : 1 .. MaxMints, consumed : BOOLEAN, signed : BOOLEAN]

(* The challenge node: the published copy of a record.                     *)
Challenge == [token : Token, consumed : BOOLEAN]

(* The evidence node.  day and slot are copied from the challenge with the *)
(* token, so the token stands for all three.                               *)
Payload == [token : Token, zone : Zones, captured : Days, photos : PhotoKinds]

(* Log entries.  No reader tells the order or the number of equal entries  *)
(* of a day apart when it decides what is cleared, so the log is a set.    *)
ClearEntry  == [kind : {"clear"}, bucket : Days, slot : SlotHours,
                zone : Zones, token : Token, signed : BOOLEAN]
EscapeEntry == [kind : {"escape"}, bucket : Days, slot : SlotHours]
Entry == ClearEntry \cup EscapeEntry

(* What one run enforces.                                                  *)
Lock == [slot : SlotHours, day : Days, published : BOOLEAN]

ASSUME LockGateAssumption ==
  /\ MaxDay \in Nat \ {0} /\ MaxMints \in Nat \ {0}
  /\ MaxFaults \in Nat /\ HatchBudget \in Nat
  /\ FreeDays \subseteq Days
  /\ Rotation \in [Days -> Seq(Zones)]
  /\ \A d \in Days : Len(Rotation[d]) > 0
  /\ PhotoKinds \subseteq {"good", "bad"} /\ "good" \in PhotoKinds
  /\ AppGuards \in BOOLEAN /\ KeyAtStart \in BOOLEAN
  /\ NoValue \notin Record \cup Challenge \cup Payload \cup Lock \cup Keys \cup Days

VARIABLES
  day, hour,   \* the PC's local clock
  marker,      \* the disarm marker file exists
  hmacKey,     \* the shared HMAC key file exists
  store,       \* challenges.json: key -> Record or NoValue
  mints,       \* how many tokens were minted for each key
  log,         \* the clear log
  cursor,      \* the zone cursor: index and the last key it advanced for
  used,        \* hatch uses recorded in its history
  pc,          \* the gate process and its Tk thread
  lock,        \* what this run enforces: slot, day, published
  wpc,         \* the poller's worker thread
  wev,         \* the payload it works on
  wday,        \* the captured day it files the payload under
  wsnap,       \* the log as the worker read it to append to it
  wsig,        \* whether the entry it is about to append is signed
  upc,         \* the Tk thread inside grant_escape
  uday,        \* the day grant_escape read from the clock
  usnap,       \* the log as grant_escape read it to append to it
  online,      \* the PC reaches the RTDB
  chalNode,    \* RTDB challenge node
  evNode,      \* RTDB evidence node
  held,        \* the challenge the phone is answering
  faults       \* faults so far

clockVars == <<day, hour>>
fileVars  == <<marker, hmacKey, store, mints, log, cursor, used>>
gateVars  == <<pc, lock>>
workVars  == <<wpc, wev, wday, wsnap, wsig>>
hatchVars == <<upc, uday, usnap>>
netVars   == <<online, chalNode, evNode, held>>
vars == <<clockVars, fileVars, gateVars, workVars, hatchVars, netVars, faults>>

-----------------------------------------------------------------------------
(* What the files say.                                                     *)

(* load_challenges: once a key exists, a record without a valid signature  *)
(* is dropped.                                                             *)
Loaded(k) ==
  IF store[k] # NoValue /\ (hmacKey => store[k].signed)
    THEN store[k] ELSE NoValue

(* put_challenge: load every record, set one, sign and save them all.  A   *)
(* record that load dropped is gone from the file.                         *)
PutChallenge(k, r) ==
  store' = [x \in Keys |->
              IF x = k THEN [r EXCEPT !.signed = hmacKey]
              ELSE IF Loaded(x) = NoValue THEN NoValue
              ELSE [Loaded(x) EXCEPT !.signed = hmacKey]]

TokenKey(t) == <<t.day, t.slot>>

TokenAt(k) == [day |-> k[1], slot |-> k[2], gen |-> store[k].gen]

IsValidClear(e) == e.signed \/ ~hmacKey

ClearedSlots(d) ==
  {e.slot : e \in {x \in log : /\ x.bucket = d
                               /\ x.kind = "clear" => IsValidClear(x)}}

DueSlots ==
  IF day \in FreeDays THEN {} ELSE MissingSlots(hour, ClearedSlots(day))

InRotation(zone, d) == \E i \in 1 .. Len(Rotation[d]) : Rotation[d][i] = zone

(* Mutant of Verifies: a consumed record is not refused.                   *)
VerifiesConsumed(ev, captured) ==
  LET rec == Loaded(TokenKey(ev.token))
  IN rec # NoValue /\ rec.gen = ev.token.gen /\ InRotation(ev.zone, captured)

(* verify_evidence, then save_evidence_photos: the payload names an open   *)
(* challenge, echoes its token and is for a zone of the captured day's     *)
(* rotation, and every one of its photos can be decoded.                   *)
Verifies(ev, captured) ==
  LET rec == Loaded(TokenKey(ev.token))
  IN /\ rec # NoValue
     /\ ~rec.consumed
     /\ rec.gen = ev.token.gen
     /\ InRotation(ev.zone, captured)
     /\ ev.photos = "good"

(* Mutant of CapturedDay: the phone's clock is trusted forwards too.       *)
CapturedUnclamped(ev) == ev.captured

(* _captured_at: the phone's day, but never later than the PC's.           *)
CapturedDay(ev) == IF ev.captured < day THEN ev.captured ELSE day

(* advance: just past the zone that was cleaned, in the captured day's     *)
(* list (the first place it has there).                                    *)
PlaceOf(zone, d) ==
  CHOOSE i \in 1 .. Len(Rotation[d]) :
    /\ Rotation[d][i] = zone
    /\ \A j \in 1 .. (i - 1) : Rotation[d][j] # zone

IndexAfter(zone, d) == PlaceOf(zone, d) % Len(Rotation[d])

-----------------------------------------------------------------------------
Init ==
  /\ day = 1 /\ hour = 0
  /\ marker = FALSE
  /\ hmacKey = KeyAtStart
  /\ store = [k \in Keys |-> NoValue]
  /\ mints = [k \in Keys |-> 0]
  /\ log = {}
  /\ cursor = [index |-> 0, last |-> NoValue]
  /\ used = 0
  /\ pc = "idle" /\ lock = NoValue
  /\ wpc = "idle" /\ wev = NoValue /\ wday = NoValue /\ wsnap = {}
  /\ wsig = FALSE
  /\ upc = "none" /\ uday = NoValue /\ usnap = {}
  /\ online = TRUE /\ chalNode = NoValue /\ evNode = NoValue /\ held = NoValue
  /\ faults = 0

-----------------------------------------------------------------------------
(* One run of the gate, as far as the armed lock.                          *)

Stop(next) ==
  /\ pc' = next
  /\ UNCHANGED lock

(* cmd_gate: the disarm marker is looked at first, and only then.          *)
TimerTick ==
  /\ pc = "idle"
  /\ ~marker
  /\ Stop("checked")
  /\ UNCHANGED <<clockVars, fileVars, workVars, hatchVars, netVars, faults>>

(* Mutant of CheckDue: elapsed slots, cleared ones included.               *)
CheckElapsed ==
  /\ pc = "checked"
  /\ \E s \in ElapsedSlots(hour) :
       /\ \A t \in ElapsedSlots(hour) : s =< t
       /\ lock' = [slot |-> s, day |-> day, published |-> FALSE]
  /\ pc' = "waitx"
  /\ UNCHANGED <<clockVars, fileVars, workVars, hatchVars, netVars, faults>>

(* due_slots, at the clock of now; the first due slot is the one enforced. *)
CheckDue ==
  /\ pc = "checked"
  /\ \/ /\ DueSlots = {}
        /\ Stop("idle")
     \/ /\ pc' = "waitx"
        /\ \E s \in DueSlots :
             /\ \A t \in DueSlots : s =< t
             /\ lock' = [slot |-> s, day |-> day, published |-> FALSE]
  /\ UNCHANGED <<clockVars, fileVars, workVars, hatchVars, netVars, faults>>

(* Mutant of XServerMissing: the failed run is never followed by another.  *)
XServerGivesUp ==
  /\ pc = "waitx" /\ faults < MaxFaults /\ faults' = faults + 1
  /\ Stop("failed")
  /\ UNCHANGED <<clockVars, fileVars, workVars, hatchVars, netVars>>

(* wait_for_x_server gives up: this run ends, the next tick tries again.   *)
XServerMissing ==
  /\ pc = "waitx"
  /\ faults < MaxFaults
  /\ faults' = faults + 1
  /\ pc' = "idle" /\ lock' = NoValue
  /\ UNCHANGED <<clockVars, fileVars, workVars, hatchVars, netVars>>

(* Mutant of MintChallenge: the record of a slot that is still due is      *)
(* written afresh, and so a consumed one opens again.                      *)
MintReopens ==
  /\ pc = "waitx"
  /\ LET k   == <<day, lock.slot>>
         gen == IF Loaded(k) # NoValue THEN Loaded(k).gen ELSE mints[k] + 1
     IN /\ gen =< MaxMints
        /\ PutChallenge(k, [gen |-> gen, consumed |-> FALSE, signed |-> hmacKey])
        /\ mints' = [mints EXCEPT ![k] = gen]
  /\ pc' = "publish"
  /\ lock' = [lock EXCEPT !.day = day]
  /\ UNCHANGED <<clockVars, marker, hmacKey, log, cursor, used, workVars,
                 hatchVars, netVars, faults>>

(* prepare_slot, at a clock of its own: the challenge of today's slot,     *)
(* minted if the store has none.                                           *)
MintChallenge ==
  /\ pc = "waitx"
  /\ LET k == <<day, lock.slot>>
     IN \/ /\ Loaded(k) # NoValue
           /\ UNCHANGED <<store, mints>>
        \/ /\ Loaded(k) = NoValue
           /\ mints[k] < MaxMints
           /\ PutChallenge(k, [gen |-> mints[k] + 1, consumed |-> FALSE,
                               signed |-> hmacKey])
           /\ mints' = [mints EXCEPT ![k] = @ + 1]
  /\ pc' = "publish"
  /\ lock' = [lock EXCEPT !.day = day]
  /\ UNCHANGED <<clockVars, marker, hmacKey, log, cursor, used, workVars,
                 hatchVars, netVars, faults>>

LockKey == <<lock.day, lock.slot>>

(* publish_challenge: one attempt; its failure only changes a caption.     *)
PublishChallenge ==
  /\ pc = "publish"
  /\ \/ /\ online
        /\ chalNode' = [token |-> TokenAt(LockKey),
                        consumed |-> store[LockKey].consumed]
     \/ /\ ~online
        /\ UNCHANGED chalNode
  /\ lock' = [lock EXCEPT !.published = online]
  /\ pc' = "turn"
  /\ UNCHANGED <<clockVars, fileVars, workVars, hatchVars, online, evNode,
                 held, faults>>

(* wait_for_turn ends: the window is set up, the poller started, input     *)
(* grabbed.                                                                *)
TakeTurn ==
  /\ pc = "turn"
  /\ Stop("armed")
  /\ UNCHANGED <<clockVars, fileVars, workVars, hatchVars, netVars, faults>>

-----------------------------------------------------------------------------
(* The poller and its worker thread.                                       *)

WorkerAt(from, to) ==
  /\ wpc = from
  /\ wpc' = to
  /\ UNCHANGED <<wev, wday>>

(* The worker's future is done without an accept.                          *)
WorkerDone ==
  /\ wpc' = "idle" /\ wev' = NoValue /\ wday' = NoValue
  /\ wsnap' = {} /\ wsig' = FALSE

(* _tick: the Tk thread submits a check if none is running.                *)
PollTick ==
  /\ pc = "armed" /\ upc = "none"
  /\ WorkerAt("idle", "polling")
  /\ UNCHANGED <<clockVars, fileVars, gateVars, wsnap, wsig, hatchVars,
                 netVars, faults>>

(* fetch_evidence, and process_evidence's clock reading.                   *)
FetchEvidence ==
  /\ wpc = "polling"
  /\ \/ /\ online /\ evNode # NoValue
        /\ wpc' = "fetched"
        /\ wev' = evNode
        /\ wday' = CapturedDay(evNode)
        /\ UNCHANGED <<wsnap, wsig>>
     \/ /\ ~online \/ evNode = NoValue
        /\ WorkerDone
  /\ UNCHANGED <<clockVars, fileVars, gateVars, hatchVars, netVars, faults>>

(* Mutants of Verify: the challenge is consumed, or announced as consumed, *)
(* as soon as the payload is verified.                                     *)
VerifyAndConsume ==
  /\ WorkerAt("fetched", "verified") /\ Verifies(wev, wday)
  /\ PutChallenge(TokenKey(wev.token),
                  [gen |-> wev.token.gen, consumed |-> TRUE, signed |-> hmacKey])
  /\ UNCHANGED <<clockVars, marker, hmacKey, mints, log, cursor, used,
                 wsnap, wsig, gateVars, hatchVars, netVars, faults>>

VerifyAndAnnounce ==
  /\ WorkerAt("fetched", "verified") /\ Verifies(wev, wday)
  /\ chalNode' = [token |-> wev.token, consumed |-> TRUE]
  /\ UNCHANGED <<clockVars, fileVars, gateVars, wsnap, wsig, hatchVars, online,
                 evNode, held, faults>>

(* A rejected payload has no side effects and stays on its node.           *)
Verify ==
  /\ wpc = "fetched"
  /\ \/ /\ Verifies(wev, wday)
        /\ WorkerAt("fetched", "verified")
        /\ UNCHANGED <<wsnap, wsig>>
     \/ /\ ~Verifies(wev, wday)
        /\ WorkerDone
  /\ UNCHANGED <<clockVars, fileVars, gateVars, hatchVars, netVars, faults>>

(* append_clear_entry signs its entry, if there is a key by now, and then  *)
(* append_entry reads the whole log ...                                    *)
ReadLog ==
  /\ WorkerAt("verified", "logread")
  /\ wsig' = hmacKey /\ wsnap' = log
  /\ UNCHANGED <<clockVars, fileVars, gateVars, hatchVars, netVars, faults>>

ClearOf(ev, d) ==
  [kind |-> "clear", bucket |-> d, slot |-> ev.token.slot, zone |-> ev.zone,
   token |-> ev.token, signed |-> wsig]

(* ... and replaces it by what it read and the new entry.                  *)
AppendClear ==
  /\ WorkerAt("logread", "logged")
  /\ log' = wsnap \cup {ClearOf(wev, wday)}
  /\ wsnap' = {} /\ wsig' = FALSE
  /\ UNCHANGED <<clockVars, marker, hmacKey, store, mints, cursor, used,
                 gateVars, hatchVars, netVars, faults>>

(* Mutant of AdvanceCursor: a plain step on, whatever zone was cleaned.    *)
AdvanceByOne ==
  /\ WorkerAt("logged", "advanced")
  /\ cursor' = [index |-> (cursor.index + 1) % Len(Rotation[wday]),
                last  |-> TokenKey(wev.token)]
  /\ UNCHANGED <<clockVars, marker, hmacKey, store, mints, log, used,
                 wsnap, wsig, gateVars, hatchVars, netVars, faults>>

AdvanceCursor ==
  /\ WorkerAt("logged", "advanced")
  /\ cursor' = IF cursor.last = TokenKey(wev.token) THEN cursor
               ELSE [index |-> IndexAfter(wev.zone, wday),
                     last  |-> TokenKey(wev.token)]
  /\ UNCHANGED <<clockVars, marker, hmacKey, store, mints, log, used,
                 wsnap, wsig, gateVars, hatchVars, netVars, faults>>

(* Mutant of ConsumeChallenge: only the published copy is ever consumed.   *)
ConsumeNothing ==
  /\ WorkerAt("advanced", "consumed")
  /\ UNCHANGED <<clockVars, fileVars, wsnap, wsig, gateVars, hatchVars, netVars,
                 faults>>

ConsumeChallenge ==
  /\ WorkerAt("advanced", "consumed")
  /\ PutChallenge(TokenKey(wev.token),
                  [gen |-> wev.token.gen, consumed |-> TRUE,
                   signed |-> hmacKey])
  /\ UNCHANGED <<clockVars, marker, hmacKey, mints, log, cursor, used,
                 wsnap, wsig, gateVars, hatchVars, netVars, faults>>

(* publish_challenge(consumed): a failure is ignored.                      *)
PublishConsumed ==
  /\ WorkerAt("consumed", "republished")
  /\ chalNode' = IF online THEN [token |-> wev.token, consumed |-> TRUE]
                 ELSE chalNode
  /\ UNCHANGED <<clockVars, fileVars, gateVars, wsnap, wsig, hatchVars, online,
                 evNode, held, faults>>

(* drain_evidence: blanks the node, whatever is on it by now.              *)
DrainEvidence ==
  /\ WorkerAt("republished", "accepted")
  /\ evNode' = IF online THEN NoValue ELSE evNode
  /\ UNCHANGED <<clockVars, fileVars, gateVars, wsnap, wsig, hatchVars, online,
                 chalNode, held, faults>>

(* Mutant of WorkerFails: a check that raised kills the polling loop.      *)
WorkerDies ==
  /\ wpc \in {"fetched", "verified", "logread", "logged", "advanced"}
  /\ faults < MaxFaults /\ faults' = faults + 1
  /\ wpc' = "dead"
  /\ UNCHANGED <<wev, wday, wsnap, wsig, clockVars, fileVars, gateVars, hatchVars,
                 netVars>>

(* A file call of the worker fails (or the photos do not fit the disk):    *)
(* _guarded_result logs it, and the next poll starts over.                 *)
WorkerFails ==
  /\ wpc \in {"fetched", "verified", "logread", "logged", "advanced"}
  /\ faults < MaxFaults
  /\ faults' = faults + 1
  /\ WorkerDone
  /\ UNCHANGED <<clockVars, fileVars, gateVars, hatchVars, netVars>>

(* _drain sees the accepted result and the lock closes.                    *)
CloseOnAccept ==
  /\ pc = "armed" /\ upc = "none" /\ wpc = "accepted"
  /\ Stop("closed")
  /\ WorkerDone
  /\ UNCHANGED <<clockVars, fileVars, hatchVars, netVars, faults>>

-----------------------------------------------------------------------------
(* The escape hatch, in a callback of the Tk thread.                       *)

HatchIdle == upc' = "none" /\ uday' = NoValue /\ usnap' = {}

(* Mutants of RecordEscape: the budget is not asked, or the use not saved. *)
RecordUnbudgeted ==
  /\ pc = "armed" /\ upc = "none"
  /\ used' = used + 1
  /\ upc' = "recorded" /\ uday' = day /\ UNCHANGED usnap
  /\ UNCHANGED <<clockVars, marker, hmacKey, store, mints, log, cursor,
                 gateVars, workVars, netVars, faults>>

RecordUnsaved ==
  /\ pc = "armed" /\ upc = "none" /\ used < HatchBudget
  /\ upc' = "recorded" /\ uday' = day /\ UNCHANGED usnap
  /\ UNCHANGED <<clockVars, fileVars, gateVars, workVars, netVars, faults>>

(* grant_escape: the budget, a valid draft, then the use is recorded ...   *)
RecordEscape ==
  /\ pc = "armed" /\ upc = "none"
  /\ used < HatchBudget
  /\ used' = used + 1
  /\ upc' = "recorded" /\ uday' = day /\ UNCHANGED usnap
  /\ UNCHANGED <<clockVars, marker, hmacKey, store, mints, log, cursor,
                 gateVars, workVars, netVars, faults>>

(* ... append_entry reads the log ...                                      *)
EscapeReadLog ==
  /\ upc = "recorded"
  /\ upc' = "read" /\ usnap' = log /\ UNCHANGED uday
  /\ UNCHANGED <<clockVars, fileVars, gateVars, workVars, netVars, faults>>

(* ... and replaces it; on_granted closes the lock.                        *)
AppendEscape ==
  /\ upc = "read"
  /\ log' = usnap \cup {[kind |-> "escape", bucket |-> uday,
                         slot |-> lock.slot]}
  /\ HatchIdle
  /\ Stop("closed")
  /\ UNCHANGED <<clockVars, marker, hmacKey, store, mints, cursor, used,
                 workVars, netVars, faults>>

-----------------------------------------------------------------------------
(* How a run ends.                                                         *)

(* on_callback_error: a Tk callback raised, the hatch's included.          *)
CallbackError ==
  /\ pc = "armed"
  /\ faults < MaxFaults
  /\ faults' = faults + 1
  /\ Stop("closed")
  /\ HatchIdle
  /\ UNCHANGED <<clockVars, fileVars, workVars, netVars>>

(* stop() does not wait for the worker, but the interpreter does: the      *)
(* process ends when the running check has.                                *)
ExitProcess ==
  /\ pc = "closed"
  /\ wpc \in {"idle", "accepted"}
  /\ pc' = "idle" /\ lock' = NoValue
  /\ WorkerDone
  /\ UNCHANGED <<clockVars, fileVars, hatchVars, netVars, faults>>

(* The process is killed, or the machine goes down.                        *)
Crash ==
  /\ pc # "idle"
  /\ faults < MaxFaults
  /\ faults' = faults + 1
  /\ pc' = "idle" /\ lock' = NoValue
  /\ WorkerDone
  /\ HatchIdle
  /\ UNCHANGED <<clockVars, fileVars, netVars>>

-----------------------------------------------------------------------------
(* The surroundings.                                                       *)

Clock ==
  /\ \/ /\ hour < LastHour
        /\ hour' = hour + 1 /\ day' = day
     \/ /\ hour = LastHour /\ day < MaxDay
        /\ hour' = 0 /\ day' = day + 1
  /\ UNCHANGED <<fileVars, gateVars, workVars, hatchVars, netVars, faults>>

(* disarm.sh writes the marker last; clear_disarm_marker removes it.       *)
ToggleMarker ==
  /\ marker' = ~marker
  /\ UNCHANGED <<clockVars, hmacKey, store, mints, log, cursor, used,
                 gateVars, workVars, hatchVars, netVars, faults>>

(* The HMAC key is made by hand, at any time after installation.           *)
CreateKey ==
  /\ ~hmacKey
  /\ hmacKey' = TRUE
  /\ UNCHANGED <<clockVars, marker, store, mints, log, cursor, used,
                 gateVars, workVars, hatchVars, netVars, faults>>

NetDown ==
  /\ online
  /\ faults < MaxFaults
  /\ faults' = faults + 1
  /\ online' = FALSE
  /\ UNCHANGED <<clockVars, fileVars, gateVars, workVars, hatchVars, chalNode,
                 evNode, held>>

NetUp ==
  /\ ~online
  /\ online' = TRUE
  /\ UNCHANGED <<clockVars, fileVars, gateVars, workVars, hatchVars, chalNode,
                 evNode, held, faults>>

(* UploadQueue.drain reads the challenge once, and goes on only if it is   *)
(* satisfiable today.                                                      *)
PhoneRead ==
  /\ chalNode # NoValue
  /\ AppGuards => ~chalNode.consumed /\ chalNode.token.day = day
  /\ held' = chalNode
  /\ UNCHANGED <<clockVars, fileVars, gateVars, workVars, hatchVars, online,
                 chalNode, evNode, faults>>

(* Mutant of PhoneUpload: sessions of other days are sent too.             *)
UploadAnyDay ==
  /\ held # NoValue
  /\ ~held.consumed
  /\ \E p \in [token : {held.token}, zone : Zones, captured : Days,
               photos : PhotoKinds] :
       evNode' = p
  /\ UNCHANGED <<clockVars, fileVars, gateVars, workVars, hatchVars, online,
                 chalNode, held, faults>>

(* uploadEvidence, of any queued session and at any later time.  The app   *)
(* sends sessions of the challenge's day only; a session's zone is any     *)
(* that its own list, an old copy or the default, had on that day.         *)
PhoneUpload ==
  /\ held # NoValue
  /\ ~held.consumed
  /\ \E p \in [token : {held.token}, zone : Zones, captured : Days,
               photos : PhotoKinds] :
       /\ AppGuards => p.captured = p.token.day
       /\ evNode' = p
  /\ UNCHANGED <<clockVars, fileVars, gateVars, workVars, hatchVars, online,
                 chalNode, held, faults>>

-----------------------------------------------------------------------------
GateRun == \/ TimerTick \/ CheckDue \/ MintChallenge \/ PublishChallenge
           \/ TakeTurn \/ ExitProcess

Worker == \/ PollTick \/ FetchEvidence \/ Verify \/ ReadLog \/ AppendClear
          \/ AdvanceCursor \/ ConsumeChallenge \/ PublishConsumed
          \/ DrainEvidence \/ CloseOnAccept

Hatch == EscapeReadLog \/ AppendEscape

Fault == XServerMissing \/ WorkerFails \/ CallbackError \/ Crash \/ NetDown

Environment == \/ RecordEscape \/ Clock \/ ToggleMarker \/ CreateKey
               \/ NetUp \/ PhoneRead \/ PhoneUpload

Next == GateRun \/ Worker \/ Hatch \/ Fault \/ Environment

Spec == Init /\ [][Next]_vars

(* The timer fires every half hour, the threads run, an outage ends.  The  *)
(* user, the phone and the clock owe nothing.                              *)
Fairness ==
  /\ WF_vars(GateRun) /\ WF_vars(Worker) /\ WF_vars(Hatch) /\ WF_vars(NetUp)

FairSpec == Spec /\ Fairness

-----------------------------------------------------------------------------
(* Properties.                                                             *)

(* The variables keep their types.                                         *)
TypeOK ==
  /\ day \in Days /\ hour \in Hours
  /\ marker \in BOOLEAN /\ hmacKey \in BOOLEAN
  /\ store \in [Keys -> Record \cup {NoValue}]
  /\ mints \in [Keys -> 0 .. MaxMints]
  /\ log \subseteq Entry
  /\ cursor \in [index : Nat, last : Keys \cup {NoValue}]
  /\ used \in 0 .. HatchBudget
  /\ pc \in {"idle", "checked", "waitx", "publish", "turn", "armed", "closed"}
  /\ lock \in Lock \cup {NoValue}
  /\ wpc \in {"idle", "polling", "fetched", "verified", "logread", "logged",
              "advanced", "consumed", "republished", "accepted"}
  /\ wev \in Payload \cup {NoValue} /\ wday \in Days \cup {NoValue}
  /\ wsnap \subseteq Entry /\ wsig \in BOOLEAN
  /\ upc \in {"none", "recorded", "read"}
  /\ uday \in Days \cup {NoValue} /\ usnap \subseteq Entry
  /\ online \in BOOLEAN
  /\ chalNode \in Challenge \cup {NoValue}
  /\ evNode \in Payload \cup {NoValue}
  /\ held \in Challenge \cup {NoValue}
  /\ faults \in 0 .. MaxFaults

(* A token is accounted for by a log: its clear is there, or an escape of  *)
(* that day or a later one is (the hatch's write may replace the clear's). *)
BackedIn(entries, t) ==
  \E e \in entries : \/ e.kind = "clear" /\ e.token = t
                     \/ e.kind = "escape" /\ e.bucket >= t.day

(* A challenge is never consumed with nothing to show for it, whatever     *)
(* crash, failed write or hatch grant comes between append_clear_entry and *)
(* consume_challenge (the order process_evidence is written for).          *)
ConsumedIsBacked ==
  \A k \in Keys :
    store[k] # NoValue /\ store[k].consumed => BackedIn(log, TokenAt(k))

(* What the phone settles a session by: a challenge node that says         *)
(* consumed is backed by the PC's log, also when the node is an older one  *)
(* or the store has dropped the record since.                              *)
NodeConsumedIsBacked ==
  chalNode # NoValue /\ chalNode.consumed => BackedIn(log, chalNode.token)

(* No entry lies in a day that has not begun: a phone with a fast clock    *)
(* cannot file a clean ahead (_captured_at), nor can a grant; and a clear  *)
(* carries a token that was minted.                                        *)
CreditIsEarned ==
  \A e \in log :
    /\ e.bucket =< day
    /\ e.kind = "clear" => e.token.gen =< mints[TokenKey(e.token)]

(* Every escape in the log was paid for before it was written: no crash or *)
(* failed write leaves more escapes than recorded uses.                    *)
EscapesAreBudgeted == Cardinality({e \in log : e.kind = "escape"}) =< used

(* The rotation moves only with a clean: the cursor stands just past the   *)
(* zone of a logged clear of the key it last moved for (or of one whose    *)
(* entry a hatch grant overwrote), also after a half-done accept was       *)
(* started over with another zone.                                         *)
CursorFollowsLog ==
  cursor.last # NoValue =>
    \E e \in log :
      \/ /\ e.kind = "clear" /\ TokenKey(e.token) = cursor.last
         /\ cursor.index = IndexAfter(e.zone, e.bucket)
      \/ /\ e.kind = "escape" /\ e.bucket >= cursor.last[1]

(* When the lock is about to close on an accept, all of the accept is on   *)
(* disk: the clear under its captured day, the cursor, the consumed token. *)
AcceptedIsOnRecord ==
  wpc = "accepted" /\ pc = "armed" /\ upc = "none" =>
    /\ \E e \in log : /\ e.kind = "clear" /\ e.token = wev.token
                      /\ e.bucket = wday
    /\ cursor.last = TokenKey(wev.token)
    /\ store[TokenKey(wev.token)].consumed

(* A token is single-use: once the store holds it as consumed, no step     *)
(* adds a clear for it, whatever the phone uploads again.                  *)
TokenIsSingleUse ==
  [][\A e \in log' \ log :
       e.kind = "clear" =>
         LET rec == store[TokenKey(e.token)]
         IN ~(rec # NoValue /\ rec.gen = e.token.gen /\ rec.consumed)]_vars

(* With the app's guards a photo only ever credits the day its token was   *)
(* minted for, although the PC does not compare the two.                   *)
CreditsOwnDay ==
  \A e \in log : e.kind = "clear" => e.bucket = e.token.day

(* With the app's guards a lock that is up can still be answered by a      *)
(* photo: its challenge is not consumed while no accept is under way.  All *)
(* that can spoil this is a grant for another slot of that day, whose      *)
(* write of the log undid the clear of this one.                           *)
OpenLockIsAnswerable ==
  pc = "armed" /\ wpc \in {"idle", "polling"} =>
    \/ ~store[LockKey].consumed
    \/ \E e \in log : /\ e.kind = "escape" /\ e.bucket = lock.day
                      /\ e.slot # lock.slot

(* No token is minted for a slot the log already holds as satisfied, also  *)
(* when a new HMAC key has voided earlier records and clears.              *)
TokenOnlyForDueSlot ==
  [][mints' # mints => lock.slot \notin ClearedSlots(day)]_vars

(* No lock stays up for ever over evidence that it would accept.           *)
NoDeafLock ==
  ~<>[](/\ pc = "armed"
        /\ evNode # NoValue /\ Verifies(evNode, CapturedDay(evNode)))

(* A due slot is not skipped for ever: it is enforced, or stops being due, *)
(* or the gate is disarmed (cmd_gate's docstring).                         *)
DueSlotIsEnforced ==
  DueSlots # {} ~> (pc = "armed" \/ DueSlots = {} \/ marker)

-----------------------------------------------------------------------------
(* The ledger of tokens that these files, threads and nodes amount to.     *)

RecordOf(t) == store[TokenKey(t)]

Stored(t) == RecordOf(t) # NoValue /\ RecordOf(t).gen = t.gen

Ledger == INSTANCE TokenLedger WITH
  Token   <- Token,
  DayOf   <- [t \in Token |-> t.day],
  Nothing <- NoValue,
  issued  <- {t \in Token : t.gen =< mints[TokenKey(t)]},
  open    <- {t \in Token : Stored(t) /\ ~RecordOf(t).consumed},
  spent   <- {t \in Token : Stored(t) /\ RecordOf(t).consumed},
  backed  <- {t \in Token : BackedIn(log, t)},
  notice  <- chalNode

(* The PC implements the ledger: a token is minted once, is never open     *)
(* again after it was consumed, and no crash, key change, stale write of   *)
(* the log or late upload takes away what a consumed token rests on.       *)
ImplementsLedger == Ledger!Spec

-----------------------------------------------------------------------------
(* What the code does not keep: statements of the repository's comments    *)
(* and one of liveness.                                                    *)

(* _accept.py: a clean that lands in an earlier day's bucket "grants       *)
(* nothing now": a lock that closes on an accept has its slot cleared.     *)
AcceptClearsTheLock ==
  [][CloseOnAccept => lock.slot \in ClearedSlots(lock.day)]_vars

(* No lock stays up for ever for a slot that the log says is done.  An     *)
(* accept that failed after its log entry is finished by a later poll, but *)
(* only if the node still holds a payload the PC takes; over one that it   *)
(* refuses, "left in place" (_accept.py), the lock waits for the phone to  *)
(* overwrite it, or for the hatch.                                         *)
SatisfiedLockReleases ==
  ~<>[](pc = "armed" /\ lock.slot \in ClearedSlots(lock.day))

(* _escape_hatch.py: a grant "satisfies *this slot*".                      *)
HatchSatisfiesItsSlot ==
  [][AppendEscape => lock.slot \in ClearedSlots(lock.day)']_vars

(* _cli_gate.py of the disarm marker: "one check here covers every         *)
(* scheduled run".  The lock goes up after two waits that follow the check. *)
DisarmedGateStaysDown == [][TakeTurn => ~marker]_vars

(* _lock.py's caption of a published challenge: "Waiting for a photo from  *)
(* the home-guard app."  A photo can still answer it.                      *)
WaitsForAPhoto ==
  pc = "armed" /\ lock.published /\ wpc \in {"idle", "polling"} =>
    ~store[LockKey].consumed

(* _lock.py's caption after a failed publish: "Sync unavailable right now  *)
(* -- retrying".  A lock that stays up publishes its challenge some day.   *)
FailedPublishIsRetried ==
  (pc = "armed" /\ ~lock.published) ~> (pc # "armed" \/ lock.published)
=============================================================================
