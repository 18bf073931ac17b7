----------------------------- MODULE UploadQueue -----------------------------
(***************************************************************************)
(* The phone: cleans are photographed on the home screen                   *)
(* (app/lib/screens/home_screen.dart), kept in one index file              *)
(* (services/session_store.dart) and sent by `UploadQueue.drain'           *)
(* (services/upload_queue.dart) through the two RTDB nodes to the PC's     *)
(* lock (home_guard/_lock.py, _accept.py), whose steps are those of        *)
(* LockGate without its inside.                                            *)
(*                                                                         *)
(* Dart runs one handler at a time but gives way at every await: a drain   *)
(* that waits for the network or a file lets another drain, the camera or  *)
(* a tap run.  `SessionStore.put' is such a place: it reads the whole      *)
(* index, awaits, and writes the whole index.                              *)
(*                                                                         *)
(* The PC has one slot a day (GATE_SLOT_INTERVAL_HOURS = 24), so a day     *)
(* stands for its challenge and for that challenge's token.                *)
(***************************************************************************)
EXTENDS Naturals, FiniteSets

CONSTANTS
  MaxDay,     \* days the model runs for                       (bound)
  MaxCleans,  \* cleans begun on the home screen               (bound)
  MaxKills,   \* times the app is killed                       (bound)
  MaxWaits,   \* drains that _finish calls wait for at a time  (bound)
  Drains,     \* drains that can be under way at one time      (bound)
  Nothing     \* absent: no manifest, no token, no node value

Days   == 1 .. MaxDay
Cleans == 1 .. MaxCleans      \* ids grow with the time of the first photo
Status == {"draft", "queued", "accepted", "rejected"}

(* A stored manifest.  Its day never changes after _newSession, see begun. *)
Manifest  == [status : Status, token : Days \cup {Nothing}]
Index     == [Cleans -> Manifest \cup {Nothing}]
Challenge == [token : Days, consumed : BOOLEAN]
Payload   == [clean : Cleans, captured : Days, token : Days]

(* Who calls SessionStore.put: each drain, and the home screen's buttons   *)
(* (of which one put is under way at a time: a bound).                     *)
Clients == Drains \cup {"screen"}

(* A put under way: what it stores, and the index once it has read it.     *)
Put == [clean : Cleans, to : Manifest, read : Index \cup {Nothing}]

ASSUME UploadQueueAssumption ==
  /\ MaxDay \in Nat \ {0} /\ MaxCleans \in Nat \ {0} /\ MaxKills \in Nat
  /\ MaxWaits \in Nat \ {0}
  /\ Drains \cap {"screen", "due"} = {}
  /\ Nothing \notin Nat
  /\ Nothing \notin Manifest \cup Index \cup Challenge \cup Payload \cup Put

VARIABLES
  day,        \* the calendar day, the same on both devices
  index,      \* the session index on the phone's disk
  begun,      \* the day each clean was begun, or Nothing
  current,    \* the home screen's _session
  phase,      \* which of the home screen's buttons are live
  finisher,   \* the drains a _finish waits for, "due" for one to be begun
  put,        \* each client's put under way
  dpc,        \* where each drain stands
  todo,       \* the manifests it has still to look at
  chal,       \* the challenge it fetched
  today,      \* the day it took for today
  kills,      \* times the app was killed
  uploaded,   \* cleans whose payload ever reached the evidence node
  chalNode,   \* RTDB challenge node
  evNode,     \* RTDB evidence node
  ppc,        \* the PC: armed or not, and how far an acceptance is
  pheld,      \* the payload the PC works on
  minted,     \* days the PC has a challenge record for
  spent,      \* days whose record is consumed
  credited    \* payloads in the PC's clear log

diskVars  == <<index, begun>>
homeVars  == <<current, phase, finisher>>
drainVars == <<dpc, todo, chal, today>>
queueVars == <<put, drainVars, uploaded>>
nodeVars  == <<chalNode, evNode>>
pcVars    == <<ppc, pheld, minted, spent, credited>>
vars == <<day, kills, diskVars, homeVars, queueVars, nodeVars, pcVars>>

Draft    == [status |-> "draft", token |-> Nothing]
Finished == [status |-> "queued", token |-> Nothing]

(* store.queued(): copies of the queued manifests.                         *)
Queued ==
  {[clean |-> c, was |-> index[c]] :
     c \in {x \in Cleans : index[x] # Nothing /\ index[x].status = "queued"}}

(* Challenge.isSatisfiable, asked of the clock each time.                  *)
IsSatisfiable(ch) == ch # Nothing /\ ~ch.consumed /\ ch.token = day

(* The oldest clean left on the list.                                      *)
At(p) == CHOOSE s \in todo[p] : \A t \in todo[p] : s.clean =< t.clean

(* On to the next clean of the list.                                       *)
NextOne(p) ==
  /\ dpc' = [dpc EXCEPT ![p] = "next"]
  /\ todo' = [todo EXCEPT ![p] = @ \ {At(p)}]
  /\ UNCHANGED <<chal, today>>

Init ==
  /\ day = 1 /\ kills = 0
  /\ index = [c \in Cleans |-> Nothing]
  /\ begun = [c \in Cleans |-> Nothing]
  /\ current = Nothing /\ phase = "shown" /\ finisher = {}
  /\ put = [w \in Clients |-> Nothing]
  /\ dpc = [p \in Drains |-> "idle"] /\ todo = [p \in Drains |-> {}]
  /\ chal = [p \in Drains |-> Nothing] /\ today = [p \in Drains |-> Nothing]
  /\ uploaded = {}
  /\ chalNode = Nothing /\ evNode = Nothing
  /\ ppc = "off" /\ pheld = Nothing
  /\ minted = {} /\ spent = {} /\ credited = {}

-----------------------------------------------------------------------------
(* SessionStore.put                                                        *)

StartPut(w, c, m) ==
  /\ put[w] = Nothing
  /\ put' = [put EXCEPT ![w] = [clean |-> c, to |-> m, read |-> Nothing]]

PutLoad(w) ==
  /\ put[w] # Nothing /\ put[w].read = Nothing
  /\ put' = [put EXCEPT ![w].read = index]
  /\ UNCHANGED <<day, kills, diskVars, homeVars, drainVars, uploaded, nodeVars, pcVars>>

(* The whole index as it was read, with the one clean replaced.            *)
SaveOf(w) == [put[w].read EXCEPT ![put[w].clean] = put[w].to]

(* What the caller does when its put returns.                              *)
AfterPut(w) ==
  \/ /\ w = "screen" /\ put[w].to = Draft
     /\ current' = put[w].clean /\ phase' = "ready"
     /\ UNCHANGED <<finisher, drainVars>>
  \/ /\ w = "screen" /\ put[w].to = Finished
     /\ "due" \notin finisher /\ finisher' = finisher \cup {"due"}
     /\ UNCHANGED <<current, phase, drainVars>>
  \/ /\ w \in Drains
     /\ IF dpc[w] = "recording"
          THEN dpc' = [dpc EXCEPT ![w] = "confirm"] /\ UNCHANGED <<todo, chal, today>>
          ELSE NextOne(w)
     /\ UNCHANGED homeVars

PutSave(w) ==
  /\ put[w] # Nothing /\ put[w].read # Nothing
  /\ index' = SaveOf(w)
  /\ put' = [put EXCEPT ![w] = Nothing]
  /\ AfterPut(w)
  /\ UNCHANGED <<day, kills, begun, uploaded, nodeVars, pcVars>>

-----------------------------------------------------------------------------
(* The home screen.                                                        *)

(* _takePhoto: photo bytes, then the manifest as a draft -- of _session if *)
(* there is one, whatever has become of it in the index.                   *)
NewClean(c) == begun[c] = Nothing /\ \A b \in Cleans : b < c => begun[b] # Nothing

TakePhoto(c) ==
  /\ phase = "ready"
  /\ \/ c = current /\ UNCHANGED begun
     \/ /\ current = Nothing /\ NewClean(c)
        /\ begun' = [begun EXCEPT ![c] = day]
  /\ StartPut("screen", c, Draft)
  /\ phase' = "busy"
  /\ UNCHANGED <<day, kills, index, current, finisher, drainVars, uploaded,
                 nodeVars, pcVars>>

(* _finish puts the clean as queued and then awaits a drain of its own.    *)
(* After a refresh meanwhile it can be called a second time; MaxWaits      *)
(* bounds how often.                                                       *)
Finish ==
  /\ phase = "ready"
  /\ current # Nothing /\ Cardinality(finisher) < MaxWaits
  /\ StartPut("screen", current, Finished)
  /\ phase' = "busy"
  /\ UNCHANGED <<day, kills, diskVars, current, finisher, drainVars, uploaded,
                 nodeVars, pcVars>>

(* The list a drain works from is read once, at its start.                 *)
BeginDrain(p) ==
  /\ dpc[p] = "idle"
  /\ dpc' = [dpc EXCEPT ![p] = "fetch"]
  /\ todo' = [todo EXCEPT ![p] = Queued]
  /\ UNCHANGED <<chal, today>>

FinishDrain(p) ==
  /\ "due" \in finisher
  /\ finisher' = (finisher \ {"due"}) \cup {p}
  /\ BeginDrain(p)
  /\ UNCHANGED <<day, kills, diskVars, current, phase, put, uploaded,
                 nodeVars, pcVars>>

(* _refresh, from initState, the refresh button or the settings screen:    *)
(* it makes the buttons live again and starts a drain nobody waits for.    *)
Refresh(p) ==
  /\ phase' = "ready"
  /\ BeginDrain(p)
  /\ UNCHANGED <<day, kills, diskVars, current, finisher, put, uploaded,
                 nodeVars, pcVars>>

-----------------------------------------------------------------------------
(* UploadQueue.drain                                                       *)

(* fetchChallenge: what the node holds, or null when it cannot be read.    *)
Fetch(p) ==
  /\ dpc[p] = "fetch" /\ todo[p] # {}
  /\ dpc' = [dpc EXCEPT ![p] = "fetched"]
  /\ \E c \in {chalNode, Nothing} : chal' = [chal EXCEPT ![p] = c]
  /\ UNCHANGED <<day, kills, diskVars, homeVars, put, todo, today, uploaded,
                 nodeVars, pcVars>>

(* Only once the answer is in is the drain's own day read from the clock.  *)
ReadToday(p) ==
  /\ dpc[p] = "fetched"
  /\ dpc' = [dpc EXCEPT ![p] = "next"]
  /\ today' = [today EXCEPT ![p] = day]
  /\ UNCHANGED <<day, kills, diskVars, homeVars, put, todo, chal, uploaded,
                 nodeVars, pcVars>>

IsNext(p) == dpc[p] = "next" /\ todo[p] # {}

(* The PC has since marked the token this clean was sent with as consumed. *)
WasTaken(p) ==
  /\ At(p).was.token # Nothing
  /\ chal[p] # Nothing
  /\ chal[p].token = At(p).was.token
  /\ chal[p].consumed

(* Mutants of IsPast: no same-day guard, and one that comes after the test  *)
(* for a challenge.                                                        *)
NeverPast(p) == FALSE

IsPastOnline(p) ==
  chal[p] # Nothing /\ begun[At(p).clean] # today[p]

IsPast(p) == begun[At(p).clean] # today[p]

PutAt(p, m, pc) ==
  /\ StartPut(p, At(p).clean, m)
  /\ dpc' = [dpc EXCEPT ![p] = pc]
  /\ UNCHANGED <<todo, chal, today>>

Settle(p) ==
  /\ IsNext(p) /\ WasTaken(p)
  /\ PutAt(p, [At(p).was EXCEPT !.status = "accepted"], "settling")
  /\ UNCHANGED <<day, kills, diskVars, homeVars, uploaded, nodeVars, pcVars>>

KeepAsRecord(p) ==
  /\ IsNext(p) /\ ~WasTaken(p) /\ IsPast(p)
  /\ PutAt(p, [At(p).was EXCEPT !.status = "rejected"], "settling")
  /\ UNCHANGED <<day, kills, diskVars, homeVars, uploaded, nodeVars, pcVars>>

LeaveWaiting(p) ==
  /\ IsNext(p) /\ ~WasTaken(p)
  /\ ~IsPast(p) /\ ~IsSatisfiable(chal[p])
  /\ NextOne(p)
  /\ UNCHANGED <<day, kills, diskVars, homeVars, put, uploaded, nodeVars, pcVars>>

(* Mutant of PayloadAt: the stored token, not the challenge's, is echoed.  *)
PayloadStored(p) == [clean |-> At(p).clean, captured |-> begun[At(p).clean],
                     token |-> At(p).was.token]

PayloadAt(p) == [clean |-> At(p).clean, captured |-> begun[At(p).clean],
                 token |-> chal[p].token]

MaySend(p) == /\ IsNext(p) /\ ~WasTaken(p)
              /\ ~IsPast(p) /\ IsSatisfiable(chal[p])

(* _send reads and encodes the photos ...                                  *)
StartSend(p) ==
  /\ MaySend(p)
  /\ dpc' = [dpc EXCEPT ![p] = "sending"]
  /\ UNCHANGED <<day, kills, diskVars, homeVars, put, todo, chal, today,
                 uploaded, nodeVars, pcVars>>

(* ... uploadEvidence: the write lands, and the token is recorded before   *)
(* the PC is asked ...                                                     *)
Send(p) ==
  /\ dpc[p] = "sending"
  /\ evNode' = PayloadAt(p)
  /\ uploaded' = uploaded \cup {At(p).clean}
  /\ PutAt(p, [At(p).was EXCEPT !.token = chal[p].token], "recording")
  /\ UNCHANGED <<day, kills, diskVars, homeVars, chalNode, pcVars>>

(* ... or it is reported as failed, whether or not it landed; or there was *)
(* no photo to send.                                                       *)
SendFails(p) ==
  /\ dpc[p] = "sending"
  /\ \/ UNCHANGED <<evNode, uploaded>>
     \/ /\ evNode' = PayloadAt(p)
        /\ uploaded' = uploaded \cup {At(p).clean}
  /\ NextOne(p)
  /\ UNCHANGED <<day, kills, diskVars, homeVars, put, chalNode, pcVars>>

(* Mutant of Confirm: the copy from before the upload is marked accepted.   *)
ConfirmUnsent(p) ==
  /\ dpc[p] = "confirm"
  /\ evNode = Nothing
  /\ PutAt(p, [At(p).was EXCEPT !.status = "accepted"], "settling")
  /\ UNCHANGED <<day, kills, diskVars, homeVars, uploaded, nodeVars, pcVars>>

(* evidenceDrained: an empty node is read as "the PC took it".             *)
Confirm(p) ==
  /\ dpc[p] = "confirm"
  /\ evNode = Nothing
  /\ PutAt(p, [status |-> "accepted", token |-> chal[p].token], "settling")
  /\ UNCHANGED <<day, kills, diskVars, homeVars, uploaded, nodeVars, pcVars>>

(* confirmAttempts reads found it full, or could not read it.              *)
GiveUp(p) ==
  /\ dpc[p] = "confirm"
  /\ NextOne(p)
  /\ UNCHANGED <<day, kills, diskVars, homeVars, put, uploaded, nodeVars, pcVars>>

(* The drain returns; _finish, if it is waiting for it, drops _session.    *)
EndDrain(p) ==
  /\ dpc[p] \in {"fetch", "next"} /\ todo[p] = {}
  /\ dpc' = [dpc EXCEPT ![p] = "idle"]
  /\ chal' = [chal EXCEPT ![p] = Nothing]
  /\ today' = [today EXCEPT ![p] = Nothing]
  /\ finisher' = finisher \ {p}
  /\ IF p \in finisher
       THEN current' = Nothing /\ phase' = "shown"
       ELSE UNCHANGED <<current, phase>>
  /\ UNCHANGED <<day, kills, diskVars, todo, put, uploaded, nodeVars, pcVars>>

(* The app is closed by Android or by hand: only the disk survives.        *)
AppKilled ==
  /\ kills < MaxKills
  /\ kills' = kills + 1
  /\ current' = Nothing /\ phase' = "shown" /\ finisher' = {}
  /\ put' = [w \in Clients |-> Nothing]
  /\ dpc' = [p \in Drains |-> "idle"] /\ todo' = [p \in Drains |-> {}]
  /\ chal' = [p \in Drains |-> Nothing] /\ today' = [p \in Drains |-> Nothing]
  /\ UNCHANGED <<day, diskVars, uploaded, nodeVars, pcVars>>

-----------------------------------------------------------------------------
(* The PC, as much of it as the phone can see.                             *)

PhoneSame == UNCHANGED <<kills, diskVars, homeVars, queueVars>>

(* The day's slot is due: mint its challenge, or find the one it has, and  *)
(* publish it, which may fail.                                             *)
PcArm ==
  /\ ppc = "off"
  /\ \A e \in credited : e.captured # day
  /\ ppc' = "armed"
  /\ minted' = minted \cup {day}
  /\ \/ chalNode' = [token |-> day, consumed |-> day \in spent]
     \/ UNCHANGED chalNode
  /\ UNCHANGED <<day, evNode, pheld, spent, credited>> /\ PhoneSame

PcFetch ==
  /\ ppc = "armed" /\ evNode # Nothing
  /\ ppc' = "took" /\ pheld' = evNode
  /\ UNCHANGED <<day, nodeVars, minted, spent, credited>> /\ PhoneSame

(* process_evidence refuses it -- a consumed token, or photos or a zone it *)
(* does not take -- and leaves it on the node.                             *)
PcRefuse ==
  /\ ppc = "took"
  /\ ppc' = "armed" /\ pheld' = Nothing
  /\ UNCHANGED <<day, nodeVars, minted, spent, credited>> /\ PhoneSame

(* append_clear_entry and consume_challenge (LockGate has the crash that   *)
(* can come between them) ...                                              *)
PcCredit ==
  /\ ppc = "took" /\ pheld.token \in minted \ spent
  /\ ppc' = "spent"
  /\ credited' = credited \cup {pheld}
  /\ spent' = spent \cup {pheld.token}
  /\ UNCHANGED <<day, nodeVars, pheld, minted>> /\ PhoneSame

(* ... then the consumed record is published and the evidence node emptied, *)
(* whatever it holds by now, both of which may fail; the lock closes.      *)
PcClose ==
  /\ ppc = "spent"
  /\ ppc' = "off" /\ pheld' = Nothing
  /\ chalNode' \in {[token |-> pheld.token, consumed |-> TRUE], chalNode}
  /\ evNode' \in {Nothing, evNode}
  /\ UNCHANGED <<day, minted, spent, credited>> /\ PhoneSame

(* Switched off, crashed, or the lock was left another way.                *)
PcStops ==
  /\ ppc # "off"
  /\ ppc' = "off" /\ pheld' = Nothing
  /\ UNCHANGED <<day, nodeVars, minted, spent, credited>> /\ PhoneSame

Midnight ==
  /\ day < MaxDay
  /\ day' = day + 1
  /\ UNCHANGED <<nodeVars, pcVars>> /\ PhoneSame

-----------------------------------------------------------------------------
DrainStep(p) ==
  \/ Fetch(p) \/ ReadToday(p) \/ Settle(p) \/ KeepAsRecord(p)
  \/ LeaveWaiting(p) \/ StartSend(p) \/ Send(p) \/ SendFails(p)
  \/ Confirm(p) \/ GiveUp(p) \/ EndDrain(p)

User == \/ \E c \in Cleans : TakePhoto(c)
        \/ Finish
        \/ \E p \in Drains : Refresh(p)

Pc == \/ PcArm \/ PcFetch \/ PcRefuse \/ PcCredit \/ PcClose
      \/ PcStops

Next ==
  \/ User \/ AppKilled \/ Midnight \/ Pc
  \/ \E p \in Drains : FinishDrain(p) \/ DrainStep(p)
  \/ \E w \in Clients : PutLoad(w) \/ PutSave(w)

Spec == Init /\ [][Next]_vars

(* Every await of the phone's own handlers returns, and the app is opened  *)
(* (or refreshed) again and again.  Nothing is asked of the network, the   *)
(* PC or what the user photographs.                                        *)
Fairness ==
  /\ \A p \in Drains : WF_vars(DrainStep(p)) /\ WF_vars(FinishDrain(p))
  /\ \A w \in Clients : WF_vars(PutLoad(w)) /\ WF_vars(PutSave(w))
  /\ WF_vars(\E p \in Drains : Refresh(p))

FairSpec == Spec /\ Fairness

-----------------------------------------------------------------------------
(* Every variable has its type.                                            *)
TypeOK ==
  /\ day \in Days /\ kills \in 0 .. MaxKills
  /\ index \in Index
  /\ begun \in [Cleans -> Days \cup {Nothing}]
  /\ current \in Cleans \cup {Nothing}
  /\ phase \in {"shown", "ready", "busy"}
  /\ finisher \subseteq Drains \cup {"due"}
  /\ put \in [Clients -> Put \cup {Nothing}]
  /\ dpc \in [Drains -> {"idle", "fetch", "fetched", "next", "settling",
                         "sending", "recording", "confirm"}]
  /\ todo \in [Drains -> SUBSET [clean : Cleans, was : Manifest]]
  /\ chal \in [Drains -> Challenge \cup {Nothing}]
  /\ today \in [Drains -> Days \cup {Nothing}]
  /\ uploaded \subseteq Cleans
  /\ chalNode \in Challenge \cup {Nothing}
  /\ evNode \in Payload \cup {Nothing}
  /\ ppc \in {"off", "armed", "took", "spent"}
  /\ pheld \in Payload \cup {Nothing}
  /\ minted \subseteq Days /\ spent \subseteq minted
  /\ credited \subseteq Payload

(* A clean is only ever credited against the challenge of the day it was   *)
(* done, whatever midnights fall between the drain's three looks at the    *)
(* clock and the PC's work: yesterday's cleaning never spends today's      *)
(* token (the drain's same-day guard, upload_queue.dart).                  *)
SpendsOwnDay == \A e \in credited : e.captured = e.token

(* A manifest that names a token stands for a payload that did reach the   *)
(* node, sent for that clean's own day, and no clean is shown as accepted  *)
(* without one, whichever stale copies the clients of the store write back *)
(* over each other.                                                        *)
AcceptedWasSent ==
  \A c \in Cleans : index[c] # Nothing =>
    /\ index[c].token # Nothing => c \in uploaded /\ index[c].token = begun[c]
    /\ index[c].status = "accepted" => index[c].token # Nothing

(* A clean of a past day does not stay queued, even if the network never   *)
(* comes back: a later drain settles it or keeps it as a record.           *)
PastCleansSettle ==
  \A c \in Cleans :
    (index[c] # Nothing /\ index[c].status = "queued" /\ begun[c] < day)
      ~> (index[c] = Nothing \/ index[c].status # "queued")

(* What upload_queue.dart says of the confirm loop -- anything less than    *)
(* the PC's own drain stays queued "rather than being shown a green tick   *)
(* it did not earn" -- and of settling: the clean "WAS taken".  Neither an *)
(* empty node nor a consumed token says which clean the PC took.           *)
AcceptedWasCredited ==
  \A c \in Cleans : (index[c] # Nothing /\ index[c].status = "accepted") =>
    \E e \in credited : e.clean = c

(* The caption a clean is kept with: "the PC was not running on the day    *)
(* this was cleaned, so it could not be credited" (upload_queue.dart:      *)
(* 103-104).  An upload that landed but was reported as failed leaves no    *)
(* token to settle by, and one that has a token is settled only if the PC  *)
(* could announce it as spent before the next day's challenge came.        *)
RejectedWasNotCredited ==
  \A c \in Cleans : (index[c] # Nothing /\ index[c].status = "rejected") =>
    ~\E e \in credited : e.clean = c

(* clean_session.dart:41, of a draft: "Being photographed right now".  Only *)
(* _session says which draft that is, and nothing restores it from the     *)
(* index: a draft that the app was killed over, or that a drain's old copy *)
(* of the index brought back, stays one, and no drain will ever send it.   *)
DraftIsBeingPhotographed ==
  \A c \in Cleans : (index[c] # Nothing /\ index[c].status = "draft") =>
    current = c \/ (put["screen"] # Nothing /\ put["screen"].clean = c)
=============================================================================
