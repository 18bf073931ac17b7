---------------------------- MODULE ZoneHistory -----------------------------
(***************************************************************************)
(* The zone rotation's history of edits, which the PC keeps in .zone_list  *)
(* and the phone in a cache, each editing its own copy and both publishing *)
(* whole histories to one RTDB node with no lock: `home_guard zones'       *)
(* (home_guard/_cli_zones.py, _zone_list.py, _zone_merge.py,               *)
(* _sync_zones.py) and the phone's zone screens (app/lib/services/         *)
(* zone_sync.dart, models/zone_history.dart).                              *)
(*                                                                         *)
(* A history has at most one edit per day, keyed by the day it takes       *)
(* effect; the list of zones an edit sets is left out, since which edit    *)
(* stands says which list does.  Each device stamps its edits by its own   *)
(* clock, in UTC, and reads its day in its own time zone: a device's       *)
(* stamps may be ahead of the other's, and its day may be another.         *)
(***************************************************************************)
EXTENDS Naturals, Sequences

CONSTANTS
  MaxDay,   \* days the model runs for                          (bound)
  MaxEdits, \* edits made by either device after init           (bound)
  MaxStamp, \* the latest stamp of either clock                 (bound)
  Loads,    \* ZoneSync.load calls that can be under way at once (bound)
  Saves,    \* ZoneSync.setZones calls, likewise                (bound)
  Nothing   \* absent: no edit for a day, no history

Devices == {"pc", "phone"}
Days    == 0 .. MaxDay      \* 0 is the epoch, where `init' puts its default
Edit    == [t : 0 .. MaxStamp, by : Devices]
Seed    == [t |-> 0, by |-> "pc"]
History == [Days -> Edit \cup {Nothing}]

ASSUME ZoneHistoryAssumption ==
  /\ MaxDay \in Nat \ {0} /\ MaxEdits \in Nat /\ MaxStamp \in Nat
  /\ Nothing \notin Edit \cup History

VARIABLES
  made,   \* the edits in the order they were made, whatever their stamps
  day,    \* each device's local day
  file,   \* .zone_list on the PC
  cache,  \* the phone's cached history
  node,   \* the published history, or Nothing
  cmd,    \* where the PC's `zones' command stands, and the day it began on
  heard,  \* the history the command fetched
  load,   \* each load call: its step, its day, the cache it read, the remote
  save    \* each setZones call: its step and the history it made

pcVars    == <<file, cmd, heard>>
phoneVars == <<cache, load, save>>
vars == <<made, day, node, pcVars, phoneVars>>

Empty == [d \in Days |-> Nothing]

(* edited_at compared as a string: equal instants end in "Z" on the phone  *)
(* and in "+00:00" on the PC, and the first is the greater.                *)
Later(e, f) ==
  \/ e.t > f.t
  \/ e.t = f.t /\ e.by = "phone" /\ f.by = "pc"

Beats(e, f) == f = Nothing \/ Later(e, f)

(* Mutants of Merge: without the rule about the past, without the stamps,  *)
(* with today counted as past.                                             *)
MergeAnyDay(local, remote, today) ==
  [d \in Days |->
    IF remote[d] # Nothing /\ Beats(remote[d], local[d])
    THEN remote[d] ELSE local[d]]

MergeRemoteWins(local, remote, today) ==
  [d \in Days |->
    IF remote[d] # Nothing /\ ~(d < today /\ local[d] # Nothing)
    THEN remote[d] ELSE local[d]]

MergeNotToday(local, remote, today) ==
  [d \in Days |->
    IF /\ remote[d] # Nothing
       /\ ~(d =< today /\ local[d] # Nothing)
       /\ Beats(remote[d], local[d])
    THEN remote[d] ELSE local[d]]

(* merge_histories on the PC: the later edit of a day wins, but the past   *)
(* is not the remote's to replace -- only to fill.                         *)
Merge(local, remote, today) ==
  [d \in Days |->
    IF /\ remote[d] # Nothing
       /\ ~(d < today /\ local[d] # Nothing)
       /\ Beats(remote[d], local[d])
    THEN remote[d] ELSE local[d]]

(* Mutant of PhoneMerge: today counts as past.                             *)
PhoneMergeNotToday(mine, theirs, today) ==
  [d \in Days |->
    CASE theirs[d] = Nothing -> mine[d]
      [] theirs[d] # Nothing /\ mine[d] = Nothing -> theirs[d]
      [] OTHER -> IF d > today /\ Later(theirs[d], mine[d])
                  THEN theirs[d] ELSE mine[d]]

(* ZoneHistory.merge on the phone, written a second time in Dart.          *)
PhoneMerge(mine, theirs, today) ==
  [d \in Days |->
    CASE theirs[d] = Nothing -> mine[d]
      [] theirs[d] # Nothing /\ mine[d] = Nothing -> theirs[d]
      [] OTHER -> IF d >= today /\ Later(theirs[d], mine[d])
                  THEN theirs[d] ELSE mine[d]]

(* An edit and its stamp, by the device's clock: any that it has not used. *)
(* (Of the instants up to that of init's default, whose day no edit is     *)
(* for, one is enough.)                                                    *)
Stamped(by, e) ==
  /\ Len(made) =< MaxEdits
  /\ e.by = by /\ e.t > 0 /\ \A i \in 1 .. Len(made) : made[i] # e
  /\ made' = Append(made, e)

(* record_zone_list_change and withRotation: the new edit takes the place  *)
(* of whatever the history has for its day.                                *)
Replaced(h, d, e) == [h EXCEPT ![d] = e]

Init ==
  /\ made = <<Seed>> /\ day = [x \in Devices |-> 1]
  /\ file \in {Empty, [Empty EXCEPT ![0] = Seed]}
  /\ cache = Empty /\ node = Nothing
  /\ cmd = [at |-> "idle", today |-> 1] /\ heard = Nothing
  /\ load = [l \in Loads |->
               [at |-> "idle", today |-> 1, cached |-> Empty, remote |-> Nothing]]
  /\ save = [s \in Saves |-> [at |-> "idle", updated |-> Empty]]

-----------------------------------------------------------------------------
(* cmd_zones on the PC.                                                    *)

CmdStart ==
  /\ cmd.at = "idle"
  /\ cmd' = [at |-> "fetch", today |-> day["pc"]]
  /\ UNCHANGED <<made, day, node, file, heard, phoneVars>>

(* fetch_zone_history: None when there is none or it cannot be read.       *)
CmdFetch ==
  /\ cmd.at = "fetch"
  /\ cmd' = [cmd EXCEPT !.at = "merge"]
  /\ heard' \in {node, Nothing}
  /\ UNCHANGED <<made, day, node, file, phoneVars>>

(* The rest of _pull.                                                      *)
Pull ==
  /\ cmd.at = "merge"
  /\ cmd' = [cmd EXCEPT !.at = "edit"]
  /\ file' = IF heard = Nothing THEN file ELSE Merge(file, heard, cmd.today)
  /\ heard' = Nothing
  /\ UNCHANGED <<made, day, node, phoneVars>>

(* --set, --add or --remove, from --effective-from or else from the day    *)
(* the command began on.                                                   *)
Record(d, e) ==
  /\ cmd.at = "edit" /\ d >= cmd.today
  /\ Stamped("pc", e)
  /\ file' = Replaced(file, d, e)
  /\ cmd' = [cmd EXCEPT !.at = "publish"]
  /\ UNCHANGED <<day, node, heard, phoneVars>>

(* publish_zone_history: the whole local history over the node's, if it    *)
(* can be written.                                                         *)
Publish ==
  /\ cmd.at = "publish"
  /\ cmd' = [cmd EXCEPT !.at = "idle"]
  /\ node' \in {file, node}
  /\ UNCHANGED <<made, day, file, heard, phoneVars>>

(* Nothing was asked to be changed, the edit was refused, or the command   *)
(* was interrupted.                                                        *)
CmdEnd ==
  /\ cmd.at # "idle"
  /\ cmd' = [cmd EXCEPT !.at = "idle"]
  /\ heard' = Nothing
  /\ UNCHANGED <<made, day, node, file, phoneVars>>

-----------------------------------------------------------------------------
(* ZoneSync.load, called by the home, zone and log-a-clean screens.        *)

LoadStart(l) ==
  /\ load[l].at = "idle"
  /\ load' = [load EXCEPT ![l].at = "fetch", ![l].today = day["phone"],
                          ![l].cached = cache]
  /\ UNCHANGED <<made, day, node, pcVars, cache, save>>

LoadFetch(l) ==
  /\ load[l].at = "fetch"
  /\ \E r \in {node, Nothing} :
       load' = [load EXCEPT ![l].at = "write", ![l].remote = r]
  /\ UNCHANGED <<made, day, node, pcVars, cache, save>>

(* Mutant of LoadWrite: the cache is replaced by whatever was fetched.      *)
LoadReplaces(l) ==
  /\ load[l].at = "write"
  /\ load' = [load EXCEPT ![l] = [@ EXCEPT !.at = "idle", !.remote = Nothing]]
  /\ cache' = load[l].remote
  /\ UNCHANGED <<made, day, node, pcVars, save>>

(* The cache as it was read, merged with the remote, is written back.      *)
LoadWrite(l) ==
  /\ load[l].at = "write"
  /\ load' = [load EXCEPT ![l] = [@ EXCEPT !.at = "idle", !.remote = Nothing]]
  /\ cache' = IF load[l].remote = Nothing THEN cache
              ELSE PhoneMerge(load[l].cached, load[l].remote, load[l].today)
  /\ UNCHANGED <<made, day, node, pcVars, save>>

-----------------------------------------------------------------------------
(* ZoneSync.setZones, called by every change on the zone screen.           *)

SaveStart(s, e) ==
  /\ save[s].at = "idle"
  /\ Stamped("phone", e)
  /\ save' = [save EXCEPT ![s] =
                [at |-> "write", updated |-> Replaced(cache, day["phone"], e)]]
  /\ UNCHANGED <<day, node, pcVars, cache, load>>

SaveWrite(s) ==
  /\ save[s].at = "write"
  /\ save' = [save EXCEPT ![s].at = "publish"]
  /\ cache' = save[s].updated
  /\ UNCHANGED <<made, day, node, pcVars, load>>

(* No merge here: the node becomes what this phone knows, or stays.        *)
SavePublish(s) ==
  /\ save[s].at = "publish"
  /\ save' = [save EXCEPT ![s].at = "idle"]
  /\ node' \in {save[s].updated, node}
  /\ UNCHANGED <<made, day, pcVars, cache, load>>

-----------------------------------------------------------------------------
(* The app is closed: what its handlers held is gone.                      *)
AppKilled ==
  /\ load' = [l \in Loads |-> [load[l] EXCEPT !.at = "idle", !.remote = Nothing]]
  /\ save' = [s \in Saves |-> [save[s] EXCEPT !.at = "idle"]]
  /\ UNCHANGED <<made, day, node, pcVars, cache>>

(* Midnight comes at a different moment where the other device's time zone *)
(* says so.                                                                *)
Midnight(x) ==
  /\ day[x] < MaxDay
  /\ \A y \in Devices : day[x] =< day[y]
  /\ day' = [day EXCEPT ![x] = @ + 1]
  /\ UNCHANGED <<made, node, pcVars, phoneVars>>

Cmd == \/ CmdStart \/ CmdFetch \/ Pull \/ Publish \/ CmdEnd
       \/ \E d \in Days, e \in Edit : Record(d, e)

Phone ==
  \/ \E l \in Loads : LoadStart(l) \/ LoadFetch(l) \/ LoadWrite(l)
  \/ \E s \in Saves, e \in Edit : SaveStart(s, e)
  \/ \E s \in Saves : SaveWrite(s) \/ SavePublish(s)
  \/ AppKilled

Next == Cmd \/ Phone \/ \E x \in Devices : Midnight(x)

Spec == Init /\ [][Next]_vars

(* The phone's screens, and with them load, are opened again and again and *)
(* the command is run again and again; a setZones that was begun goes on   *)
(* unless it is killed.  That a publish ever succeeds is not assumed.      *)
FairSpec ==
  /\ Spec
  /\ \A l \in Loads : WF_vars(LoadStart(l) \/ LoadFetch(l) \/ LoadWrite(l))
  /\ \A s \in Saves : WF_vars(SaveWrite(s) \/ SavePublish(s))
  /\ WF_vars(Cmd)

(* Of many fetches one gets through, and of many calls that fetched        *)
(* something one is not killed before it has written: on the phone, on the *)
(* PC.                                                                     *)
Heard(l) == LoadFetch(l) /\ load'[l].remote = node

PhoneGetsThrough ==
  \A l \in Loads :
    /\ SF_vars(Heard(l))
    /\ SF_vars(LoadWrite(l) /\ load[l].remote # Nothing)

PcGetsThrough ==
  /\ SF_vars(CmdFetch /\ heard' = node)
  /\ SF_vars(Pull /\ heard # Nothing)

-----------------------------------------------------------------------------
(* Every variable has its type.                                            *)
TypeOK ==
  /\ made \in Seq(Edit)
  /\ day \in [Devices -> Days]
  /\ file \in History /\ cache \in History
  /\ node \in History \cup {Nothing}
  /\ cmd \in [at : {"idle", "fetch", "merge", "edit", "publish"}, today : Days]
  /\ heard \in History \cup {Nothing}
  /\ load \in [Loads -> [at : {"idle", "fetch", "write"}, today : Days,
                         cached : History, remote : History \cup {Nothing}]]
  /\ save \in [Saves -> [at : {"idle", "write", "publish"}, updated : History]]

(* Rule 3 of _zone_merge.py as the gate needs it: whatever the phone made, *)
(* cached or published, with whatever day, no step of the PC's command     *)
(* replaces or drops what .zone_list says for a day before it began.       *)
PcKeepsItsPast ==
  [][\A d \in Days : (d < cmd.today /\ file[d] # Nothing) => file'[d] = file[d]]_file

(* e was made before f, whatever their stamps say.                         *)
Before(edits, e, f) ==
  \E i, j \in 1 .. Len(edits) : i < j /\ edits[i] = e /\ edits[j] = f

(* The two clocks agree as far as it shows: every edit is stamped later    *)
(* than those made before it.                                              *)
InStep(edits) ==
  \A i, j \in 1 .. Len(edits) : i < j => Later(edits[j], edits[i])

(* Each edit of the old history is still there or has given way to one     *)
(* that was made after it.                                                 *)
Follows(edits, new, old) ==
  \A d \in Days : old[d] # Nothing =>
    new[d] = old[d] \/ Before(edits, old[d], new[d])

(* As long as the clocks are in step, no edit the PC knows is dropped, or  *)
(* undone by one that was made before it: the stale histories that the     *)
(* phone publishes without merging bring nothing back.                     *)
PcMovesForward == [][InStep(made') => Follows(made', file', file)]_vars

(* _zone_merge.py's "must land on the same result", where it can: from     *)
(* today on, the PC's merge of the two copies and the phone's, one in      *)
(* Python and one in Dart, are the same history, and merging again what    *)
(* was merged already changes nothing.                                     *)
MergesAgree ==
  \A today \in Days :
    LET onPc    == Merge(file, cache, today)
        onPhone == PhoneMerge(cache, file, today)
    IN  /\ \A d \in Days : d >= today => onPc[d] = onPhone[d]
        /\ Merge(onPc, cache, today) = onPc
        /\ PhoneMerge(onPhone, file, today) = onPhone

(* What the node says of the days from `today' on, the copy says too, or   *)
(* the copy has a later edit.                                              *)
UpToDate(copy, today) ==
  node # Nothing =>
    \A d \in today .. MaxDay : node[d] # Nothing =>
      copy[d] # Nothing /\ ~Later(node[d], copy[d])

(* zone_sync.dart, load: a phone whose fetches get through now and then    *)
(* does not stay behind what is published, whatever it edited itself, and  *)
(* however often the app is killed or a load writes an old cache back.     *)
PhoneCatchesUp ==
  PhoneGetsThrough => []<>UpToDate(cache, day["phone"])

(* _cli_zones.py, _pull: nor does the PC, whose command merges before it   *)
(* does anything else, even if it is interrupted at every later step.      *)
PcCatchesUp == PcGetsThrough => []<>UpToDate(file, day["pc"])

-----------------------------------------------------------------------------
(* Statements of the repository that the code does not keep.               *)

(* _zone_merge.py: "the later edit wins".  With a phone's clock ahead, an  *)
(* edit on the PC replaces a pulled one that was made earlier but stamped  *)
(* later, and the next pull brings that one back.                          *)
LaterEditWins == [][Follows(made', file', file)]_vars

(* zone_sync.dart: "losing the network must never lose the edit".  An edit *)
(* in the phone's cache only ever gives way to a later one, the clocks     *)
(* being in step.                                                          *)
CachedEditSurvives == [][InStep(made') => Follows(made', cache', cache)]_vars

(* zone_sync.dart:125-126: "an edit made with no signal survives and is    *)
(* pushed by the next successful [load]/[setZones]".  load only fetches:   *)
(* an edit whose publish failed stays on the phone however many loads      *)
(* succeed, until the phone makes another.                                 *)
CachedEditIsPushed ==
  PhoneGetsThrough => \A d \in Days : \A e \in Edit :
    cache[d] = e ~> (node # Nothing /\ node[d] # Nothing /\ ~Later(e, node[d]))
=============================================================================
