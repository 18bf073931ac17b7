-------------------------- MODULE ZoneHistoryProofs --------------------------
(***************************************************************************)
(* What holds of ZoneHistory for every number of days, edits, stamps and   *)
(* handlers: the PC's past is not rewritten, its history only moves        *)
(* forward while the clocks are in step, and the two devices' merges agree *)
(* from today on whatever the clocks say.                                  *)
(***************************************************************************)
EXTENDS ZoneHistory, SequenceTheorems, TLAPS

(* Every copy of the history that some device, handler or node holds ...   *)
Copies == {file, cache} \cup ({node, heard} \ {Nothing})
          \cup {load[l].cached : l \in Loads}
          \cup ({load[l].remote : l \in Loads} \ {Nothing})
          \cup {save[s].updated : s \in Saves}

(* ... and the edits in them.                                              *)
Edits == {e \in Edit : \E h \in Copies : \E d \in Days : h[d] = e}

(* Copies may be old, but hold nothing that was not made.                  *)
Known == \A e \in Edits : \E i \in 1 .. Len(made) : made[i] = e

IInv == TypeOK /\ Known

(* A merge takes each day's edit from one side or the other.               *)
LEMMA MergeOfTwo ==
  ASSUME NEW a \in History, NEW b \in History, NEW today
  PROVE  /\ Merge(a, b, today) \in History
         /\ \A d \in Days : Merge(a, b, today)[d] \in {a[d], b[d]}
BY DEF Merge, History

LEMMA PhoneMergeOfTwo ==
  ASSUME NEW a \in History, NEW b \in History, NEW today
  PROVE  /\ PhoneMerge(a, b, today) \in History
         /\ \A d \in Days : PhoneMerge(a, b, today)[d] \in {a[d], b[d]}
BY DEF PhoneMerge, History

LEMMA ReplacedType ==
  ASSUME NEW h \in History, NEW d \in Days, NEW e \in Edit
  PROVE  /\ Replaced(h, d, e) \in History
         /\ \A c \in Days : Replaced(h, d, e)[c] \in {h[c], e}
BY DEF Replaced, History

(* One more edit, after all the others.                                    *)
LEMMA StampedEdit ==
  ASSUME NEW by, NEW e \in Edit, made \in Seq(Edit), Stamped(by, e)
  PROVE  /\ made' \in Seq(Edit) /\ Len(made) \in Nat
         /\ Len(made') = Len(made) + 1 /\ made'[Len(made) + 1] = e
         /\ \A i \in 1 .. Len(made) : made'[i] = made[i] /\ made[i] # e
BY AppendProperties, LenProperties DEF Stamped

LEMMA CopiesType ==
  ASSUME TypeOK
  PROVE  Copies \subseteq History
BY DEF Copies, TypeOK

LEMMA TypeInit == Init => TypeOK
<1> SUFFICES ASSUME Init PROVE TypeOK
  OBVIOUS
<1>1. Empty \in History /\ 0 \in Days /\ 1 \in Days
  BY ZoneHistoryAssumption DEF Empty, History, Days
<1>2. Seed \in Edit
  BY ZoneHistoryAssumption DEF Seed, Edit, Devices
<1>3. file \in History
  BY <1>1, <1>2 DEF Init, History
<1>4. made \in Seq(Edit)
  BY <1>2 DEF Init
<1>5. /\ day \in [Devices -> Days] /\ cache \in History
      /\ node \in History \cup {Nothing} /\ heard \in History \cup {Nothing}
      /\ cmd \in [at : {"idle", "fetch", "merge", "edit", "publish"}, today : Days]
  BY <1>1 DEF Init
<1>6. load \in [Loads -> [at : {"idle", "fetch", "write"}, today : Days,
                          cached : History, remote : History \cup {Nothing}]]
  BY <1>1 DEF Init
<1>7. save \in [Saves -> [at : {"idle", "write", "publish"}, updated : History]]
  BY <1>1 DEF Init
<1> QED BY <1>3, <1>4, <1>5, <1>6, <1>7 DEF TypeOK

LEMMA TypeNext == TypeOK /\ [Next]_vars => TypeOK'
<1> SUFFICES ASSUME TypeOK, [Next]_vars PROVE TypeOK'
  OBVIOUS
<1> USE DEF pcVars, phoneVars, vars
<1>1. CASE CmdStart
  BY <1>1 DEF CmdStart, TypeOK, Devices
<1>2. CASE CmdFetch
  BY <1>2 DEF CmdFetch, TypeOK
<1>3. CASE Pull
  <2>1. file' \in History
    BY <1>3, MergeOfTwo DEF Pull, TypeOK
  <2> QED BY <1>3, <2>1 DEF Pull, TypeOK
<1>4. ASSUME NEW d \in Days, NEW e \in Edit, Record(d, e)
      PROVE  TypeOK'
  <2>1. file' \in History /\ made' \in Seq(Edit)
    BY <1>4, ReplacedType, StampedEdit DEF Record, TypeOK
  <2> QED BY <1>4, <2>1 DEF Record, TypeOK
<1>5. CASE Publish
  BY <1>5 DEF Publish, TypeOK
<1>6. CASE CmdEnd
  BY <1>6 DEF CmdEnd, TypeOK
<1>7. ASSUME NEW l \in Loads, LoadStart(l)
      PROVE  TypeOK'
  <2>1. load[l] \in [at : {"idle", "fetch", "write"}, today : Days,
                     cached : History, remote : History \cup {Nothing}]
    BY DEF TypeOK
  <2>2. load'[l] = [load[l] EXCEPT !.at = "fetch", !.today = day["phone"],
                                   !.cached = cache]
    BY <1>7, <2>1 DEF LoadStart, TypeOK
  <2>3. day["phone"] \in Days /\ cache \in History
    BY DEF TypeOK, Devices
  <2> QED BY <1>7, <2>1, <2>2, <2>3 DEF LoadStart, TypeOK
<1>8. ASSUME NEW l \in Loads, LoadFetch(l)
      PROVE  TypeOK'
  <2>1. PICK r \in {node, Nothing} :
          load' = [load EXCEPT ![l].at = "write", ![l].remote = r]
    BY <1>8 DEF LoadFetch
  <2>2. r \in History \cup {Nothing}
    BY DEF TypeOK
  <2>3. load[l] \in [at : {"idle", "fetch", "write"}, today : Days,
                     cached : History, remote : History \cup {Nothing}]
    BY DEF TypeOK
  <2>4. load' = [load EXCEPT ![l] = [load[l] EXCEPT !.at = "write", !.remote = r]]
    BY <2>1, <2>3 DEF TypeOK
  <2> QED BY <1>8, <2>2, <2>3, <2>4 DEF LoadFetch, TypeOK
<1>9. ASSUME NEW l \in Loads, LoadWrite(l)
      PROVE  TypeOK'
  <2>1. cache' \in History
    BY <1>9, PhoneMergeOfTwo DEF LoadWrite, TypeOK
  <2> QED BY <1>9, <2>1 DEF LoadWrite, TypeOK
<1>10. ASSUME NEW s \in Saves, NEW e \in Edit, SaveStart(s, e)
       PROVE  TypeOK'
  <2>1. Replaced(cache, day["phone"], e) \in History /\ made' \in Seq(Edit)
    BY <1>10, ReplacedType, StampedEdit DEF SaveStart, TypeOK, Devices
  <2> QED BY <1>10, <2>1 DEF SaveStart, TypeOK
<1>11. ASSUME NEW s \in Saves, SaveWrite(s) \/ SavePublish(s)
       PROVE  TypeOK'
  <2>1. /\ save[s] \in [at : {"idle", "write", "publish"}, updated : History]
        /\ save[s].updated \in History
    BY DEF TypeOK
  <2>2. CASE SaveWrite(s)
    <3>1. save' = [save EXCEPT ![s] = [save[s] EXCEPT !.at = "publish"]]
      BY <2>1, <2>2 DEF SaveWrite
    <3> QED BY <2>1, <2>2, <3>1 DEF SaveWrite, TypeOK
  <2>3. CASE SavePublish(s)
    <3>1. save' = [save EXCEPT ![s] = [save[s] EXCEPT !.at = "idle"]]
      BY <2>1, <2>3 DEF SavePublish
    <3> QED BY <2>1, <2>3, <3>1 DEF SavePublish, TypeOK
  <2> QED BY <1>11, <2>2, <2>3
<1>12. CASE AppKilled
  BY <1>12 DEF AppKilled, TypeOK
<1>13. ASSUME NEW x \in Devices, Midnight(x)
       PROVE  TypeOK'
  BY <1>13, ZoneHistoryAssumption DEF Midnight, TypeOK, Days
<1>14. CASE UNCHANGED vars
  BY <1>14 DEF TypeOK
<1> QED BY <1>1, <1>2, <1>3, <1>4, <1>5, <1>6, <1>7, <1>8, <1>9, <1>10, <1>11,
           <1>12, <1>13, <1>14 DEF Next, Cmd, Phone

(* No step brings an edit into any copy but the one it makes.              *)
LEMMA NewEdits ==
  ASSUME TypeOK, [Next]_vars
  PROVE  \/ made' = made /\ Edits' \subseteq Edits
         \/ \E x \in Devices, e \in Edit :
              Stamped(x, e) /\ Edits' \subseteq Edits \cup {e}
<1> USE DEF pcVars, phoneVars, vars
<1>of. \A h \in Copies : \A d \in Days : h[d] \in Edits \cup {Nothing}
  BY CopiesType DEF Edits, History
<1>no. Nothing \notin Edit
  BY ZoneHistoryAssumption
<1>same. ASSUME made' = made, \A h \in Copies' : \A d \in Days : h[d] \in Edits \cup {Nothing}
         PROVE  made' = made /\ Edits' \subseteq Edits
  BY <1>same, <1>no DEF Edits
<1>one. ASSUME NEW e \in Edit,
               \A h \in Copies' : \A d \in Days : h[d] \in Edits \cup {Nothing, e}
        PROVE  Edits' \subseteq Edits \cup {e}
  BY <1>one, <1>no DEF Edits
<1>1. ASSUME CmdStart \/ CmdFetch \/ Publish \/ CmdEnd \/ AppKilled
             \/ (\E x \in Devices : Midnight(x)) \/ UNCHANGED vars
      PROVE  made' = made /\ Copies' \subseteq Copies
  <2>1. CASE CmdStart \/ CmdFetch \/ Publish \/ CmdEnd \/ UNCHANGED vars
    BY <2>1 DEF CmdStart, CmdFetch, Publish, CmdEnd, Copies
  <2>2. CASE AppKilled
    <3>1. \A l \in Loads : load'[l].cached = load[l].cached /\ load'[l].remote = Nothing
      BY <2>2 DEF AppKilled, TypeOK
    <3>2. \A s \in Saves : save'[s].updated = save[s].updated
      BY <2>2 DEF AppKilled, TypeOK
    <3>3. UNCHANGED <<made, file, cache, node, heard>>
      BY <2>2 DEF AppKilled
    <3>4. Copies' \subseteq Copies
      BY <3>1, <3>2, <3>3 DEF Copies
    <3> QED BY <3>3, <3>4
  <2>3. CASE \E x \in Devices : Midnight(x)
    BY <2>3 DEF Midnight, Copies
  <2> QED BY <1>1, <2>1, <2>2, <2>3
<1>2. ASSUME NEW l \in Loads, LoadStart(l) \/ LoadFetch(l)
      PROVE  made' = made /\ Copies' \subseteq Copies
  BY <1>2 DEF LoadStart, LoadFetch, Copies, TypeOK
<1>3. ASSUME NEW s \in Saves, SaveWrite(s) \/ SavePublish(s)
      PROVE  made' = made /\ Copies' \subseteq Copies
  <2>1. UNCHANGED <<made, file, heard, load>>
    BY <1>3 DEF SaveWrite, SavePublish
  <2>2. \A t \in Saves : save'[t].updated = save[t].updated
    BY <1>3 DEF SaveWrite, SavePublish, TypeOK
  <2>3. /\ cache' \in {cache} \cup {save[t].updated : t \in Saves}
        /\ node' \in {node} \cup {save[t].updated : t \in Saves}
    BY <1>3 DEF SaveWrite, SavePublish
  <2> QED BY <2>1, <2>2, <2>3 DEF Copies
<1>4. CASE Pull
  <2>1. made' = made /\ Copies' \subseteq Copies \cup {file'}
    BY <1>4 DEF Pull, Copies
  <2>2. \A d \in Days : file'[d] \in Edits \cup {Nothing}
    <3>1. CASE heard = Nothing
      BY <1>4, <3>1, <1>of DEF Pull, Copies
    <3>2. CASE heard # Nothing
      <4>1. heard \in Copies /\ file \in Copies /\ heard \in History /\ file \in History
        BY <3>2 DEF Copies, TypeOK
      <4>2. file' = Merge(file, heard, cmd.today)
        BY <1>4, <3>2 DEF Pull
      <4> QED BY <4>1, <4>2, <1>of, MergeOfTwo
    <3> QED BY <3>1, <3>2
  <2> QED BY <2>1, <2>2, <1>of, <1>same
<1>5. ASSUME NEW l \in Loads, LoadWrite(l)
      PROVE  made' = made /\ Edits' \subseteq Edits
  <2>1. made' = made /\ Copies' \subseteq Copies \cup {cache'}
    BY <1>5 DEF LoadWrite, Copies, TypeOK
  <2>2. \A d \in Days : cache'[d] \in Edits \cup {Nothing}
    <3>1. CASE load[l].remote = Nothing
      BY <1>5, <3>1, <1>of DEF LoadWrite, Copies
    <3>2. CASE load[l].remote # Nothing
      <4>1. /\ load[l].remote \in Copies /\ load[l].cached \in Copies
            /\ load[l].remote \in History /\ load[l].cached \in History
        BY <3>2 DEF Copies, TypeOK
      <4>2. cache' = PhoneMerge(load[l].cached, load[l].remote, load[l].today)
        BY <1>5, <3>2 DEF LoadWrite
      <4> QED BY <4>1, <4>2, <1>of, PhoneMergeOfTwo
    <3> QED BY <3>1, <3>2
  <2> QED BY <2>1, <2>2, <1>of, <1>same
<1>6. ASSUME NEW d \in Days, NEW e \in Edit, Record(d, e)
      PROVE  "pc" \in Devices /\ Stamped("pc", e) /\ Edits' \subseteq Edits \cup {e}
  <2>1. Stamped("pc", e) /\ Copies' \subseteq Copies \cup {file'}
    BY <1>6 DEF Record, Copies
  <2>2. file \in Copies /\ file \in History /\ "pc" \in Devices
    BY DEF Copies, TypeOK, Devices
  <2>3. \A c \in Days : file'[c] \in {file[c], e}
    BY <1>6, <2>2, ReplacedType DEF Record
  <2> QED BY <2>1, <2>2, <2>3, <1>of, <1>one
<1>7. ASSUME NEW s \in Saves, NEW e \in Edit, SaveStart(s, e)
      PROVE  "phone" \in Devices /\ Stamped("phone", e) /\ Edits' \subseteq Edits \cup {e}
  <2> DEFINE m == Replaced(cache, day["phone"], e)
  <2>1. Stamped("phone", e) /\ Copies' \subseteq Copies \cup {m}
    BY <1>7 DEF SaveStart, Copies, TypeOK
  <2>2. cache \in Copies /\ cache \in History /\ "phone" \in Devices /\ day["phone"] \in Days
    BY DEF Copies, TypeOK, Devices
  <2>3. \A c \in Days : m[c] \in {cache[c], e}
    BY <2>2, ReplacedType
  <2> QED BY <2>1, <2>2, <2>3, <1>of, <1>one
<1>8. ASSUME made' = made, Copies' \subseteq Copies
      PROVE  made' = made /\ Edits' \subseteq Edits
  BY <1>8, <1>of, <1>same
<1> QED BY <1>1, <1>2, <1>3, <1>4, <1>5, <1>6, <1>7, <1>8 DEF Next, Cmd, Phone

LEMMA IInvInit == Init => IInv
<1> SUFFICES ASSUME Init PROVE IInv
  OBVIOUS
<1>1. \A h \in Copies : \A d \in Days : h[d] \in {Nothing, Seed}
  BY DEF Init, Copies, Empty
<1>2. Edits \subseteq {Seed}
  BY <1>1, ZoneHistoryAssumption DEF Edits
<1>3. Len(made) = 1 /\ made[1] = Seed
  BY DEF Init
<1>4. Known
  BY <1>2, <1>3 DEF Known
<1> QED BY <1>4, TypeInit DEF IInv

LEMMA IInvNext == IInv /\ [Next]_vars => IInv'
<1> SUFFICES ASSUME IInv, [Next]_vars PROVE IInv'
  OBVIOUS
<1>1. TypeOK /\ TypeOK' /\ Known
  BY TypeNext DEF IInv
<1>2. ASSUME made' = made, Edits' \subseteq Edits
      PROVE  Known'
  BY <1>1, <1>2 DEF Known
<1>3. ASSUME NEW x \in Devices, NEW e \in Edit, Stamped(x, e),
             Edits' \subseteq Edits \cup {e}
      PROVE  Known'
  <2>1. /\ Len(made) \in Nat /\ Len(made') = Len(made) + 1
        /\ made'[Len(made) + 1] = e
        /\ \A i \in 1 .. Len(made) : made'[i] = made[i]
    BY <1>1, <1>3, StampedEdit DEF TypeOK
  <2>2. /\ Len(made) + 1 \in 1 .. Len(made')
        /\ \A i \in 1 .. Len(made) : i \in 1 .. Len(made')
    BY <2>1
  <2> QED BY <1>1, <1>3, <2>1, <2>2 DEF Known
<1>4. Known'
  BY <1>1, <1>2, <1>3, NewEdits
<1> QED BY <1>1, <1>4 DEF IInv

(* The inductive invariant holds.                                          *)
THEOREM Invariance == Spec => []IInv
BY IInvInit, IInvNext, PTL DEF Spec

(* Both copies, the node and what the handlers hold are histories.         *)
THEOREM TypeCorrect == Spec => []TypeOK
<1>1. IInv => TypeOK
  BY DEF IInv
<1> QED BY <1>1, Invariance, PTL

(* No step of `home_guard zones' rewrites a day before the command began,  *)
(* whatever the phone published (_zone_merge.py, rule 3).                  *)
THEOREM PcPastIsKept == Spec => PcKeepsItsPast
<1>1. IInv /\ [Next]_vars =>
        [\A d \in Days : (d < cmd.today /\ file[d] # Nothing) => file'[d] = file[d]]_file
  <2> SUFFICES ASSUME IInv, Next, file' # file, NEW d \in Days,
                      d < cmd.today, file[d] # Nothing
               PROVE  file'[d] = file[d]
    BY DEF vars, pcVars
  <2>1. CASE Pull
    BY <2>1 DEF Pull, Merge
  <2>2. ASSUME NEW c \in Days, NEW e \in Edit, Record(c, e)
        PROVE  file'[d] = file[d]
    <3>1. c # d
      BY <2>2 DEF Record, IInv, TypeOK, Days
    <3> QED BY <2>2, <3>1 DEF Record, Replaced, IInv, TypeOK, History
  <2> QED BY <2>1, <2>2 DEF Next, Cmd, Phone, CmdStart, CmdFetch, Publish, CmdEnd,
             LoadStart, LoadFetch, LoadWrite, SaveStart, SaveWrite, SavePublish,
             AppKilled, Midnight, pcVars
<1> QED BY <1>1, Invariance, PTL DEF Spec, PcKeepsItsPast

(* While every edit is stamped later than those made before it, the PC's   *)
(* history never goes back to an earlier edit, nor loses one: a merge      *)
(* takes what is stamped later, which then was made later.                 *)
THEOREM PcOnlyMovesForward == Spec => PcMovesForward
<1>1. IInv /\ [Next]_vars => [InStep(made') => Follows(made', file', file)]_vars
  <2> SUFFICES ASSUME IInv, Next, file' # file, InStep(made'),
                      NEW d \in Days, file[d] # Nothing, file'[d] # file[d]
               PROVE  Before(made', file[d], file'[d])
    BY DEF Follows
  <2>1. /\ made \in Seq(Edit) /\ Len(made) \in Nat
        /\ file[d] \in Edit /\ file[d] \in Edits
    BY LenProperties DEF IInv, TypeOK, History, Edits, Copies
  <2>2. PICK i \in 1 .. Len(made) : made[i] = file[d]
    BY <2>1 DEF IInv, Known
  <2>3. CASE Pull
    <3>1. /\ heard # Nothing /\ heard[d] # Nothing
          /\ file'[d] = heard[d] /\ Later(heard[d], file[d])
      BY <2>3 DEF Pull, Merge, Beats
    <3>2. made' = made
      BY <2>3 DEF Pull
    <3>3. heard[d] \in Edit /\ heard[d] \in Edits
      BY <3>1 DEF IInv, TypeOK, History, Edits, Copies
    <3>4. PICK j \in 1 .. Len(made) : made[j] = heard[d]
      BY <3>3 DEF IInv, Known
    <3>5. i # j
      BY <2>2, <3>1, <3>4
    <3>6. ~(j < i)
      <4> SUFFICES ASSUME j < i PROVE FALSE
        OBVIOUS
      <4>1. Later(file[d], heard[d])
        BY <2>2, <3>2, <3>4 DEF InStep
      <4> QED BY <2>1, <3>1, <3>3, <4>1 DEF Later, Edit
    <3>7. i < j
      BY <2>1, <3>5, <3>6
    <3> QED BY <2>2, <3>1, <3>2, <3>4, <3>7 DEF Before
  <2>4. ASSUME NEW c \in Days, NEW e \in Edit, Record(c, e)
        PROVE  Before(made', file[d], file'[d])
    <3>1. file' = Replaced(file, c, e) /\ file \in History
      BY <2>4 DEF Record, IInv, TypeOK
    <3>2. file'[d] = e
      BY <3>1, ReplacedType
    <3>3. /\ Len(made') = Len(made) + 1 /\ made'[Len(made) + 1] = e
          /\ made'[i] = made[i]
      BY <2>1, <2>4, StampedEdit DEF Record
    <3>4. /\ i \in 1 .. Len(made') /\ Len(made) + 1 \in 1 .. Len(made')
          /\ i < Len(made) + 1
      BY <2>1, <3>3
    <3> QED BY <2>2, <3>2, <3>3, <3>4 DEF Before
  <2> QED BY <2>3, <2>4 DEF Next, Cmd, Phone, CmdStart, CmdFetch, Publish, CmdEnd,
             LoadStart, LoadFetch, LoadWrite, SaveStart, SaveWrite, SavePublish,
             AppKilled, Midnight, pcVars
<1> QED BY <1>1, Invariance, PTL DEF Spec, PcMovesForward

(* Whichever device merges the two copies, the PC by its code or the phone *)
(* by its own, the result is the same from today on, and is a fixed point  *)
(* (_zone_merge.py, zone_history.dart).                                    *)
THEOREM MergesAlwaysAgree == Spec => []MergesAgree
<1>1. IInv => MergesAgree
  <2> SUFFICES ASSUME IInv, NEW today \in Days
               PROVE  /\ \A d \in Days : d >= today =>
                           Merge(file, cache, today)[d] = PhoneMerge(cache, file, today)[d]
                      /\ Merge(Merge(file, cache, today), cache, today)
                           = Merge(file, cache, today)
                      /\ PhoneMerge(PhoneMerge(cache, file, today), file, today)
                           = PhoneMerge(cache, file, today)
    BY DEF MergesAgree
  <2>1. \A d \in Days : /\ file[d] \in Edit \cup {Nothing}
                        /\ cache[d] \in Edit \cup {Nothing}
    BY DEF IInv, TypeOK, History
  <2>2. \A e, f \in Edit : /\ ~(Later(e, f) /\ Later(f, e))
                           /\ e = f \/ Later(e, f) \/ Later(f, e)
    BY DEF Later, Edit, Devices
  <2>3. \A d \in Days : d >= today =>
          Merge(file, cache, today)[d] = PhoneMerge(cache, file, today)[d]
    <3> SUFFICES ASSUME NEW d \in Days, d >= today
                 PROVE  Merge(file, cache, today)[d] = PhoneMerge(cache, file, today)[d]
      OBVIOUS
    <3>1. ~(d < today)
      BY DEF Days
    <3>2. /\ file[d] \in Edit \cup {Nothing} /\ cache[d] \in Edit \cup {Nothing}
      BY <2>1
    <3> QED BY <2>2, <3>1, <3>2 DEF Merge, PhoneMerge, Beats
  <2>4. Merge(Merge(file, cache, today), cache, today) = Merge(file, cache, today)
    BY <2>1, <2>2 DEF Merge, Beats
  <2>5. PhoneMerge(PhoneMerge(cache, file, today), file, today)
          = PhoneMerge(cache, file, today)
    BY <2>1, <2>2 DEF PhoneMerge
  <2> QED BY <2>3, <2>4, <2>5
<1> QED BY <1>1, Invariance, PTL
=============================================================================
