------------------------- MODULE SessionStoreProofs -------------------------
(***************************************************************************)
(* What holds of SessionStore for every number of cleans, photos and calls *)
(* under way and for every budget: a photo listed for a clean that never   *)
(* reached the PC is on the disk.                                          *)
(***************************************************************************)
EXTENDS SessionStore, TLAPS

(* A manifest's photos are on the disk unless its clean reached the PC.    *)
KeptIn(c, m) ==
  c \notin reached => \A n \in m.photos : [clean |-> c, nr |-> n] \in files

Kept(s) == KeptIn(s.clean, s.is)

(* An index, the one on the disk or one read from it long ago: besides,    *)
(* what it calls accepted did reach the PC.                                *)
SoundIndex(i) ==
  \A c \in Cleans : i[c] # Nothing =>
    /\ i[c].status = "accepted" => c \in reached
    /\ KeptIn(c, i[c])

(* The photo an addPhoto is about to write can be named.                   *)
Nameable == \A w \in Clients : HasBytes(w) => NextNr(job[w].of) \in Nrs

(* The invariant has to hold of every copy, since any may be written back. *)
SoundJobs  == \A w \in Clients : job[w] # Nothing =>
                /\ Kept(job[w].of)
                /\ job[w].read # Nothing => SoundIndex(job[w].read)
SoundShown == \A w \in Screens : shown[w] # Nothing => Kept(shown[w])
SoundTodo  == \A s \in todo : Kept(s)
SoundPrune == prune # Nothing => SoundIndex(prune.read)

Sound == /\ SoundIndex(index) /\ SoundJobs /\ SoundShown /\ SoundTodo
         /\ SoundPrune

TypeInv == TypeOK /\ Nameable

IInv == TypeInv /\ Sound

-----------------------------------------------------------------------------
LEMMA SessionIn ==
  ASSUME NEW s \in Session
  PROVE  /\ s.clean \in Cleans /\ s.is \in Manifest
         /\ s = [clean |-> s.clean, is |-> s.is] /\ s # Nothing
BY SessionStoreAssumption DEF Session

LEMMA WithStatusType ==
  ASSUME NEW s \in Session, NEW st \in Status
  PROVE  /\ WithStatus(s, st) \in Session
         /\ WithStatus(s, st).clean = s.clean
         /\ WithStatus(s, st).is.photos = s.is.photos
BY DEF WithStatus, Session, Manifest

LEMMA WithPhotoType ==
  ASSUME NEW s \in Session, NextNr(s) \in Nrs
  PROVE  /\ WithPhoto(s) \in Session
         /\ WithPhoto(s).clean = s.clean
         /\ WithPhoto(s).is.photos = s.is.photos \cup {NextNr(s)}
         /\ NameFor(s) \in Names
<1> DEFINE nr == NextNr(s)
<1> HIDE DEF nr
<1>1. nr \in Nrs /\ WithPhoto(s) = [s EXCEPT !.is.photos = s.is.photos \cup {nr}]
  BY DEF WithPhoto, nr, Session, Manifest
<1>2. NameFor(s) = [clean |-> s.clean, nr |-> nr]
  BY DEF NameFor, nr
<1> QED BY <1>1, <1>2 DEF Session, Manifest, Names, nr

LEMMA StoredType ==
  ASSUME NEW i \in Index
  PROVE  Stored(i) \subseteq Session
BY DEF Stored, Index, Session

(* An addPhoto is only begun with a number its clean may have.             *)
LEMMA StartType ==
  ASSUME TypeOK, NEW w \in Clients, NEW s \in Session
  PROVE  /\ StartAddPhoto(w, s) =>
              /\ job' = [job EXCEPT ![w] = [of |-> s, read |-> Nothing]]
              /\ [of |-> s, read |-> Nothing] \in Job
              /\ s.clean \in Cleans => NextNr(s) \in Nrs
         /\ StartPut(w, s) =>
              /\ job' = [job EXCEPT ![w] = [of |-> s, read |-> index]]
              /\ [of |-> s, read |-> index] \in Job
<1>1. \A c \in Cleans : \A n \in 0 .. Photos(c) - 1 : n \in Nrs
  BY DEF Nrs
<1> QED BY <1>1 DEF StartAddPhoto, StartPut, Job, TypeOK

LEMMA FreshType ==
  ASSUME NEW c \in Cleans, NEW st \in Status
  PROVE  Fresh(c, st) \in Session
BY DEF Fresh, Session, Manifest

LEMMA TypeInit == Init => TypeInv
<1> SUFFICES ASSUME Init PROVE TypeInv
  OBVIOUS
<1>1. waiting \in Nat
  BY DEF Init
<1>2. TypeOK
  BY <1>1, ZenonT(60) DEF Init, NoCleans, TypeOK, Index
<1>3. Nameable
  BY DEF Init, Nameable, HasBytes, Screens, Clients
<1> QED BY <1>2, <1>3 DEF TypeInv

(* Putting a job in a client's place leaves the other clients' as they are. *)
LEMMA JobType ==
  ASSUME TypeInv, NEW w \in Clients, NEW j \in Job \cup {Nothing},
         job' = [job EXCEPT ![w] = j],
         j # Nothing /\ j.read = Nothing => NextNr(j.of) \in Nrs
  PROVE  /\ job' \in [Clients -> Job \cup {Nothing}]
         /\ Nameable'
<1>1. job' \in [Clients -> Job \cup {Nothing}] /\ job'[w] = j
  BY DEF TypeInv, TypeOK
<1>2. ASSUME NEW v \in Clients, HasBytes(v)'
      PROVE  NextNr(job[v].of)' \in Nrs
  <2>1. CASE v = w
    BY <1>1, <1>2, <2>1 DEF HasBytes, NextNr
  <2>2. CASE v # w
    BY <1>2, <2>2 DEF HasBytes, NextNr, TypeInv, TypeOK, Nameable
  <2> QED BY <2>1, <2>2
<1> QED BY <1>1, <1>2 DEF Nameable

(* What a client's put returns to is one of its own variables.             *)
LEMMA ReturnedType ==
  ASSUME TypeInv, NEW w \in Clients, NEW s \in Session, Returned(w, s)
  PROVE  /\ shown' \in [Screens -> Session \cup {Nothing}]
         /\ live' \in BOOLEAN /\ waiting' \in Nat /\ logging' \in BOOLEAN
<1>1. waiting \in Nat /\ waiting + 1 \in Nat
  BY DEF TypeInv, TypeOK
<1>2. waiting' \in Nat
  BY <1>1 DEF Returned, screenVars, homeVars
<1>3. shown' \in [Screens -> Session \cup {Nothing}]
  BY DEF Returned, TypeInv, TypeOK, Screens, screenVars, homeVars
<1>4. live' \in BOOLEAN /\ logging' \in BOOLEAN
  BY DEF Returned, TypeInv, TypeOK, screenVars, homeVars
<1> QED BY <1>2, <1>3, <1>4

LEMMA ToDrainType ==
  ASSUME TypeOK, NEW i \in Index
  PROVE  ToDrain(i) \subseteq Session
BY StoredType DEF ToDrain, TypeOK

LEMMA TypeNext == TypeInv /\ [Next]_vars => TypeInv'
<1> SUFFICES ASSUME TypeInv, [Next]_vars PROVE TypeInv'
  OBVIOUS
<1> USE DEF vars, diskVars, screenVars, homeVars
<1>0. TypeOK /\ Nameable
  BY DEF TypeInv
<1>1. ASSUME NEW w \in Screens, WritePhoto(w)
      PROVE  TypeInv'
  <2> DEFINE s == job[w].of
  <2>1. w \in Clients /\ job[w] \in Job /\ s \in Session /\ NextNr(s) \in Nrs
    BY <1>0, <1>1 DEF Clients, WritePhoto, HasBytes, TypeOK, Nameable, Job
  <2>2. WithPhoto(s) \in Session /\ NameFor(s) \in Names
    BY <2>1, WithPhotoType
  <2>3. [of |-> WithPhoto(s), read |-> index] \in Job /\ index # Nothing
    BY <1>0, <2>2, SessionStoreAssumption DEF Job, TypeOK
  <2>4. job' = [job EXCEPT ![w] = [of |-> WithPhoto(s), read |-> index]]
    BY <1>1, <2>1 DEF WritePhoto, TypeOK
  <2>5. job' \in [Clients -> Job \cup {Nothing}] /\ Nameable'
    BY <2>1, <2>3, <2>4, JobType
  <2> QED BY <1>0, <1>1, <2>2, <2>5 DEF WritePhoto, TypeInv, TypeOK
<1>2. ASSUME NEW w \in Clients, PutSave(w)
      PROVE  TypeInv'
  <2> DEFINE s == job[w].of
  <2>1. /\ s \in Session /\ s.clean \in Cleans /\ s.is \in Manifest
        /\ job[w].read \in Index
    BY <1>0, <1>2, SessionIn DEF PutSave, HasRead, TypeOK, Job
  <2>2. index' = [job[w].read EXCEPT ![s.clean] = s.is] /\ Returned(w, s)
    BY <1>2 DEF PutSave
  <2>3. index' \in Index
    BY <2>1, <2>2 DEF Index
  <2>4. reached' \subseteq Cleans
    BY <1>0, <1>2, <2>1 DEF PutSave, TypeOK
  <2>5. todo' \subseteq Session
    BY <1>0, <1>2, <2>3, ToDrainType DEF PutSave, TypeOK
  <2>6. job' \in [Clients -> Job \cup {Nothing}] /\ Nameable'
    BY <1>2, JobType DEF PutSave
  <2>7. /\ shown' \in [Screens -> Session \cup {Nothing}]
        /\ live' \in BOOLEAN /\ waiting' \in Nat /\ logging' \in BOOLEAN
    BY <2>1, <2>2, ReturnedType
  <2>8. torn' \in BOOLEAN /\ UNCHANGED <<files, begun, prune>>
    BY <1>2 DEF PutSave
  <2> QED BY <1>0, <2>3, <2>4, <2>5, <2>6, <2>7, <2>8 DEF TypeInv, TypeOK
<1>3. CASE TakePhoto
  <2>1. PICK s \in Session : StartAddPhoto("home", s)
    BY <1>0, <1>3, FreshType DEF TakePhoto, TypeOK, Screens, Status
  <2>2. job' \in [Clients -> Job \cup {Nothing}] /\ Nameable'
    BY <1>0, <2>1, StartType, JobType, SessionIn DEF Clients, Screens
  <2>3. begun' \subseteq Cleans
    BY <1>0, <1>3 DEF TakePhoto, TypeOK
  <2> QED BY <1>0, <1>3, <2>2, <2>3 DEF TakePhoto, TypeInv, TypeOK
<1>4. CASE Finish
  <2> DEFINE s == WithStatus(shown["home"], "queued")
  <2>1. s \in Session /\ StartPut("home", s)
    BY <1>0, <1>4, WithStatusType DEF Finish, TypeOK, Screens, Status
  <2>2. job' \in [Clients -> Job \cup {Nothing}] /\ Nameable'
    <3>1. index # Nothing
      BY <1>0, SessionStoreAssumption DEF TypeOK
    <3> HIDE DEF s
    <3> QED BY <1>0, <2>1, <3>1, StartType, JobType DEF Clients, Screens
  <2> QED BY <1>0, <1>4, <2>2 DEF Finish, TypeInv, TypeOK
<1>5. CASE FinishDone
  <2>1. waiting' \in Nat
    BY <1>0, <1>5 DEF FinishDone, TypeOK
  <2> QED BY <1>0, <1>5, <2>1 DEF FinishDone, TypeInv, TypeOK, Nameable, HasBytes, NextNr
<1>6. CASE Refresh
  <2>1. todo' \subseteq Session /\ prune' \in Prune \cup {Nothing}
    BY <1>0, <1>6, ToDrainType DEF Refresh, TypeOK, Prune
  <2> QED BY <1>0, <1>6, <2>1 DEF Refresh, TypeInv, TypeOK, Nameable, HasBytes, NextNr
<1>7. CASE DrainOne
  <2>1. PICK s \in todo :
          /\ todo' = todo \ {s}
          /\ \/ \E st \in {"queued", "accepted", "rejected"} :
                  StartPut("drain", WithStatus(s, st))
             \/ UNCHANGED job
    BY <1>7 DEF DrainOne
  <2>2. job' \in [Clients -> Job \cup {Nothing}] /\ Nameable'
    <3>1. CASE UNCHANGED job
      BY <1>0, <3>1 DEF TypeOK, Nameable, HasBytes, NextNr
    <3>2. ASSUME NEW st \in {"queued", "accepted", "rejected"},
                 StartPut("drain", WithStatus(s, st))
          PROVE  job' \in [Clients -> Job \cup {Nothing}] /\ Nameable'
      <4>1. WithStatus(s, st) \in Session /\ index # Nothing
        BY <1>0, SessionStoreAssumption, WithStatusType DEF TypeOK, Status
      <4> QED BY <1>0, <3>2, <4>1, StartType, JobType DEF Clients
    <3> QED BY <2>1, <3>1, <3>2
  <2> QED BY <1>0, <1>7, <2>1, <2>2 DEF DrainOne, TypeInv, TypeOK
<1>8. CASE DeletePhoto
  <2>1. PICK n \in Listed(prune.read) \ prune.gone :
          /\ files' = files \ {n}
          /\ prune' = [prune EXCEPT !.gone = @ \cup {n}]
    BY <1>8 DEF DeletePhoto
  <2>2. prune' \in Prune /\ files' \subseteq Names
    BY <1>0, <1>8, <2>1 DEF DeletePhoto, TypeOK, Prune, Listed
  <2> QED BY <1>0, <1>8, <2>2 DEF DeletePhoto, TypeInv, TypeOK, Nameable, HasBytes, NextNr
<1>9. CASE PruneSave
  <2>1. index' \in Index
    BY <1>0, <1>9 DEF PruneSave, TypeOK, Prune, Index, Manifest, Freed
  <2> QED BY <1>0, <1>9, <2>1 DEF PruneSave, TypeInv, TypeOK, Nameable, HasBytes, NextNr
<1>10. CASE OpenDetail
  <2>1. shown' \in [Screens -> Session \cup {Nothing}]
    BY <1>0, <1>10, StoredType DEF OpenDetail, TypeOK, Screens
  <2> QED BY <1>0, <1>10, <2>1 DEF OpenDetail, TypeInv, TypeOK, Nameable, HasBytes, NextNr
<1>11. CASE LogClean
  <2>1. shown' \in [Screens -> Session \cup {Nothing}] /\ begun' \subseteq Cleans
    BY <1>0, <1>11, FreshType DEF LogClean, TypeOK, Screens, Status
  <2> QED BY <1>0, <1>11, <2>1 DEF LogClean, TypeInv, TypeOK, Nameable, HasBytes, NextNr
<1>12. CASE AddPastPhoto
  <2>1. shown["past"] \in Session /\ StartAddPhoto("past", shown["past"])
    BY <1>0, <1>12 DEF AddPastPhoto, TypeOK, Screens
  <2>2. job' \in [Clients -> Job \cup {Nothing}] /\ Nameable'
    BY <1>0, <2>1, StartType, JobType, SessionIn DEF Clients, Screens
  <2> QED BY <1>0, <1>12, <2>2 DEF AddPastPhoto, TypeInv, TypeOK
<1>13. CASE SaveLogged
  <2>1. shown["past"] \in Session /\ StartPut("past", shown["past"]) /\ index # Nothing
    BY <1>0, <1>13, SessionStoreAssumption DEF SaveLogged, TypeOK, Screens
  <2>2. job' \in [Clients -> Job \cup {Nothing}] /\ Nameable'
    BY <1>0, <2>1, StartType, JobType DEF Clients, Screens
  <2> QED BY <1>0, <1>13, <2>2 DEF SaveLogged, TypeInv, TypeOK
<1>14. CASE Back
  BY <1>0, <1>14 DEF Back, TypeInv, TypeOK, Nameable, HasBytes, NextNr
<1>15. CASE AppKilled
  BY <1>0, <1>15, SessionStoreAssumption
     DEF AppKilled, Closed, TypeInv, TypeOK, Nameable, HasBytes, Job
<1>17. CASE KilledInSave
  BY <1>0, <1>17, SessionStoreAssumption
     DEF KilledInSave, Closed, NoCleans, Index, TypeInv, TypeOK, Nameable, HasBytes, Job
<1>16. CASE UNCHANGED vars
  BY <1>0, <1>16 DEF TypeInv, TypeOK, Nameable, HasBytes, NextNr
<1> QED BY <1>1, <1>2, <1>3, <1>4, <1>5, <1>6, <1>7, <1>8, <1>9, <1>10, <1>11,
           <1>12, <1>13, <1>14, <1>15, <1>16, <1>17 DEF Next

-----------------------------------------------------------------------------
(* What was kept stays kept while cleans only reach the PC and only files  *)
(* of such cleans go.                                                      *)
Grows == /\ reached \subseteq reached'
         /\ \A n \in files \ files' : n.clean \in reached

LEMMA GrowsKeeps ==
  ASSUME Grows
  PROVE  /\ \A c, m : KeptIn(c, m) => KeptIn(c, m)'
         /\ \A s : Kept(s) => Kept(s)'
         /\ \A i : SoundIndex(i) => SoundIndex(i)'
<1>1. ASSUME NEW c, NEW m, KeptIn(c, m)
      PROVE  KeptIn(c, m)'
  <2> SUFFICES ASSUME c \notin reached', NEW n \in m.photos
               PROVE  [clean |-> c, nr |-> n] \in files'
    BY DEF KeptIn
  <2>1. c \notin reached /\ [clean |-> c, nr |-> n] \in files
    BY <1>1 DEF KeptIn, Grows
  <2>2. [clean |-> c, nr |-> n].clean = c
    OBVIOUS
  <2> QED BY <2>1, <2>2 DEF Grows
<1>2. ASSUME NEW s, Kept(s)
      PROVE  Kept(s)'
  BY <1>1, <1>2 DEF Kept
<1>3. ASSUME NEW i, SoundIndex(i)
      PROVE  SoundIndex(i)'
  BY <1>1, <1>3 DEF SoundIndex, Grows
<1> QED BY <1>1, <1>2, <1>3

(* Each part of Sound survives such a step of the variables it is about.   *)
LEMMA JobsKeep ==
  ASSUME TypeInv, SoundJobs, Grows, UNCHANGED job
  PROVE  SoundJobs'
BY GrowsKeeps DEF SoundJobs

LEMMA JobSet ==
  ASSUME TypeInv, SoundJobs, Grows, NEW w \in Clients, NEW j,
         job' = [job EXCEPT ![w] = j],
         j # Nothing => /\ Kept(j.of)'
                        /\ j.read # Nothing => SoundIndex(j.read)'
  PROVE  SoundJobs'
<1>1. ASSUME NEW v \in Clients, job'[v] # Nothing
      PROVE  /\ Kept(job[v].of)'
             /\ (job[v].read # Nothing)' => SoundIndex(job[v].read)'
  <2>1. CASE v = w
    <3>1. job'[v] = j
      BY <2>1 DEF TypeInv, TypeOK
    <3> QED BY <1>1, <3>1 DEF Kept, KeptIn, SoundIndex
  <2>2. CASE v # w
    <3>1. job'[v] = job[v]
      BY <2>2 DEF TypeInv, TypeOK
    <3>2. /\ Kept(job[v].of)
          /\ job[v].read # Nothing => SoundIndex(job[v].read)
      BY <1>1, <3>1 DEF SoundJobs
    <3> QED BY <3>1, <3>2, GrowsKeeps DEF Kept, KeptIn, SoundIndex, Grows
  <2> QED BY <2>1, <2>2
<1> QED BY <1>1 DEF SoundJobs

LEMMA ShownSet ==
  ASSUME TypeInv, SoundShown, Grows, NEW w \in Screens, NEW s,
         shown' = [shown EXCEPT ![w] = s],
         s # Nothing => Kept(s)'
  PROVE  SoundShown'
<1>1. ASSUME NEW v \in Screens, shown'[v] # Nothing
      PROVE  Kept(shown[v])'
  <2>1. CASE v = w
    BY <1>1, <2>1 DEF TypeInv, TypeOK, Kept, KeptIn
  <2>2. CASE v # w
    <3>1. shown'[v] = shown[v]
      BY <2>2 DEF TypeInv, TypeOK
    <3> QED BY <1>1, <3>1 DEF SoundShown, Kept, KeptIn, Grows
  <2> QED BY <2>1, <2>2
<1> QED BY <1>1 DEF SoundShown

LEMMA StoredKept ==
  ASSUME NEW i \in Index, SoundIndex(i), NEW s \in Stored(i)
  PROVE  Kept(s)
BY DEF Stored, SoundIndex, Kept

(* A store call starts from a kept copy and from the index there is.       *)
LEMMA StartKeeps ==
  ASSUME TypeInv, SoundJobs, SoundIndex(index),
         NEW w \in Clients, NEW s \in Session, Kept(s),
         UNCHANGED <<index, files, reached>>,
         StartAddPhoto(w, s) \/ StartPut(w, s)
  PROVE  SoundJobs'
<1>1. Grows
  BY DEF Grows
<1>2. PICK i \in Index : i = index
  BY DEF TypeInv, TypeOK
<1>3. PICK j : /\ j \in {[of |-> s, read |-> Nothing], [of |-> s, read |-> i]}
               /\ job' = [job EXCEPT ![w] = j]
  BY <1>2 DEF StartAddPhoto, StartPut
<1>4. Kept(s)' /\ SoundIndex(i)'
  BY <1>1, <1>2, GrowsKeeps
<1>5. j.of = s /\ j.read \in {Nothing, i}
  BY <1>3
<1>6. Kept(j.of)' /\ (j.read # Nothing => SoundIndex(j.read)')
  BY <1>4, <1>5
<1> QED BY <1>1, <1>3, <1>6, JobSet

LEMMA SoundInit == Init => Sound
BY SessionStoreAssumption
   DEF Init, NoCleans, Sound, SoundIndex, SoundJobs, SoundShown, SoundTodo, SoundPrune

LEMMA SoundNext == IInv /\ [Next]_vars => Sound'
<1> SUFFICES ASSUME IInv, [Next]_vars PROVE Sound'
  OBVIOUS
<1> USE DEF vars, diskVars, screenVars, homeVars
<1>0. /\ TypeInv /\ TypeOK /\ SoundIndex(index) /\ SoundJobs /\ SoundShown
      /\ SoundTodo /\ SoundPrune
  BY DEF IInv, TypeInv, Sound
<1>00. index \in Index /\ index # Nothing
  BY <1>0, SessionStoreAssumption DEF TypeOK
<1>1. ASSUME NEW w \in Screens, WritePhoto(w)
      PROVE  Sound'
  <2>1. w \in Clients /\ job[w].of \in Session /\ NextNr(job[w].of) \in Nrs
        /\ Kept(job[w].of)
    BY <1>0, <1>1 DEF Clients, WritePhoto, HasBytes, TypeOK, TypeInv, Nameable, Job, SoundJobs
  <2>2. PICK s \in Session : s = job[w].of
    BY <2>1
  <2>3. PICK i \in Index : i = index
    BY <1>00
  <2>4. Grows /\ files' = files \cup {NameFor(s)} /\ UNCHANGED <<index, reached>>
    BY <1>1, <2>2 DEF WritePhoto, Grows
  <2>5. /\ WithPhoto(s).clean = s.clean
        /\ WithPhoto(s).is.photos = s.is.photos \cup {NextNr(s)}
    BY <2>1, <2>2, WithPhotoType
  <2>6. Kept(WithPhoto(s))'
    <3>1. Kept(s)'
      BY <2>1, <2>2, <2>4, GrowsKeeps
    <3> QED BY <2>4, <2>5, <3>1 DEF Kept, KeptIn, NameFor
  <2>7. SoundIndex(i)'
    BY <1>0, <2>3, <2>4, GrowsKeeps
  <2>8. SoundJobs'
    <3>1. PICK j : j = [of |-> WithPhoto(s), read |-> i]
      OBVIOUS
    <3>2. job' = [job EXCEPT ![w] = j]
      BY <1>1, <2>1, <2>2, <2>3, <3>1 DEF WritePhoto, TypeOK
    <3>3. j.of = WithPhoto(s) /\ j.read = i
      BY <3>1
    <3>4. Kept(j.of)' /\ (j.read # Nothing => SoundIndex(j.read)')
      BY <2>6, <2>7, <3>3
    <3> QED BY <1>0, <2>1, <2>4, <3>2, <3>4, JobSet
  <2> QED BY <1>0, <1>1, <2>3, <2>4, <2>7, <2>8, GrowsKeeps
          DEF WritePhoto, Sound, SoundShown, SoundTodo, SoundPrune
<1>2. ASSUME NEW w \in Clients, PutSave(w)
      PROVE  Sound'
  <2>1. /\ job[w].of \in Session /\ job[w].read \in Index
        /\ Kept(job[w].of) /\ SoundIndex(job[w].read)
    BY <1>0, <1>2 DEF PutSave, HasRead, TypeOK, Job, SoundJobs
  <2>2. PICK s \in Session : s = job[w].of
    BY <2>1
  <2>3. PICK i \in Index : i = job[w].read
    BY <2>1
  <2>4. PICK k : k = [i EXCEPT ![s.clean] = s.is]
    OBVIOUS
  <2>5. /\ index' = k
        /\ s.is.status = "accepted" => s.clean \in reached'
        /\ Returned(w, s) /\ job' = [job EXCEPT ![w] = Nothing]
        /\ UNCHANGED <<files, prune>>
    BY <1>2, <2>2, <2>3, <2>4 DEF PutSave
  <2>6. Grows
    BY <1>2 DEF PutSave, Grows
  <2>7. Kept(s)' /\ SoundIndex(i)'
    BY <2>1, <2>2, <2>3, <2>6, GrowsKeeps
  <2>8. s.clean \in Cleans /\ s.is \in Manifest /\ k \in Index
    BY <2>4, SessionIn DEF Index
  <2>9. SoundIndex(k)'
    <3>1. ASSUME NEW c \in Cleans, k[c] # Nothing
          PROVE  /\ k[c].status = "accepted" => c \in reached'
                 /\ KeptIn(c, k[c])'
      <4>1. CASE c = s.clean
        <5>1. k[c] = s.is
          BY <2>4, <2>8, <4>1 DEF Index
        <5> QED BY <2>5, <2>7, <4>1, <5>1 DEF Kept, KeptIn
      <4>2. CASE c # s.clean
        <5>1. k[c] = i[c]
          BY <2>4, <2>8, <4>2 DEF Index
        <5> QED BY <2>7, <3>1, <5>1 DEF SoundIndex, KeptIn
      <4> QED BY <4>1, <4>2
    <3> QED BY <3>1 DEF SoundIndex
  <2>10. SoundJobs'
    BY <1>0, <2>5, <2>6, JobSet
  <2>11. SoundShown'
    <3>1. CASE UNCHANGED shown
      BY <1>0, <2>6, <3>1, GrowsKeeps DEF SoundShown
    <3>2. CASE w \in Screens /\ shown' = [shown EXCEPT ![w] = s]
      BY <1>0, <2>6, <2>7, <3>2, ShownSet
    <3>3. CASE w \in Screens /\ shown' = [shown EXCEPT ![w] = Nothing]
      BY <1>0, <2>6, <3>3, ShownSet
    <3> QED BY <2>5, <3>1, <3>2, <3>3 DEF Returned, Screens
  <2>12. SoundTodo'
    <3>1. \A t \in Stored(k) : Kept(t)'
      BY <2>9 DEF Stored, SoundIndex, Kept, KeptIn
    <3>2. todo' \subseteq todo \cup Stored(k)
      BY <1>2, <2>5 DEF PutSave, ToDrain
    <3>3. \A t \in todo : Kept(t)'
      BY <1>0, <2>6, GrowsKeeps DEF SoundTodo
    <3> QED BY <3>1, <3>2, <3>3 DEF SoundTodo, Kept, KeptIn
  <2>13. SoundPrune'
    BY <1>0, <2>5, <2>6, GrowsKeeps DEF SoundPrune
  <2>14. SoundIndex(index)'
    BY <2>5, <2>9 DEF SoundIndex, KeptIn
  <2> QED BY <2>10, <2>11, <2>12, <2>13, <2>14 DEF Sound
<1>3. CASE TakePhoto
  <2>1. UNCHANGED <<index, files, reached, shown, todo, prune>> /\ Grows
    BY <1>3 DEF TakePhoto, Grows
  <2>2. PICK s \in Session : Kept(s) /\ StartAddPhoto("home", s)
    <3>1. CASE shown["home"] # Nothing /\ StartAddPhoto("home", shown["home"])
      BY <1>0, <3>1 DEF TypeOK, Screens, SoundShown
    <3>2. ASSUME NEW c \in Cleans, StartAddPhoto("home", Fresh(c, "draft"))
          PROVE  \E s \in Session : Kept(s) /\ StartAddPhoto("home", s)
      <4>1. Fresh(c, "draft") \in Session /\ Kept(Fresh(c, "draft"))
        BY FreshType DEF Fresh, Kept, KeptIn, Status
      <4> QED BY <3>2, <4>1
    <3> QED BY <1>3, <3>1, <3>2 DEF TakePhoto
  <2>3. SoundJobs'
    BY <1>0, <2>1, <2>2, StartKeeps DEF Clients, Screens
  <2> QED BY <1>0, <2>1, <2>3, GrowsKeeps DEF Sound, SoundShown, SoundTodo, SoundPrune,
                                              SoundIndex, Kept, KeptIn
<1>4. CASE Finish
  <2>1. UNCHANGED <<index, files, reached, shown, todo, prune>> /\ Grows
    BY <1>4 DEF Finish, Grows
  <2>2. PICK s \in Session : Kept(s) /\ StartPut("home", s)
    <3>1. shown["home"] \in Session /\ Kept(shown["home"])
      BY <1>0, <1>4 DEF Finish, TypeOK, Screens, SoundShown
    <3>2. /\ WithStatus(shown["home"], "queued") \in Session
          /\ Kept(WithStatus(shown["home"], "queued"))
      BY <3>1, WithStatusType DEF Kept, KeptIn, Status
    <3> QED BY <1>4, <3>2 DEF Finish
  <2>3. SoundJobs'
    BY <1>0, <2>1, <2>2, StartKeeps DEF Clients, Screens
  <2> QED BY <1>0, <2>1, <2>3 DEF Sound, SoundShown, SoundTodo, SoundPrune,
                                  SoundIndex, Kept, KeptIn
<1>5. ASSUME \/ FinishDone \/ Back
             \/ \E c \in Cleans : shown' = [shown EXCEPT !["past"] = Fresh(c, "selfLogged")]
             \/ \E s \in Stored(index) : shown' = [shown EXCEPT !["past"] = s],
             UNCHANGED <<index, files, reached, job, todo, prune>>
      PROVE  Sound'
  <2>1. Grows
    BY <1>5 DEF Grows
  <2> DEFINE OneChange == \E w \in Screens : \E s :
                            /\ shown' = [shown EXCEPT ![w] = s]
                            /\ s # Nothing => Kept(s)
  <2>2. OneChange
    <3>1. CASE FinishDone
      BY <3>1 DEF FinishDone, Screens
    <3>2. CASE Back
      BY <3>2 DEF Back, Screens
    <3>3. ASSUME NEW c \in Cleans,
                 shown' = [shown EXCEPT !["past"] = Fresh(c, "selfLogged")]
          PROVE  OneChange
      <4>1. Kept(Fresh(c, "selfLogged"))
        BY DEF Fresh, Kept, KeptIn
      <4> QED BY <3>3, <4>1 DEF Screens
    <3>4. ASSUME NEW s \in Stored(index), shown' = [shown EXCEPT !["past"] = s]
          PROVE  OneChange
      <4>1. Kept(s)
        BY <1>0, <1>00, StoredKept
      <4> QED BY <3>4, <4>1 DEF Screens
    <3> HIDE DEF OneChange
    <3> QED BY <1>5, <3>1, <3>2, <3>3, <3>4
  <2>3. PICK w \in Screens : \E s : /\ shown' = [shown EXCEPT ![w] = s]
                                    /\ s # Nothing => Kept(s)
    BY <2>2
  <2>4. PICK s : /\ shown' = [shown EXCEPT ![w] = s]
                 /\ s # Nothing => Kept(s)
    BY <2>3
  <2>5. s # Nothing => Kept(s)'
    BY <2>1, <2>4, GrowsKeeps
  <2>6. SoundShown'
    BY <1>0, <2>1, <2>4, <2>5, ShownSet
  <2> QED BY <1>0, <1>5, <2>6 DEF Sound, SoundJobs, SoundTodo, SoundPrune,
                                  SoundIndex, Kept, KeptIn
<1>6. CASE Refresh
  <2>1. UNCHANGED <<index, files, reached, shown, job>>
    BY <1>6 DEF Refresh
  <2>2. \A s \in Stored(index) : Kept(s)
    BY <1>0, <1>00, StoredKept
  <2>3. SoundTodo'
    BY <1>0, <1>6, <2>1, <2>2 DEF Refresh, ToDrain, SoundTodo, Kept, KeptIn
  <2>4. SoundPrune'
    BY <1>0, <1>6, <2>1 DEF Refresh, SoundPrune, SoundIndex, KeptIn
  <2> QED BY <1>0, <2>1, <2>3, <2>4 DEF Sound, SoundJobs, SoundShown, SoundIndex,
                                        Kept, KeptIn
<1>7. CASE DrainOne
  <2>1. UNCHANGED <<index, files, reached, shown, prune>> /\ Grows
    BY <1>7 DEF DrainOne, Grows
  <2>2. PICK s \in todo :
          /\ todo' = todo \ {s}
          /\ \/ \E st \in {"queued", "accepted", "rejected"} :
                  StartPut("drain", WithStatus(s, st))
             \/ UNCHANGED job
    BY <1>7 DEF DrainOne
  <2>3. SoundJobs'
    <3>1. CASE UNCHANGED job
      BY <1>0, <2>1, <3>1, JobsKeep
    <3>2. ASSUME NEW st \in {"queued", "accepted", "rejected"},
                 StartPut("drain", WithStatus(s, st))
          PROVE  SoundJobs'
      <4>1. WithStatus(s, st) \in Session /\ Kept(WithStatus(s, st))
        BY <1>0, WithStatusType DEF TypeOK, SoundTodo, Kept, KeptIn, Status
      <4> QED BY <1>0, <2>1, <3>2, <4>1, StartKeeps DEF Clients
    <3> QED BY <2>2, <3>1, <3>2
  <2> QED BY <1>0, <2>1, <2>2, <2>3 DEF Sound, SoundShown, SoundTodo, SoundPrune,
                                        SoundIndex, Kept, KeptIn
<1>8. CASE DeletePhoto
  <2>1. PICK n \in Listed(prune.read) \ prune.gone :
          /\ Freeing(n.clean)
          /\ files' = files \ {n}
          /\ prune' = [prune EXCEPT !.gone = @ \cup {n}]
    BY <1>8 DEF DeletePhoto
  <2>2. /\ UNCHANGED <<index, reached, shown, job, todo>>
        /\ prune # Nothing /\ prune \in Prune
    BY <1>0, <1>8 DEF DeletePhoto, TypeOK
  <2>3. n.clean \in reached
    BY <1>0, <2>1, <2>2 DEF Freeing, Candidate, SoundPrune, SoundIndex, Listed, Names
  <2>4. Grows
    BY <2>1, <2>2, <2>3 DEF Grows
  <2>5. PICK i \in Index : i = prune.read
    BY <2>2 DEF Prune
  <2>6. (prune.read)' = i /\ SoundIndex(i)'
    BY <1>0, <2>1, <2>2, <2>4, <2>5, GrowsKeeps DEF SoundPrune, Prune
  <2>7. SoundPrune'
    BY <2>6 DEF SoundPrune, SoundIndex, KeptIn
  <2>8. SoundIndex(index)'
    <3>1. PICK k \in Index : k = index
      BY <1>00
    <3> QED BY <1>0, <2>2, <2>4, <3>1, GrowsKeeps
  <2> QED BY <1>0, <2>2, <2>4, <2>7, <2>8, JobsKeep, GrowsKeeps
          DEF Sound, SoundShown, SoundTodo
<1>9. CASE PruneSave
  <2>1. UNCHANGED <<files, reached, shown, job, todo>> /\ prune' = Nothing
        /\ SoundIndex(prune.read) /\ prune.read \in Index
    BY <1>0, <1>9 DEF PruneSave, SoundPrune, TypeOK, Prune
  <2>2. SoundIndex(index)'
    <3>1. ASSUME NEW c \in Cleans, index'[c] # Nothing
          PROVE  /\ index'[c].status = "accepted" => c \in reached
                 /\ KeptIn(c, index'[c])
      <4>1. CASE index' = index
        BY <1>0, <3>1, <4>1 DEF SoundIndex
      <4>2. CASE c \in Freed /\ index'[c] = [prune.read[c] EXCEPT !.photos = {}]
        BY <2>1, <4>2 DEF SoundIndex, KeptIn, Freed, Index, Manifest
      <4>3. CASE index'[c] = prune.read[c]
        BY <2>1, <3>1, <4>3 DEF SoundIndex
      <4> QED BY <1>9, <4>1, <4>2, <4>3 DEF PruneSave
    <3> QED BY <2>1, <3>1 DEF SoundIndex, KeptIn
  <2> QED BY <1>0, <2>1, <2>2 DEF Sound, SoundJobs, SoundShown, SoundTodo, SoundPrune,
                                  SoundIndex, Kept, KeptIn
<1>10. CASE OpenDetail
  BY <1>5, <1>10 DEF OpenDetail
<1>11. CASE LogClean
  BY <1>5, <1>11 DEF LogClean
<1>12. ASSUME AddPastPhoto \/ SaveLogged
       PROVE  Sound'
  <2>1. UNCHANGED <<index, files, reached, shown, todo, prune>>
    BY <1>12 DEF AddPastPhoto, SaveLogged
  <2>2. PICK s \in Session : Kept(s) /\ (StartAddPhoto("past", s) \/ StartPut("past", s))
    BY <1>0, <1>12 DEF AddPastPhoto, SaveLogged, TypeOK, Screens, SoundShown
  <2>3. SoundJobs'
    BY <1>0, <2>1, <2>2, StartKeeps DEF Clients, Screens
  <2> QED BY <1>0, <2>1, <2>3 DEF Sound, SoundShown, SoundTodo, SoundPrune,
                                  SoundIndex, Kept, KeptIn
<1>13. CASE AppKilled
  <2>1. SoundIndex(index)'
    BY <1>0, <1>13 DEF AppKilled, SoundIndex, KeptIn
  <2> QED BY <1>13, <2>1
      DEF AppKilled, Closed, Sound, SoundJobs, SoundShown, SoundTodo, SoundPrune
<1>16. CASE KilledInSave
  <2>1. SoundIndex(index)'
    BY <1>16 DEF KilledInSave, NoCleans, SoundIndex
  <2> QED BY <1>16, <2>1
      DEF KilledInSave, Closed, Sound, SoundJobs, SoundShown, SoundTodo, SoundPrune
<1>14. CASE UNCHANGED vars
  BY <1>0, <1>14 DEF Sound, SoundJobs, SoundShown, SoundTodo, SoundPrune, SoundIndex,
                     Kept, KeptIn
<1>15. CASE FinishDone \/ Back
  BY <1>5, <1>15 DEF FinishDone, Back
<1> QED BY <1>1, <1>2, <1>3, <1>4, <1>6, <1>7, <1>8, <1>9, <1>10, <1>11, <1>12,
           <1>13, <1>14, <1>15, <1>16 DEF Next

(* Every photo-keeping copy, and the index, stays sound from the start.    *)
THEOREM Invariance == Spec => []IInv
<1>1. Init => IInv
  BY TypeInit, SoundInit DEF IInv
<1>2. IInv /\ [Next]_vars => IInv'
  BY TypeNext, SoundNext DEF IInv
<1> QED BY <1>1, <1>2, PTL DEF Spec

(* Every variable has its type: above all, no photo gets a name outside    *)
(* its clean's (session_store.dart's _nextIndex).                          *)
THEOREM TypeCorrect == Spec => []TypeOK
<1>1. IInv => TypeOK
  BY DEF IInv, TypeInv
<1> QED BY <1>1, Invariance, PTL

(* A photo listed for a clean that never reached the PC is on the disk,    *)
(* whatever is killed, pruned or written back (session_store.dart).        *)
THEOREM UnsentPhotosStay == Spec => []UnsentPhotosAreKept
<1>1. IInv => UnsentPhotosAreKept
  <2> SUFFICES ASSUME IInv, NEW n \in Listed(index), n.clean \notin reached
               PROVE  n \in files
    BY DEF UnsentPhotosAreKept
  <2>1. /\ n = [clean |-> n.clean, nr |-> n.nr] /\ n.clean \in Cleans
        /\ index[n.clean] # Nothing /\ n.nr \in index[n.clean].photos
    BY DEF Listed, Names
  <2> QED BY <2>1 DEF IInv, Sound, SoundIndex, KeptIn
<1> QED BY <1>1, Invariance, PTL
=============================================================================
