-------------------------- MODULE UploadQueueProofs --------------------------
(***************************************************************************)
(* What holds of UploadQueue for every number of days, cleans, drains and  *)
(* kills: a clean is only credited against its own day's challenge, and    *)
(* none is shown as accepted that was never sent.                          *)
(***************************************************************************)
EXTENDS UploadQueue, WellFoundedInduction, TLAPS

(* Where the handlers stand: a drain that has a clean in hand has it on    *)
(* its list, one that sent it knows its challenge, and the PC holds the    *)
(* payload it works on.                                                    *)
Shape ==
  /\ \A p \in Drains :
       /\ dpc[p] \in {"sending", "settling", "recording", "confirm"} => todo[p] # {}
       /\ dpc[p] \in {"sending", "recording", "confirm"} => chal[p] # Nothing
  /\ ppc \in {"took", "spent"} => pheld # Nothing
  /\ ppc = "spent" => pheld.token \in minted

TypeInv == TypeOK /\ Shape

(* A manifest m of clean c tells the truth when b are the days the cleans  *)
(* were begun and u those that were uploaded.                              *)
TellsTruth(b, u, c, m) ==
  /\ b[c] # Nothing
  /\ m.token # Nothing => c \in u /\ m.token = b[c]
  /\ m.status = "accepted" => m.token # Nothing

IndexTellsTruth(b, u, ix) ==
  \A c \in Cleans : ix[c] # Nothing => TellsTruth(b, u, c, ix[c])

(* Not only the stored manifests tell the truth but every copy of one that *)
(* a drain or a put still carries, since each may be written back.         *)
Honest ==
  /\ IndexTellsTruth(begun, uploaded, index)
  /\ \A w \in Clients : put[w] # Nothing =>
       /\ TellsTruth(begun, uploaded, put[w].clean, put[w].to)
       /\ put[w].read # Nothing => IndexTellsTruth(begun, uploaded, put[w].read)
  /\ \A p \in Drains : \A s \in todo[p] :
       TellsTruth(begun, uploaded, s.clean, s.was)
  /\ \A p \in Drains : dpc[p] \in {"sending", "recording", "confirm"} =>
       /\ dpc[p] # "sending" => At(p).clean \in uploaded
       /\ begun[At(p).clean] = chal[p].token
  /\ current # Nothing => begun[current] # Nothing

(* The order of a drain's looks at the clock: the challenge it works with  *)
(* was there by the day it takes for today, and that day by now.           *)
Dated ==
  /\ chalNode # Nothing => chalNode.token =< day
  /\ \A x \in minted : x =< day
  /\ \A p \in Drains :
       /\ chal[p] # Nothing => chal[p].token =< day
       /\ today[p] # Nothing =>
            /\ today[p] =< day
            /\ chal[p] # Nothing => chal[p].token =< today[p]
       /\ dpc[p] \in {"idle", "fetch"} => today[p] = Nothing

(* Every payload on its way was taken on the day of the token it echoes.   *)
OwnDay ==
  /\ evNode # Nothing => evNode.captured = evNode.token
  /\ pheld # Nothing => pheld.captured = pheld.token
  /\ SpendsOwnDay

(* A non-empty set of natural numbers has a least element.                 *)
LEMMA LeastNumber ==
  ASSUME NEW S, S \subseteq Nat, S # {}
  PROVE  \E i \in S : \A j \in S : i =< j
<1> DEFINE R == {p \in Nat \X Nat : p[1] < p[2]}
<1>1. IsWellFoundedOn(R, Nat)
  BY NatLessThanWellFounded DEF OpToRel
<1>2. PICK m \in S : \A k \in S : ~(<<k, m>> \in R)
  <2> HIDE DEF R
  <2> QED BY <1>1, WFMin
<1>3. ASSUME NEW j \in S PROVE m =< j
  <2>1. j \in Nat /\ m \in Nat
    OBVIOUS
  <2>2. <<j, m>> \in Nat \X Nat /\ (j < m => <<j, m>> \in R)
    BY <2>1
  <2> QED BY <1>2, <2>1, <2>2
<1> QED BY <1>3

(* The clean a drain turns to is one of its list.                          *)
LEMMA AtIsListed ==
  ASSUME TypeOK, NEW p \in Drains, todo[p] # {}
  PROVE  At(p) \in todo[p] /\ At(p) \in [clean : Cleans, was : Manifest]
<1> DEFINE Ids == {s.clean : s \in todo[p]}
<1>1. todo[p] \subseteq [clean : Cleans, was : Manifest]
  BY DEF TypeOK
<1>2. Ids \subseteq Nat /\ Ids # {}
  BY <1>1 DEF Cleans
<1>3. PICK i \in Ids : \A j \in Ids : i =< j
  <2> HIDE DEF Ids
  <2> QED BY <1>2, LeastNumber
<1>4. \E x \in todo[p] : \A t \in todo[p] : x.clean =< t.clean
  BY <1>3
<1> QED BY <1>1, <1>4 DEF At

(* What is about to be sent was cleaned on the day of the challenge it is  *)
(* to answer: the challenge is today's by the clock, and neither it nor    *)
(* the day the drain began with can be later than that.                    *)
LEMMA SentForOwnDay ==
  ASSUME TypeInv, Honest, Dated, NEW p \in Drains, MaySend(p)
  PROVE  chal[p] # Nothing /\ begun[At(p).clean] = chal[p].token
<1>1. /\ At(p) \in todo[p]
      /\ At(p) \in [clean : Cleans, was : Manifest]
  BY AtIsListed DEF MaySend, IsNext, TypeInv
<1>2. begun[At(p).clean] \in Days /\ begun[At(p).clean] = today[p]
  BY <1>1 DEF MaySend, IsPast, Honest, TellsTruth, TypeInv, TypeOK
<1>3. chal[p] # Nothing /\ chal[p] \in Challenge /\ chal[p].token = day
  BY DEF MaySend, IsSatisfiable, TypeInv, TypeOK
<1>4. today[p] =< day /\ day =< today[p]
  <2>1. today[p] # Nothing
    BY <1>2, UploadQueueAssumption DEF Days
  <2> QED BY <1>3, <2>1 DEF Dated
<1>5. today[p] = day
  BY <1>2, <1>4 DEF TypeInv, TypeOK, Days
<1> QED BY <1>2, <1>3, <1>5

(* So is what is being sent, however long that takes.                      *)
LEMMA PayloadOfOwnDay ==
  ASSUME TypeInv, Honest, NEW p \in Drains, dpc[p] = "sending"
  PROVE  /\ At(p) \in todo[p] /\ At(p) \in [clean : Cleans, was : Manifest]
         /\ chal[p] \in Challenge /\ chal[p] # Nothing
         /\ begun[At(p).clean] = chal[p].token
         /\ PayloadAt(p) \in Payload
         /\ PayloadAt(p).captured = PayloadAt(p).token
<1>1. At(p) \in todo[p] /\ At(p) \in [clean : Cleans, was : Manifest]
  BY AtIsListed DEF TypeInv, Shape
<1>2. chal[p] \in Challenge /\ chal[p] # Nothing
  BY DEF TypeInv, Shape, TypeOK
<1>3. begun[At(p).clean] = chal[p].token
  BY DEF Honest
<1> QED BY <1>1, <1>2, <1>3 DEF PayloadAt, Payload, Challenge

(* store.queued() lists manifests.                                         *)
LEMMA QueuedType ==
  ASSUME TypeOK
  PROVE  Queued \subseteq [clean : Cleans, was : Manifest]
BY DEF TypeOK, Index, Queued

(* The initial state is typed.                                             *)
LEMMA TypeInvInit == Init => TypeInv
<1> SUFFICES ASSUME Init PROVE TypeInv
  OBVIOUS
<1>1. TypeOK
  BY UploadQueueAssumption DEF Init, TypeOK, Days, Cleans, Clients, Index
<1> QED BY <1>1 DEF Init, TypeInv, Shape

(* No step leaves the types.                                               *)
LEMMA TypeInvNext ==
  ASSUME TypeInv, Honest, Dated, [Next]_vars
  PROVE  TypeInv'
<1> USE DEF diskVars, homeVars, drainVars, queueVars, nodeVars, pcVars, vars
<1>1. ASSUME NEW w \in Clients, PutLoad(w)
      PROVE  TypeInv'
  BY <1>1 DEF PutLoad,
     TypeInv, Shape, TypeOK, Put
<1>2. ASSUME NEW w \in Clients, PutSave(w)
      PROVE  TypeInv'
  <2>1. index' \in Index
    BY <1>2 DEF PutSave, SaveOf, TypeInv, TypeOK, Put, Index
  <2> QED BY <1>2, <2>1 DEF PutSave, AfterPut, NextOne, TypeInv, Shape, TypeOK, Clients, Put
<1>3. ASSUME NEW c \in Cleans, TakePhoto(c)
      PROVE  TypeInv'
  BY <1>3 DEF TakePhoto, NewClean, StartPut, Draft,
     TypeInv, Shape, TypeOK, Put, Manifest, Status, Clients
<1>4. CASE Finish
  BY <1>4 DEF Finish, StartPut, Finished,
     TypeInv, Shape, TypeOK, Put, Manifest, Status, Clients
<1>5. ASSUME NEW p \in Drains, FinishDrain(p)
      PROVE  TypeInv'
  <2>1. todo' \in [Drains -> SUBSET [clean : Cleans, was : Manifest]]
    BY <1>5, QueuedType DEF FinishDrain, BeginDrain, TypeInv, TypeOK
  <2> QED BY <1>5, <2>1 DEF FinishDrain, BeginDrain, TypeInv, Shape, TypeOK
<1>6. ASSUME NEW p \in Drains, Refresh(p)
      PROVE  TypeInv'
  <2>1. todo' \in [Drains -> SUBSET [clean : Cleans, was : Manifest]]
    BY <1>6, QueuedType DEF Refresh, BeginDrain, TypeInv, TypeOK
  <2> QED BY <1>6, <2>1 DEF Refresh, BeginDrain, TypeInv, Shape, TypeOK
<1>7. ASSUME NEW p \in Drains, Fetch(p)
      PROVE  TypeInv'
  BY <1>7 DEF Fetch,
     TypeInv, Shape, TypeOK
<1>8. ASSUME NEW p \in Drains, ReadToday(p)
      PROVE  TypeInv'
  BY <1>8 DEF ReadToday,
     TypeInv, Shape, TypeOK, Days
<1>9. ASSUME NEW p \in Drains, Settle(p)
      PROVE  TypeInv'
  <2>1. At(p) \in [clean : Cleans, was : Manifest]
    BY <1>9, AtIsListed DEF Settle, IsNext, TypeInv
  <2> QED BY <1>9, <2>1 DEF Settle, PutAt, StartPut, IsNext,
             TypeInv, Shape, TypeOK, Put, Manifest, Status, Clients
<1>10. ASSUME NEW p \in Drains, KeepAsRecord(p)
      PROVE  TypeInv'
  <2>1. At(p) \in [clean : Cleans, was : Manifest]
    BY <1>10, AtIsListed DEF KeepAsRecord, IsNext, TypeInv
  <2> QED BY <1>10, <2>1 DEF KeepAsRecord, PutAt, StartPut, IsNext,
             TypeInv, Shape, TypeOK, Put, Manifest, Status, Clients
<1>11. ASSUME NEW p \in Drains, LeaveWaiting(p)
      PROVE  TypeInv'
  BY <1>11 DEF LeaveWaiting, NextOne, IsNext,
     TypeInv, Shape, TypeOK
<1>26. ASSUME NEW p \in Drains, StartSend(p)
       PROVE  TypeInv'
  <2>1. chal[p] # Nothing /\ todo[p] # {}
    BY <1>26, SentForOwnDay DEF StartSend, MaySend, IsNext
  <2> QED BY <1>26, <2>1 DEF StartSend, TypeInv, Shape, TypeOK
<1>12. ASSUME NEW p \in Drains, Send(p)
      PROVE  TypeInv'
  <2>1. chal[p] \in Challenge /\ chal[p] # Nothing /\ PayloadAt(p) \in Payload
    BY <1>12, PayloadOfOwnDay DEF Send
  <2>2. At(p) \in todo[p] /\ At(p) \in [clean : Cleans, was : Manifest]
    BY <1>12, PayloadOfOwnDay DEF Send
  <2> DEFINE m == [At(p).was EXCEPT !.token = chal[p].token]
  <2>3. m \in Manifest
    BY <2>1, <2>2 DEF Manifest, Challenge
  <2>4. put' \in [Clients -> Put \cup {Nothing}]
    <3>1. [clean |-> At(p).clean, to |-> m, read |-> Nothing] \in Put
      BY <2>2, <2>3 DEF Put
    <3> QED BY <1>12, <3>1 DEF Send, PutAt, StartPut, TypeInv, TypeOK, Clients
  <2>5. evNode' \in Payload /\ uploaded' \subseteq Cleans
    BY <1>12, <2>1, <2>2 DEF Send, TypeInv, TypeOK
  <2> QED BY <1>12, <2>1, <2>2, <2>4, <2>5 DEF Send, PutAt, TypeInv, Shape, TypeOK
<1>13. ASSUME NEW p \in Drains, SendFails(p)
      PROVE  TypeInv'
  <2>1. PayloadAt(p) \in Payload
    BY <1>13, PayloadOfOwnDay DEF SendFails
  <2>2. At(p) \in todo[p] /\ At(p) \in [clean : Cleans, was : Manifest]
    BY <1>13, PayloadOfOwnDay DEF SendFails
  <2> QED BY <1>13, <2>1, <2>2 DEF SendFails, NextOne, TypeInv, Shape, TypeOK
<1>14. ASSUME NEW p \in Drains, Confirm(p)
      PROVE  TypeInv'
  <2>1. At(p) \in [clean : Cleans, was : Manifest] /\ chal[p] \in Challenge
    BY <1>14, AtIsListed DEF Confirm, TypeInv, Shape, TypeOK
  <2> QED BY <1>14, <2>1 DEF Confirm, PutAt, StartPut, Challenge,
             TypeInv, Shape, TypeOK, Put, Manifest, Status, Clients
<1>15. ASSUME NEW p \in Drains, GiveUp(p)
      PROVE  TypeInv'
  BY <1>15 DEF GiveUp, NextOne,
     TypeInv, Shape, TypeOK
<1>16. ASSUME NEW p \in Drains, EndDrain(p)
      PROVE  TypeInv'
  BY <1>16 DEF EndDrain,
     TypeInv, Shape, TypeOK
<1>17. CASE AppKilled
  BY <1>17, UploadQueueAssumption DEF AppKilled, TypeInv, Shape, TypeOK, Clients
<1>18. CASE PcArm
  <2>1. chalNode' \in Challenge \cup {Nothing}
    <3>1. (day \in spent) \in BOOLEAN
      OBVIOUS
    <3>2. [token |-> day, consumed |-> day \in spent] \in Challenge
      BY <3>1 DEF TypeInv, TypeOK, Challenge
    <3> QED BY <1>18, <3>2 DEF PcArm, TypeInv, TypeOK
  <2>2. minted' \subseteq Days /\ spent' \subseteq minted'
    BY <1>18 DEF PcArm, TypeInv, TypeOK
  <2> QED BY <1>18, <2>1, <2>2 DEF PcArm, PhoneSame, TypeInv, Shape, TypeOK
<1>19. CASE PcFetch
  BY <1>19 DEF PcFetch, PhoneSame,
     TypeInv, Shape, TypeOK
<1>20. CASE PcRefuse
  BY <1>20 DEF PcRefuse, PhoneSame,
     TypeInv, Shape, TypeOK
<1>21. CASE PcCredit
  BY <1>21 DEF PcCredit, PhoneSame,
     TypeInv, Shape, TypeOK, Payload
<1>22. CASE PcClose
  <2>1. chalNode' \in Challenge \cup {Nothing}
    <3>1. pheld.token \in Days
      BY <1>22 DEF PcClose, TypeInv, Shape, TypeOK, Payload
    <3>2. [token |-> pheld.token, consumed |-> TRUE] \in Challenge
      BY <3>1 DEF Challenge
    <3> QED BY <1>22, <3>2 DEF PcClose, TypeInv, TypeOK
  <2> QED BY <1>22, <2>1 DEF PcClose, PhoneSame, TypeInv, Shape, TypeOK
<1>23. CASE PcStops
  BY <1>23 DEF PcStops, PhoneSame,
     TypeInv, Shape, TypeOK
<1>24. CASE Midnight
  BY <1>24, UploadQueueAssumption DEF Midnight, PhoneSame, TypeInv, Shape, TypeOK, Days
<1>25. CASE UNCHANGED vars
  BY <1>25 DEF TypeInv, Shape, TypeOK
<1> QED BY <1>1, <1>2, <1>3, <1>4, <1>5, <1>6, <1>7, <1>8, <1>9, <1>10, <1>11, <1>12, <1>13,
           <1>14, <1>15, <1>16, <1>17, <1>18, <1>19, <1>20, <1>21, <1>22, <1>23, <1>24, <1>25, <1>26
           DEF Next, User, Pc, DrainStep

(* What a manifest was true of stays so: no step changes the day a clean   *)
(* was begun on or forgets an upload.                                      *)
LEMMA TruthStays ==
  ASSUME TypeInv, Honest, [Next]_vars
  PROVE  /\ \A c \in Cleans : begun[c] # Nothing => begun'[c] = begun[c]
         /\ uploaded \subseteq uploaded'
         /\ \A c \in Cleans : \A m :
              TellsTruth(begun, uploaded, c, m) => TellsTruth(begun', uploaded', c, m)
         /\ \A ix : IndexTellsTruth(begun, uploaded, ix)
                      => IndexTellsTruth(begun', uploaded', ix)
<1> USE DEF diskVars, homeVars, drainVars, queueVars, nodeVars, pcVars, vars
<1>1. /\ \A c \in Cleans : begun[c] # Nothing => begun'[c] = begun[c]
      /\ uploaded \subseteq uploaded'
  <2>1. ASSUME NEW c \in Cleans, TakePhoto(c)
        PROVE  /\ \A b \in Cleans : begun[b] # Nothing => begun'[b] = begun[b]
               /\ uploaded \subseteq uploaded'
    BY <2>1 DEF TakePhoto, NewClean, TypeInv, TypeOK
  <2>2. ASSUME NEW p \in Drains, Send(p) \/ SendFails(p)
        PROVE  UNCHANGED begun /\ uploaded \subseteq uploaded'
    BY <2>2 DEF Send, SendFails
  <2>3. ASSUME ~ \E c \in Cleans : TakePhoto(c),
               ~ \E p \in Drains : Send(p) \/ SendFails(p)
        PROVE  UNCHANGED <<begun, uploaded>>
    BY <2>3 DEF Next, User, Pc, DrainStep, Finish, Refresh, AppKilled, Midnight,
                PcArm, PcFetch, PcRefuse, PcCredit, PcClose, PcStops, PhoneSame,
                FinishDrain, PutLoad, PutSave, Fetch, ReadToday, Settle,
                KeepAsRecord, LeaveWaiting, StartSend, Confirm, GiveUp, EndDrain
  <2> QED BY <2>1, <2>2, <2>3
<1>2. \A c \in Cleans : \A m :
        TellsTruth(begun, uploaded, c, m) => TellsTruth(begun', uploaded', c, m)
  BY <1>1 DEF TellsTruth
<1>3. \A ix : IndexTellsTruth(begun, uploaded, ix)
                => IndexTellsTruth(begun', uploaded', ix)
  BY <1>2 DEF IndexTellsTruth
<1> QED BY <1>1, <1>2, <1>3

(* No client of the store ever writes, or carries, an untrue manifest.     *)
LEMMA HonestNext ==
  ASSUME TypeInv, TypeInv', Honest, Dated, [Next]_vars
  PROVE  Honest'
<1> USE DEF diskVars, homeVars, drainVars, queueVars, nodeVars, pcVars, vars
<1>stays. /\ \A c \in Cleans : begun[c] # Nothing => begun'[c] = begun[c]
         /\ uploaded \subseteq uploaded'
         /\ \A c \in Cleans : \A m :
              TellsTruth(begun, uploaded, c, m) => TellsTruth(begun', uploaded', c, m)
         /\ \A ix : IndexTellsTruth(begun, uploaded, ix)
                      => IndexTellsTruth(begun', uploaded', ix)
  BY TruthStays
<1>at. \A p \in Drains : todo'[p] = todo[p] => At(p)' = At(p)
  BY DEF At
<1>ids. /\ \A w \in Clients : put[w] # Nothing => put[w].clean \in Cleans
        /\ \A p \in Drains : \A s \in todo[p] : s.clean \in Cleans
        /\ current # Nothing => current \in Cleans
        /\ \A p \in Drains : todo[p] # {} => At(p).clean \in Cleans
  BY AtIsListed DEF TypeInv, TypeOK, Put
<1>1. ASSUME NEW w \in Clients, PutLoad(w)
      PROVE  Honest'
  BY <1>1, <1>stays, <1>at, <1>ids DEF PutLoad, Honest, TypeInv, TypeOK, Put
<1>2. ASSUME NEW w \in Clients, PutSave(w)
      PROVE  Honest'
  <2>1. /\ put[w] \in Put /\ put[w].read \in Index
        /\ TellsTruth(begun, uploaded, put[w].clean, put[w].to)
        /\ IndexTellsTruth(begun, uploaded, put[w].read)
    BY <1>2 DEF PutSave, Honest, TypeInv, TypeOK, Put
  <2>2. IndexTellsTruth(begun, uploaded, index')
    BY <1>2, <2>1 DEF PutSave, SaveOf, IndexTellsTruth, Index, Put
  <2>3. begun[put[w].clean] # Nothing
    BY <2>1 DEF TellsTruth
  <2>4. current' # Nothing => begun'[current'] # Nothing
    BY <1>2, <2>1, <2>3 DEF PutSave, AfterPut, NextOne, Honest, Put
  <2>5. /\ \A p \in Drains : todo'[p] \subseteq todo[p]
        /\ \A p \in Drains : dpc'[p] \in {"sending", "recording", "confirm"} =>
             /\ dpc[p] \in {"sending", "recording", "confirm"} /\ (dpc[p] = "sending" <=> dpc'[p] = "sending")
             /\ todo'[p] = todo[p]
        /\ UNCHANGED chal
    BY <1>2 DEF PutSave, AfterPut, NextOne, TypeInv, TypeOK
  <2>6. \A p \in Drains : dpc'[p] \in {"sending", "recording", "confirm"} =>
          /\ dpc'[p] # "sending" => At(p)'.clean \in uploaded'
          /\ begun'[At(p)'.clean] = chal'[p].token
    BY <1>2, <2>5, <1>at DEF PutSave, Honest
  <2>7. \A v \in Clients : put'[v] # Nothing => put'[v] = put[v]
    BY <1>2 DEF PutSave, TypeInv, TypeOK
  <2> QED BY <1>2, <2>2, <2>4, <2>5, <2>6, <2>7, <1>stays, <1>ids DEF PutSave, Honest
<1>3. ASSUME NEW c \in Cleans, TakePhoto(c)
      PROVE  Honest'
  <2>day. day # Nothing
    BY UploadQueueAssumption DEF TypeInv, TypeOK, Days
  <2>now. c # Nothing
    BY UploadQueueAssumption DEF Cleans
  <2>1. begun'[c] # Nothing
    BY <1>3, <2>day, <2>now DEF TakePhoto, Honest, TypeInv, TypeOK
  <2>2. TellsTruth(begun', uploaded', c, Draft)
    BY <2>1 DEF TellsTruth, Draft
  <2>3. \A v \in Clients : put'[v] # Nothing =>
          \/ put'[v] = put[v]
          \/ put'[v] = [clean |-> c, to |-> Draft, read |-> Nothing]
    BY <1>3 DEF TakePhoto, StartPut, TypeInv, TypeOK
  <2>4. \A w \in Clients : put'[w] # Nothing =>
       /\ TellsTruth(begun', uploaded', put'[w].clean, put'[w].to)
       /\ put'[w].read # Nothing => IndexTellsTruth(begun', uploaded', put'[w].read)
    BY <2>2, <2>3, <1>stays, <1>ids DEF Honest
  <2>5. UNCHANGED <<index, current, todo, chal, dpc, uploaded>>
    BY <1>3 DEF TakePhoto
  <2>6. \A q \in Drains : dpc'[q] \in {"sending", "recording", "confirm"} =>
           /\ dpc'[q] # "sending" => At(q)'.clean \in uploaded'
           /\ begun'[At(q)'.clean] = chal'[q].token
    BY <2>5, <1>stays, <1>at, <1>ids, AtIsListed DEF Honest, TypeInv, Shape, TellsTruth
  <2>s. index' = index
    BY <2>5
  <2>i. IndexTellsTruth(begun', uploaded', index')
    BY <2>s, <1>stays DEF Honest, IndexTellsTruth
  <2>l. \A q \in Drains : \A s \in todo'[q] :
          TellsTruth(begun', uploaded', s.clean, s.was)
    BY <2>5, <1>stays, <1>ids DEF Honest
  <2>c. current' # Nothing => begun'[current'] # Nothing
    BY <2>5, <1>stays, <1>ids DEF Honest
  <2> QED BY <2>4, <2>6, <2>i, <2>l, <2>c DEF Honest
<1>4. CASE Finish
  <2>1. current \in Cleans /\ begun[current] # Nothing
    BY <1>4 DEF Finish, Honest, TypeInv, TypeOK
  <2>2. TellsTruth(begun, uploaded, current, Finished)
    BY <2>1 DEF TellsTruth, Finished
  <2> QED BY <1>4, <2>1, <2>2, <1>stays, <1>at, <1>ids
          DEF Finish, StartPut, Honest, TypeInv, TypeOK, Clients
<1>5. ASSUME NEW p \in Drains, FinishDrain(p)
      PROVE  Honest'
  <2>1. \A s \in Queued : TellsTruth(begun, uploaded, s.clean, s.was)
    BY DEF Queued, Honest, IndexTellsTruth
  <2>2. \A q \in Drains : todo'[q] = todo[q] \/ todo'[q] = Queued
    BY <1>5 DEF FinishDrain, BeginDrain, TypeInv, TypeOK
  <2>3. \A q \in Drains : dpc'[q] \in {"sending", "recording", "confirm"} =>
          /\ dpc[q] \in {"sending", "recording", "confirm"} /\ (dpc[q] = "sending" <=> dpc'[q] = "sending")
          /\ todo'[q] = todo[q]
    BY <1>5 DEF FinishDrain, BeginDrain, TypeInv, TypeOK
  <2>4. Queued \subseteq [clean : Cleans, was : Manifest]
    BY QueuedType DEF TypeInv
  <2> QED BY <1>5, <2>1, <2>2, <2>3, <2>4, <1>stays, <1>at, <1>ids DEF FinishDrain, BeginDrain, Honest
<1>6. ASSUME NEW p \in Drains, Refresh(p)
      PROVE  Honest'
  <2>1. \A s \in Queued : TellsTruth(begun, uploaded, s.clean, s.was)
    BY DEF Queued, Honest, IndexTellsTruth
  <2>2. \A q \in Drains : todo'[q] = todo[q] \/ todo'[q] = Queued
    BY <1>6 DEF Refresh, BeginDrain, TypeInv, TypeOK
  <2>3. \A q \in Drains : dpc'[q] \in {"sending", "recording", "confirm"} =>
          /\ dpc[q] \in {"sending", "recording", "confirm"} /\ (dpc[q] = "sending" <=> dpc'[q] = "sending")
          /\ todo'[q] = todo[q]
    BY <1>6 DEF Refresh, BeginDrain, TypeInv, TypeOK
  <2>4. Queued \subseteq [clean : Cleans, was : Manifest]
    BY QueuedType DEF TypeInv
  <2> QED BY <1>6, <2>1, <2>2, <2>3, <2>4, <1>stays, <1>at, <1>ids DEF Refresh, BeginDrain, Honest
<1>7. ASSUME NEW p \in Drains, Fetch(p)
      PROVE  Honest'
  <2>1. \A q \in Drains : dpc'[q] \in {"sending", "recording", "confirm"} =>
          /\ dpc[q] \in {"sending", "recording", "confirm"} /\ (dpc[q] = "sending" <=> dpc'[q] = "sending")
          /\ chal'[q] = chal[q]
    BY <1>7 DEF Fetch, TypeInv, TypeOK
  <2> QED BY <1>7, <2>1, <1>stays, <1>at, <1>ids DEF Fetch, Honest, TypeInv, TypeOK
<1>8. ASSUME NEW p \in Drains, ReadToday(p)
      PROVE  Honest'
  BY <1>8, <1>stays, <1>at, <1>ids DEF ReadToday, Honest, TypeInv, TypeOK
<1>9. ASSUME NEW p \in Drains, Settle(p)
      PROVE  Honest'
  <2>1. At(p) \in todo[p] /\ At(p) \in [clean : Cleans, was : Manifest]
    BY <1>9, AtIsListed DEF Settle, IsNext, TypeInv
  <2>2. TellsTruth(begun, uploaded, At(p).clean, At(p).was)
    BY <2>1 DEF Honest
  <2>3. TellsTruth(begun, uploaded, At(p).clean, [At(p).was EXCEPT !.status = "accepted"])
    BY <1>9, <2>1, <2>2 DEF TellsTruth, Manifest, Settle, WasTaken
  <2> QED BY <1>9, <2>1, <2>3, <1>stays, <1>at, <1>ids DEF Settle, PutAt, StartPut, Honest, Clients, TypeInv, TypeOK
<1>10. ASSUME NEW p \in Drains, KeepAsRecord(p)
      PROVE  Honest'
  <2>1. At(p) \in todo[p] /\ At(p) \in [clean : Cleans, was : Manifest]
    BY <1>10, AtIsListed DEF KeepAsRecord, IsNext, TypeInv
  <2>2. TellsTruth(begun, uploaded, At(p).clean, At(p).was)
    BY <2>1 DEF Honest
  <2>3. TellsTruth(begun, uploaded, At(p).clean, [At(p).was EXCEPT !.status = "rejected"])
    BY <1>10, <2>1, <2>2 DEF TellsTruth, Manifest
  <2> QED BY <1>10, <2>1, <2>3, <1>stays, <1>at, <1>ids DEF KeepAsRecord, PutAt, StartPut, Honest, Clients, TypeInv, TypeOK
<1>11. ASSUME NEW p \in Drains, LeaveWaiting(p)
      PROVE  Honest'
  <2>1. /\ \A q \in Drains : todo'[q] \subseteq todo[q]
        /\ \A q \in Drains : dpc'[q] \in {"sending", "recording", "confirm"} =>
             /\ dpc[q] \in {"sending", "recording", "confirm"} /\ (dpc[q] = "sending" <=> dpc'[q] = "sending")
             /\ todo'[q] = todo[q]
    BY <1>11 DEF LeaveWaiting, NextOne, TypeInv, TypeOK
  <2> QED BY <1>11, <2>1, <1>stays, <1>at, <1>ids DEF LeaveWaiting, NextOne, Honest
<1>26. ASSUME NEW p \in Drains, StartSend(p)
       PROVE  Honest'
  <2>1. begun[At(p).clean] = chal[p].token
    BY <1>26, SentForOwnDay DEF StartSend
  <2>2. \A q \in Drains : q # p => dpc'[q] = dpc[q]
    BY <1>26 DEF StartSend, TypeInv, TypeOK
  <2>3. dpc'[p] = "sending"
    BY <1>26 DEF StartSend, TypeInv, TypeOK
  <2>4. UNCHANGED <<index, begun, put, todo, chal, current, uploaded>>
    BY <1>26 DEF StartSend
  <2>5. \A q \in Drains : dpc'[q] \in {"sending", "recording", "confirm"} =>
          /\ dpc'[q] # "sending" => At(q)'.clean \in uploaded'
          /\ begun'[At(q)'.clean] = chal'[q].token
    BY <2>1, <2>2, <2>3, <2>4, <1>at DEF Honest
  <2> QED BY <2>4, <2>5 DEF Honest, IndexTellsTruth, TellsTruth
<1>12. ASSUME NEW p \in Drains, Send(p)
      PROVE  Honest'
  <2>1. chal[p] \in Challenge /\ begun[At(p).clean] = chal[p].token
    BY <1>12, PayloadOfOwnDay DEF Send
  <2>2. At(p) \in todo[p] /\ At(p) \in [clean : Cleans, was : Manifest]
    BY <1>12, PayloadOfOwnDay DEF Send
  <2> DEFINE m == [At(p).was EXCEPT !.token = chal[p].token]
  <2>3. TellsTruth(begun, uploaded, At(p).clean, At(p).was)
    BY <2>2 DEF Honest
  <2>4. chal[p].token # Nothing
    BY <2>1, UploadQueueAssumption DEF Challenge, Days
  <2>5. At(p).clean \in uploaded' /\ begun' = begun
    BY <1>12 DEF Send
  <2>6. TellsTruth(begun', uploaded', At(p).clean, m)
    BY <2>1, <2>2, <2>3, <2>4, <2>5 DEF TellsTruth, Manifest
  <2>7. \A v \in Clients : put'[v] # Nothing =>
          \/ put'[v] = put[v]
          \/ put'[v] = [clean |-> At(p).clean, to |-> m, read |-> Nothing]
    BY <1>12 DEF Send, PutAt, StartPut, TypeInv, TypeOK
  <2>8. \A q \in Drains : q # p => dpc'[q] = dpc[q]
    BY <1>12 DEF Send, PutAt, TypeInv, TypeOK
  <2>9. UNCHANGED <<index, begun, current, todo, chal>>
    BY <1>12 DEF Send, PutAt
  <2> HIDE DEF m
  <2>10. \A w \in Clients : put'[w] # Nothing =>
       /\ TellsTruth(begun', uploaded', put'[w].clean, put'[w].to)
       /\ put'[w].read # Nothing => IndexTellsTruth(begun', uploaded', put'[w].read)
    BY <2>6, <2>7, <1>stays, <1>ids DEF Honest
  <2>11. \A q \in Drains : dpc'[q] \in {"sending", "recording", "confirm"} =>
           /\ dpc'[q] # "sending" => At(q)'.clean \in uploaded'
           /\ begun'[At(q)'.clean] = chal'[q].token
    BY <2>1, <2>5, <2>8, <2>9, <1>stays, <1>at DEF Honest
  <2>s. index' = index
    BY <2>9
  <2>i. IndexTellsTruth(begun', uploaded', index')
    BY <2>s, <1>stays DEF Honest, IndexTellsTruth
  <2>l. \A q \in Drains : \A s \in todo'[q] :
          TellsTruth(begun', uploaded', s.clean, s.was)
    BY <2>9, <1>stays, <1>ids DEF Honest
  <2>c. current' # Nothing => begun'[current'] # Nothing
    BY <2>9, <1>stays, <1>ids DEF Honest
  <2> QED BY <2>10, <2>11, <2>i, <2>l, <2>c DEF Honest
<1>13. ASSUME NEW p \in Drains, SendFails(p)
      PROVE  Honest'
  <2>1. /\ \A q \in Drains : todo'[q] \subseteq todo[q]
        /\ \A q \in Drains : dpc'[q] \in {"sending", "recording", "confirm"} =>
             /\ dpc[q] \in {"sending", "recording", "confirm"} /\ (dpc[q] = "sending" <=> dpc'[q] = "sending")
             /\ todo'[q] = todo[q]
    BY <1>13 DEF SendFails, NextOne, TypeInv, TypeOK
  <2>2. UNCHANGED <<index, begun, put, current, chal>>
    BY <1>13 DEF SendFails, NextOne
  <2>3. \A q \in Drains : dpc'[q] \in {"sending", "recording", "confirm"} =>
          /\ dpc'[q] # "sending" => At(q)'.clean \in uploaded'
          /\ begun'[At(q)'.clean] = chal'[q].token
    BY <2>1, <2>2, <1>stays, <1>at DEF Honest
  <2>4. \A w \in Clients : put'[w] # Nothing =>
       /\ TellsTruth(begun', uploaded', put'[w].clean, put'[w].to)
       /\ put'[w].read # Nothing => IndexTellsTruth(begun', uploaded', put'[w].read)
    BY <2>2, <1>stays, <1>ids DEF Honest
  <2>s. index' = index
    BY <2>2
  <2>i. IndexTellsTruth(begun', uploaded', index')
    BY <2>s, <1>stays DEF Honest, IndexTellsTruth
  <2>l. \A q \in Drains : \A s \in todo'[q] :
          TellsTruth(begun', uploaded', s.clean, s.was)
    BY <2>1, <1>stays, <1>ids DEF Honest
  <2>c. current' # Nothing => begun'[current'] # Nothing
    BY <2>2, <1>stays, <1>ids DEF Honest
  <2> QED BY <2>3, <2>4, <2>i, <2>l, <2>c DEF Honest
<1>14. ASSUME NEW p \in Drains, Confirm(p)
      PROVE  Honest'
  <2>1. At(p) \in [clean : Cleans, was : Manifest]
    BY <1>14, AtIsListed DEF Confirm, TypeInv, Shape
  <2>2. chal[p] \in Challenge /\ chal[p].token # Nothing
    BY <1>14, UploadQueueAssumption DEF Confirm, TypeInv, Shape, TypeOK, Challenge, Days
  <2>3. TellsTruth(begun, uploaded, At(p).clean,
                   [status |-> "accepted", token |-> chal[p].token])
    BY <1>14, <2>1, <2>2 DEF Confirm, Honest, TellsTruth
  <2> QED BY <1>14, <2>1, <2>3, <1>stays, <1>at, <1>ids
          DEF Confirm, PutAt, StartPut, Honest, Clients, TypeInv, TypeOK
<1>15. ASSUME NEW p \in Drains, GiveUp(p)
      PROVE  Honest'
  <2>1. /\ \A q \in Drains : todo'[q] \subseteq todo[q]
        /\ \A q \in Drains : dpc'[q] \in {"sending", "recording", "confirm"} =>
             /\ dpc[q] \in {"sending", "recording", "confirm"} /\ (dpc[q] = "sending" <=> dpc'[q] = "sending")
             /\ todo'[q] = todo[q]
    BY <1>15 DEF GiveUp, NextOne, TypeInv, TypeOK
  <2> QED BY <1>15, <2>1, <1>stays, <1>at, <1>ids DEF GiveUp, NextOne, Honest
<1>16. ASSUME NEW p \in Drains, EndDrain(p)
      PROVE  Honest'
  <2>1. \A q \in Drains : dpc'[q] \in {"sending", "recording", "confirm"} =>
          /\ dpc[q] \in {"sending", "recording", "confirm"} /\ (dpc[q] = "sending" <=> dpc'[q] = "sending")
          /\ chal'[q] = chal[q]
    BY <1>16 DEF EndDrain, TypeInv, TypeOK
  <2> QED BY <1>16, <2>1, <1>stays, <1>at, <1>ids DEF EndDrain, Honest, TypeInv, TypeOK
<1>17. CASE AppKilled
  BY <1>17, <1>stays DEF AppKilled, Honest
<1>18. CASE PcArm
  BY <1>18, <1>stays, <1>at, <1>ids DEF PcArm, PhoneSame, Honest
<1>19. CASE PcFetch
  BY <1>19, <1>stays, <1>at, <1>ids DEF PcFetch, PhoneSame, Honest
<1>20. CASE PcRefuse
  BY <1>20, <1>stays, <1>at, <1>ids DEF PcRefuse, PhoneSame, Honest
<1>21. CASE PcCredit
  BY <1>21, <1>stays, <1>at, <1>ids DEF PcCredit, PhoneSame, Honest
<1>22. CASE PcClose
  BY <1>22, <1>stays, <1>at, <1>ids DEF PcClose, PhoneSame, Honest
<1>23. CASE PcStops
  BY <1>23, <1>stays, <1>at, <1>ids DEF PcStops, PhoneSame, Honest
<1>24. CASE Midnight
  BY <1>24, <1>stays, <1>at, <1>ids DEF Midnight, PhoneSame, Honest
<1>25. CASE UNCHANGED vars
  BY <1>25, <1>stays, <1>at DEF Honest
<1> QED BY <1>1, <1>2, <1>3, <1>4, <1>5, <1>6, <1>7, <1>8, <1>9, <1>10, <1>11, <1>12, <1>13,
           <1>14, <1>15, <1>16, <1>17, <1>18, <1>19, <1>20, <1>21, <1>22, <1>23, <1>24, <1>25, <1>26
           DEF Next, User, Pc, DrainStep

(* The order of the looks at the clock is kept.                            *)
LEMMA DatedNext ==
  ASSUME TypeInv, Dated, [Next]_vars
  PROVE  Dated'
<1> USE DEF diskVars, homeVars, drainVars, queueVars, nodeVars, pcVars, vars
<1>1. ASSUME NEW w \in Clients, PutLoad(w)
      PROVE  Dated'
  BY <1>1 DEF PutLoad, Dated
<1>2. ASSUME NEW w \in Clients, PutSave(w)
      PROVE  Dated'
  BY <1>2 DEF PutSave, AfterPut, NextOne, SaveOf, Dated, TypeInv, TypeOK
<1>3. ASSUME NEW c \in Cleans, TakePhoto(c)
      PROVE  Dated'
  BY <1>3 DEF TakePhoto, NewClean, StartPut, Draft, Dated
<1>4. CASE Finish
  BY <1>4 DEF Finish, StartPut, Finished, Dated
<1>5. ASSUME NEW p \in Drains, FinishDrain(p)
      PROVE  Dated'
  BY <1>5 DEF FinishDrain, BeginDrain, Queued, Dated, TypeInv, TypeOK
<1>6. ASSUME NEW p \in Drains, Refresh(p)
      PROVE  Dated'
  BY <1>6 DEF Refresh, BeginDrain, Queued, Dated, TypeInv, TypeOK
<1>7. ASSUME NEW p \in Drains, Fetch(p)
      PROVE  Dated'
  BY <1>7 DEF Fetch, Dated, TypeInv, TypeOK
<1>8. ASSUME NEW p \in Drains, ReadToday(p)
      PROVE  Dated'
  <2>1. day =< day
    BY DEF TypeInv, TypeOK, Days
  <2> QED BY <1>8, <2>1 DEF ReadToday, Dated, TypeInv, TypeOK
<1>9. ASSUME NEW p \in Drains, Settle(p)
      PROVE  Dated'
  BY <1>9 DEF Settle, PutAt, StartPut, IsNext, WasTaken, Dated, TypeInv, TypeOK
<1>10. ASSUME NEW p \in Drains, KeepAsRecord(p)
      PROVE  Dated'
  BY <1>10 DEF KeepAsRecord, PutAt, StartPut, IsNext, IsPast, Dated, TypeInv, TypeOK
<1>11. ASSUME NEW p \in Drains, LeaveWaiting(p)
      PROVE  Dated'
  BY <1>11 DEF LeaveWaiting, NextOne, IsNext, Dated, TypeInv, TypeOK
<1>26. ASSUME NEW p \in Drains, StartSend(p)
      PROVE  Dated'
  BY <1>26 DEF StartSend, Dated, TypeInv, TypeOK
<1>12. ASSUME NEW p \in Drains, Send(p)
      PROVE  Dated'
  BY <1>12 DEF Send, PutAt, StartPut, Dated, TypeInv, TypeOK
<1>13. ASSUME NEW p \in Drains, SendFails(p)
      PROVE  Dated'
  BY <1>13 DEF SendFails, NextOne, Dated, TypeInv, TypeOK
<1>14. ASSUME NEW p \in Drains, Confirm(p)
      PROVE  Dated'
  BY <1>14 DEF Confirm, PutAt, StartPut, Dated, TypeInv, TypeOK
<1>15. ASSUME NEW p \in Drains, GiveUp(p)
      PROVE  Dated'
  BY <1>15 DEF GiveUp, NextOne, Dated, TypeInv, TypeOK
<1>16. ASSUME NEW p \in Drains, EndDrain(p)
      PROVE  Dated'
  BY <1>16 DEF EndDrain, Dated, TypeInv, TypeOK
<1>17. CASE AppKilled
  BY <1>17 DEF AppKilled, Dated
<1>18. CASE PcArm
  <2>1. day =< day
    BY DEF TypeInv, TypeOK, Days
  <2> QED BY <1>18, <2>1 DEF PcArm, PhoneSame, Dated, TypeInv, TypeOK
<1>19. CASE PcFetch
  BY <1>19 DEF PcFetch, PhoneSame, Dated
<1>20. CASE PcRefuse
  BY <1>20 DEF PcRefuse, PhoneSame, Dated
<1>21. CASE PcCredit
  BY <1>21 DEF PcCredit, PhoneSame, Dated
<1>22. CASE PcClose
  <2>1. pheld.token \in minted
    BY <1>22 DEF PcClose, TypeInv, Shape
  <2> QED BY <1>22, <2>1 DEF PcClose, PhoneSame, Dated
<1>23. CASE PcStops
  BY <1>23 DEF PcStops, PhoneSame, Dated
<1>24. CASE Midnight
  <2>1. /\ \A x \in Days : x =< day => x =< day'
    BY <1>24 DEF Midnight, TypeInv, TypeOK, Days
  <2>2. /\ chalNode # Nothing => chalNode.token \in Days
        /\ minted \subseteq Days
        /\ \A p \in Drains : chal[p] # Nothing => chal[p].token \in Days
        /\ \A p \in Drains : today[p] # Nothing => today[p] \in Days
    BY DEF TypeInv, TypeOK, Challenge
  <2> QED BY <1>24, <2>1, <2>2 DEF Midnight, PhoneSame, Dated
<1>25. CASE UNCHANGED vars
  BY <1>25 DEF Dated
<1> QED BY <1>1, <1>2, <1>3, <1>4, <1>5, <1>6, <1>7, <1>8, <1>9, <1>10, <1>11, <1>12, <1>13,
           <1>14, <1>15, <1>16, <1>17, <1>18, <1>19, <1>20, <1>21, <1>22, <1>23, <1>24, <1>25, <1>26
           DEF Next, User, Pc, DrainStep

(* Nothing but a payload for its own day travels or is credited.           *)
LEMMA OwnDayNext ==
  ASSUME TypeInv, Honest, Dated, OwnDay, [Next]_vars
  PROVE  OwnDay'
<1> USE DEF diskVars, homeVars, drainVars, queueVars, nodeVars, pcVars, vars
<1>1. ASSUME NEW w \in Clients, PutLoad(w)
      PROVE  OwnDay'
  BY <1>1 DEF PutLoad, OwnDay, SpendsOwnDay
<1>2. ASSUME NEW w \in Clients, PutSave(w)
      PROVE  OwnDay'
  BY <1>2 DEF PutSave, AfterPut, NextOne, SaveOf, OwnDay, SpendsOwnDay
<1>3. ASSUME NEW c \in Cleans, TakePhoto(c)
      PROVE  OwnDay'
  BY <1>3 DEF TakePhoto, NewClean, StartPut, Draft, OwnDay, SpendsOwnDay
<1>4. CASE Finish
  BY <1>4 DEF Finish, StartPut, Finished, OwnDay, SpendsOwnDay
<1>5. ASSUME NEW p \in Drains, FinishDrain(p)
      PROVE  OwnDay'
  BY <1>5 DEF FinishDrain, BeginDrain, Queued, OwnDay, SpendsOwnDay
<1>6. ASSUME NEW p \in Drains, Refresh(p)
      PROVE  OwnDay'
  BY <1>6 DEF Refresh, BeginDrain, Queued, OwnDay, SpendsOwnDay
<1>7. ASSUME NEW p \in Drains, Fetch(p)
      PROVE  OwnDay'
  BY <1>7 DEF Fetch, OwnDay, SpendsOwnDay
<1>8. ASSUME NEW p \in Drains, ReadToday(p)
      PROVE  OwnDay'
  BY <1>8 DEF ReadToday, OwnDay, SpendsOwnDay
<1>9. ASSUME NEW p \in Drains, Settle(p)
      PROVE  OwnDay'
  BY <1>9 DEF Settle, PutAt, StartPut, IsNext, WasTaken, OwnDay, SpendsOwnDay
<1>10. ASSUME NEW p \in Drains, KeepAsRecord(p)
      PROVE  OwnDay'
  BY <1>10 DEF KeepAsRecord, PutAt, StartPut, IsNext, IsPast, OwnDay, SpendsOwnDay
<1>11. ASSUME NEW p \in Drains, LeaveWaiting(p)
      PROVE  OwnDay'
  BY <1>11 DEF LeaveWaiting, NextOne, IsNext, OwnDay, SpendsOwnDay
<1>26. ASSUME NEW p \in Drains, StartSend(p)
      PROVE  OwnDay'
  BY <1>26 DEF StartSend, OwnDay, SpendsOwnDay
<1>12. ASSUME NEW p \in Drains, Send(p)
      PROVE  OwnDay'
  <2>1. PayloadAt(p).captured = PayloadAt(p).token
    BY <1>12, PayloadOfOwnDay DEF Send
  <2> QED BY <1>12, <2>1 DEF Send, OwnDay, SpendsOwnDay
<1>13. ASSUME NEW p \in Drains, SendFails(p)
      PROVE  OwnDay'
  <2>1. PayloadAt(p).captured = PayloadAt(p).token
    BY <1>13, PayloadOfOwnDay DEF SendFails
  <2> QED BY <1>13, <2>1 DEF SendFails, OwnDay, SpendsOwnDay
<1>14. ASSUME NEW p \in Drains, Confirm(p)
      PROVE  OwnDay'
  BY <1>14 DEF Confirm, PutAt, StartPut, OwnDay, SpendsOwnDay
<1>15. ASSUME NEW p \in Drains, GiveUp(p)
      PROVE  OwnDay'
  BY <1>15 DEF GiveUp, NextOne, OwnDay, SpendsOwnDay
<1>16. ASSUME NEW p \in Drains, EndDrain(p)
      PROVE  OwnDay'
  BY <1>16 DEF EndDrain, OwnDay, SpendsOwnDay
<1>17. CASE AppKilled
  BY <1>17 DEF AppKilled, OwnDay, SpendsOwnDay
<1>18. CASE PcArm
  BY <1>18 DEF PcArm, PhoneSame, OwnDay, SpendsOwnDay
<1>19. CASE PcFetch
  BY <1>19 DEF PcFetch, PhoneSame, OwnDay, SpendsOwnDay
<1>20. CASE PcRefuse
  BY <1>20 DEF PcRefuse, PhoneSame, OwnDay, SpendsOwnDay
<1>21. CASE PcCredit
  <2>1. pheld # Nothing
    BY <1>21 DEF PcCredit, TypeInv, Shape
  <2> QED BY <1>21, <2>1 DEF PcCredit, PhoneSame, OwnDay, SpendsOwnDay
<1>22. CASE PcClose
  BY <1>22 DEF PcClose, PhoneSame, OwnDay, SpendsOwnDay
<1>23. CASE PcStops
  BY <1>23 DEF PcStops, PhoneSame, OwnDay, SpendsOwnDay
<1>24. CASE Midnight
  BY <1>24 DEF Midnight, PhoneSame, OwnDay, SpendsOwnDay
<1>25. CASE UNCHANGED vars
  BY <1>25 DEF OwnDay, SpendsOwnDay
<1> QED BY <1>1, <1>2, <1>3, <1>4, <1>5, <1>6, <1>7, <1>8, <1>9, <1>10, <1>11, <1>12, <1>13,
           <1>14, <1>15, <1>16, <1>17, <1>18, <1>19, <1>20, <1>21, <1>22, <1>23, <1>24, <1>25, <1>26
           DEF Next, User, Pc, DrainStep

(* The inductive invariant.                                                *)
IInv == TypeInv /\ Honest /\ Dated /\ OwnDay

LEMMA IInvInit == Init => IInv
<1> SUFFICES ASSUME Init PROVE IInv
  OBVIOUS
<1>1. Honest
  BY DEF Init, Honest, IndexTellsTruth
<1>2. Dated /\ OwnDay
  BY DEF Init, Dated, OwnDay, SpendsOwnDay
<1> QED BY <1>1, <1>2, TypeInvInit DEF IInv

LEMMA IInvNext == IInv /\ [Next]_vars => IInv'
<1> SUFFICES ASSUME IInv, [Next]_vars PROVE IInv'
  OBVIOUS
<1>1. TypeInv'
  BY TypeInvNext DEF IInv
<1>2. Honest'
  BY <1>1, HonestNext DEF IInv
<1> QED BY <1>1, <1>2, DatedNext, OwnDayNext DEF IInv

THEOREM Invariance == Spec => []IInv
BY IInvInit, IInvNext, PTL DEF Spec

(* The phone and its nodes stay typed.                                     *)
THEOREM TypeCorrect == Spec => []TypeOK
<1>1. IInv => TypeOK
  BY DEF IInv, TypeInv
<1> QED BY <1>1, Invariance, PTL

(* No cleaning ever spends the token of another day (upload_queue.dart).   *)
THEOREM CreditsSpendTheirOwnDay == Spec => []SpendsOwnDay
<1>1. IInv => SpendsOwnDay
  BY DEF IInv, OwnDay
<1> QED BY <1>1, Invariance, PTL

(* No stale copy written back shows a clean as accepted that was not sent. *)
THEOREM AcceptedCleansWereSent == Spec => []AcceptedWasSent
<1>1. IInv => AcceptedWasSent
  BY DEF IInv, Honest, IndexTellsTruth, TellsTruth, AcceptedWasSent
<1> QED BY <1>1, Invariance, PTL

=============================================================================
