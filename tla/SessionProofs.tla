--------------------------- MODULE SessionProofs ----------------------------
(***************************************************************************)
(* Proofs about the session's table and its database, for every set of     *)
(* users and of torrents.  The invariant has four parts: the types, the    *)
(* order of the two transactions of an addition, what holds while          *)
(* additions do not overlap, and what holds if, besides, nothing failed.   *)
(***************************************************************************)
EXTENDS Session, TLAPS

(* A call that is under way is about an id, and holds a torrent of that id *)
(* once it has made one.                                                   *)
CallOK(c) ==
  /\ c.pc = "idle" => c = Idle
  /\ c.pc # "idle" => c.id \in TorrentId
  /\ c.pc \in {"created", "recorded", "inserted", "saved"} => 1 <= c.nr /\ c.nr <= made[c.id]

Type ==
  /\ TypeOK
  /\ CallOK(loader) /\ \A u \in User : CallOK(user[u])
  /\ loader.pc \in {"idle", "recorded", "inserted"}
  /\ phase # "loading" => loader = Idle /\ toLoad = {}
  /\ phase \in {"down", "loading"} =>
       Busy = {} /\ commanded = {} /\ running = {} /\ \A i \in toLoad : made[i] = 0
  /\ phase = "down" => \A i \in TorrentId : torrents[i] = 0 /\ made[i] = 0

(* The ids that a call is about to put into the list.                      *)
Written(c) ==
  /\ c.pc \in {"recorded", "inserted", "saved"} => c.id \in records
  /\ c.pc = "inserted" => c.keys \subseteq records

(* Until the records are deleted, whatever a list of ids can be made of    *)
(* has a record; from then on, there is no list and none is written.       *)
Recorded ==
  IF phase \in {"unlisted", "removed"}
  THEN savedIds = {}
  ELSE /\ savedIds \cup toLoad \cup Ids \subseteq records
       /\ Written(loader) /\ \A u \in User : Written(user[u])

(* What a call knows of the table while no other one runs.                 *)
Knows(c) ==
  /\ c.pc \in {"checked", "created", "recorded"} => c.id \notin Ids
  /\ c.pc = "found" => c.id \in Ids
  /\ c.pc \in {"inserted", "saved"} => torrents[c.id] = c.nr
  /\ c.pc = "inserted" => c.keys = Ids

(* Without overlaps one call runs at a time, in an open session, what it   *)
(* found out about the table stays true, and only torrents of the table    *)
(* are started.                                                            *)
Alone ==
  /\ \A u, v \in Busy : u = v
  /\ Busy # {} => phase = "open"
  /\ phase \notin {"loading", "open"} => Ids = {}
  /\ phase # "open" => commanded = {} /\ running = {}
  /\ commanded \cup running \subseteq Table
  /\ \A u \in User : Knows(user[u])
  /\ loader.pc = "inserted" => loader.keys = Ids /\ loader.id \in Ids

Inserting == {user[u].id : u \in {v \in User : user[v].pc = "inserted"}}

(* If, besides, nothing failed: what was added is in the list or will be   *)
(* loaded, and in the table as well while there is one; the table is in    *)
(* the list but for the torrent that is being inserted.                    *)
Kept ==
  /\ added \subseteq savedIds \cup toLoad \cup {loader.id}
  /\ phase \in {"loading", "open"} => added \subseteq Ids \cup toLoad \cup {loader.id}
  /\ Ids \subseteq savedIds \cup {loader.id} \cup Inserting
  /\ \A t \in commanded : t[1] \in savedIds
  /\ \A t \in running : t[1] \in savedIds /\ t[1] \in started

(* The inductive invariant.                                                *)
IInv ==
  /\ Type
  /\ Recorded
  /\ ~overlapped => Alone
  /\ ~overlapped /\ ~lost => Kept
-----------------------------------------------------------------------------
(* Types.                                                                  *)

(* The conjuncts of Type but for the two flags.                            *)
Shape ==
  /\ phase \in Phase
  /\ made \in [TorrentId -> 0 .. MaxMade]
  /\ torrents \in [TorrentId -> 0 .. MaxMade] /\ \A i \in TorrentId : torrents[i] <= made[i]
  /\ commanded \subseteq Torrent /\ running \subseteq Torrent /\ user \in [User -> Call]
  /\ toLoad \subseteq TorrentId /\ loader \in Call
  /\ savedIds \subseteq TorrentId /\ records \subseteq TorrentId /\ started \subseteq records
  /\ added \subseteq TorrentId
  /\ CallOK(loader) /\ \A u \in User : CallOK(user[u])
  /\ loader.pc \in {"idle", "recorded", "inserted"}
  /\ phase # "loading" => loader = Idle /\ toLoad = {}
  /\ phase \in {"down", "loading"} =>
       Busy = {} /\ commanded = {} /\ running = {} /\ \A i \in toLoad : made[i] = 0
  /\ phase = "down" => \A i \in TorrentId : torrents[i] = 0 /\ made[i] = 0

(* Type is Shape and the types of the two history flags.                   *)
LEMMA TypeIsShape == Type <=> Shape /\ overlapped \in BOOLEAN /\ lost \in BOOLEAN
PROOF
  BY DEF Type, TypeOK, Shape

(* A user without a call has no id, no torrent and no list of keys.        *)
LEMMA IdleIsCall ==
  /\ Idle \in Call /\ Idle.pc = "idle" /\ Idle.id = None /\ Idle.nr = 0 /\ Idle.keys = {}
PROOF
  BY SessionAssumption DEF Idle, Call

(* Before the first session everything is empty.                           *)
LEMMA InitShape == Init => Shape
PROOF
  BY SessionAssumption, IdleIsCall DEF Init, Shape, Phase, CallOK, Busy

(* The flags stay flags, and stay up.                                      *)
FlagsUp ==
  /\ overlapped' \in BOOLEAN /\ lost' \in BOOLEAN
  /\ overlapped => overlapped'
  /\ lost => lost'

(* Overlaps and failures are remembered: the history flags are never       *)
(* reset.                                                                  *)
LEMMA FlagsStep ==
  ASSUME overlapped \in BOOLEAN, lost \in BOOLEAN, [Next]_vars
  PROVE  FlagsUp
PROOF
  <1> USE DEF vars, memory, database, history, FlagsUp
  <1>1. CASE UNCHANGED vars
    BY <1>1
  <1>2. CASE Open \/ Load
    BY <1>2 DEF Open, Load, LoadTorrent, LoadFails, LoadInsert, LoadSave, LoadDone
  <1>3. ASSUME NEW u \in User, Add(u)  PROVE FlagsUp
    BY <1>3 DEF Add, Check, ReturnFound, Create, WriteRecord, AddFails, Insert, SaveIds, ReturnAdded
  <1>4. ASSUME NEW t \in Torrent, Start(t) \/ Stop(t) \/ StartAgain(t)  PROVE FlagsUp
    BY <1>4 DEF Start, Stop, StartAgain
  <1>5. CASE Close \/ NewTable \/ RemoveIds \/ RemoveRecords \/ Crash
    BY <1>5 DEF Close, NewTable, RemoveIds, RemoveRecords, Crash
  <1> HIDE DEF vars, FlagsUp
  <1>6. QED
    BY <1>1, <1>2, <1>3, <1>4, <1>5, Zenon DEF Next

(* The steps of NewSession and loadExistingTorrents keep the types.        *)
LEMMA LoadShape ==
  ASSUME Shape, Open \/ Load
  PROVE  Shape'
PROOF
  <1> USE SessionAssumption, IdleIsCall DEF Shape, Phase, CallOK, Busy, database, history
  <1>1. CASE Open
    BY <1>1 DEF Open
  <1>2. ASSUME NEW i \in TorrentId, LoadTorrent(i)  PROVE Shape'
    <2>1. made[i] = 0 /\ 1 \in 0 .. MaxMade
      BY <1>2 DEF LoadTorrent
    <2>2. made' = [made EXCEPT ![i] = 1]
      BY <1>2, <2>1 DEF LoadTorrent
    <2>3. /\ made' \in [TorrentId -> 0 .. MaxMade] /\ made'[i] = 1
          /\ \A j \in TorrentId : j # i => made'[j] = made[j]
      BY <2>1, <2>2
    <2>4. loader' = [pc |-> "recorded", id |-> i, nr |-> 1, keys |-> {}]
      BY <1>2, <2>3 DEF LoadTorrent, Idle
    <2>5. loader' \in Call
      BY <2>1, <2>4 DEF Call
    <2>6. QED
      BY <1>2, <2>1, <2>3, <2>4, <2>5 DEF LoadTorrent
  <1>3. ASSUME NEW i \in TorrentId, LoadFails(i)  PROVE Shape'
    BY <1>3 DEF LoadFails
  <1>4. CASE LoadInsert
    <2>1. loader.id \in TorrentId /\ loader.nr \in 0 .. MaxMade /\ loader.nr <= made[loader.id]
      BY <1>4 DEF LoadInsert, Call
    <2>2. /\ torrents' \in [TorrentId -> 0 .. MaxMade] /\ torrents'[loader.id] = loader.nr
          /\ \A j \in TorrentId : j # loader.id => torrents'[j] = torrents[j]
      BY <1>4, <2>1 DEF LoadInsert
    <2>3. /\ loader'.pc = "inserted" /\ loader'.id = loader.id /\ loader'.nr = loader.nr
          /\ loader' \in Call
      BY <1>4, <2>1 DEF LoadInsert, Call, Ids
    <2>4. QED
      BY <1>4, <2>1, <2>2, <2>3 DEF LoadInsert
  <1>5. CASE LoadSave
    BY <1>5 DEF LoadSave, Call
  <1>6. CASE LoadDone
    BY <1>6 DEF LoadDone, Table
  <1>7. QED
    BY <1>1, <1>2, <1>3, <1>4, <1>5, <1>6 DEF Load

(* newTorrent2 gives the call a torrent that no other call has.            *)
LEMMA CreateChanges ==
  ASSUME Shape, NEW u \in User, Create(u)
  PROVE  user' = [user EXCEPT ![u] = [@ EXCEPT !.pc = "created", !.nr = made'[user[u].id]]]
PROOF
  BY DEF Shape, CallOK, Create

(* The steps of AddFileId and CreateFile keep the types.                   *)
LEMMA AddShape ==
  ASSUME Shape, NEW u \in User, Add(u)
  PROVE  Shape'
PROOF
  <1> USE SessionAssumption, IdleIsCall DEF Shape, Phase, CallOK, Busy, database, history
  <1>1. ASSUME NEW i \in TorrentId, Check(u, i)  PROVE Shape'
    <2> DEFINE c == [Idle EXCEPT !.pc = IF torrents[i] # 0 THEN "found" ELSE "checked", !.id = i]
    <2>1. c \in Call /\ c.pc \in {"found", "checked"} /\ c.id = i
      BY <1>1 DEF Call, Idle
    <2>2. /\ phase \notin {"down", "loading"} /\ user' = [user EXCEPT ![u] = c]
          /\ UNCHANGED <<phase, torrents, made, commanded, running, toLoad, loader, database, added, lost>>
      BY <1>1 DEF Check, Returned
    <2> HIDE DEF c
    <2>3. user' \in [User -> Call] /\ user'[u] = c /\ \A v \in User : v # u => user'[v] = user[v]
      BY <2>1, <2>2
    <2>4. QED
      BY <1>1, <2>1, <2>2, <2>3
  <1>2. CASE ReturnFound(u)
    BY <1>2 DEF ReturnFound
  <1>3. CASE Create(u)
    <2>1. user[u].id \in TorrentId /\ made[user[u].id] + 1 \in 0 .. MaxMade
      BY <1>3 DEF Create, Call
    <2>2. /\ made' \in [TorrentId -> 0 .. MaxMade]
          /\ made'[user[u].id] = made[user[u].id] + 1
          /\ \A j \in TorrentId : made[j] <= made'[j]
      BY <1>3, <2>1 DEF Create
    <2>3. user' = [user EXCEPT ![u] = [@ EXCEPT !.pc = "created", !.nr = made'[user[u].id]]]
      BY <1>3, CreateChanges
    <2>4. /\ user' \in [User -> Call]
          /\ user'[u].pc = "created" /\ user'[u].id = user[u].id
          /\ user'[u].nr = made[user[u].id] + 1
          /\ \A v \in User : v # u => user'[v] = user[v]
      <3>1. user[u] \in Call /\ made[user[u].id] + 1 \in 0 .. MaxMade
        BY <2>1
      <3> DEFINE c == [user[u] EXCEPT !.pc = "created", !.nr = made[user[u].id] + 1]
      <3>2. c \in Call /\ c.pc = "created" /\ c.id = user[u].id /\ c.nr = made[user[u].id] + 1
        BY <3>1 DEF Call
      <3>3. user' = [user EXCEPT ![u] = c]
        BY <2>2, <2>3
      <3> HIDE DEF c
      <3>4. QED
        BY <3>2, <3>3
    <2>5. ASSUME NEW v \in User  PROVE CallOK(user[v])'
      <3>1. CASE v = u
        BY <2>1, <2>2, <2>4, <3>1
      <3>2. CASE v # u
        <4>1. user'[v] = user[v] /\ user[v] \in Call /\ CallOK(user[v])
          BY <2>4, <3>2
        <4>2. user[v].pc # "idle" => user[v].id \in TorrentId
          BY <4>1
        <4>3. user[v].pc # "idle" =>
                 /\ made[user[v].id] <= made'[user[v].id]
                 /\ made[user[v].id] \in Int /\ made'[user[v].id] \in Int
          BY <2>2, <4>2
        <4>4. user[v].nr \in Int
          BY <4>1 DEF Call
        <4>5. QED
          BY <4>1, <4>2, <4>3, <4>4
      <3>3. QED
        BY <3>1, <3>2
    <2>6. phase \notin {"down", "loading"} /\ loader = Idle
      BY <1>3 DEF Create
    <2>7. /\ UNCHANGED <<phase, torrents, commanded, running, toLoad, loader, database, added>>
          /\ Busy' = Busy
      BY <1>3, <2>4 DEF Create
    <2>8. torrents' \in [TorrentId -> 0 .. MaxMade] /\ \A j \in TorrentId : torrents'[j] <= made'[j]
      BY <2>2, <2>7
    <2>9. QED
      BY <2>2, <2>4, <2>5, <2>6, <2>7, <2>8
  <1>4. CASE WriteRecord(u)
    BY <1>4 DEF WriteRecord, Call
  <1>5. CASE AddFails(u)
    BY <1>5 DEF AddFails
  <1>6. CASE Insert(u)
    <2> DEFINE i == user[u].id
    <2>1. i \in TorrentId /\ user[u].nr \in 0 .. MaxMade /\ user[u].nr <= made[i]
      BY <1>6 DEF Insert, Call
    <2>2. /\ torrents' \in [TorrentId -> 0 .. MaxMade] /\ torrents'[i] = user[u].nr
          /\ \A j \in TorrentId : j # i => torrents'[j] = torrents[j]
      BY <1>6, <2>1 DEF Insert
    <2>3. user' = [user EXCEPT ![u] = [@ EXCEPT !.pc = "inserted", !.keys = Ids \cup {i}]]
      BY <1>6 DEF Insert
    <2>4. /\ user' \in [User -> Call]
          /\ user'[u].pc = "inserted" /\ user'[u].id = i /\ user'[u].nr = user[u].nr
          /\ \A v \in User : v # u => user'[v] = user[v]
      <3> DEFINE c == [user[u] EXCEPT !.pc = "inserted", !.keys = Ids \cup {i}]
      <3>1. Ids \cup {i} \in SUBSET TorrentId
        BY <2>1 DEF Ids
      <3>2. user[u] \in Call
        OBVIOUS
      <3>3. c \in Call /\ c.pc = "inserted" /\ c.id = i /\ c.nr = user[u].nr
        BY <3>1, <3>2 DEF Call
      <3>4. user' = [user EXCEPT ![u] = c]
        BY <2>3
      <3> HIDE DEF c
      <3>5. QED
        BY <3>3, <3>4
    <2>5. ASSUME NEW v \in User  PROVE CallOK(user[v])'
      <3>1. CASE v = u
        BY <1>6, <2>1, <2>4, <3>1 DEF Insert
      <3>2. CASE v # u
        BY <1>6, <2>4, <3>2 DEF Insert
      <3>3. QED
        BY <3>1, <3>2
    <2>6. phase \notin {"down", "loading"} /\ loader = Idle
      BY <1>6 DEF Insert
    <2>7. QED
      BY <1>6, <2>1, <2>2, <2>4, <2>5, <2>6 DEF Insert
  <1>7. CASE SaveIds(u)
    BY <1>7 DEF SaveIds, Call
  <1>8. CASE ReturnAdded(u)
    BY <1>8 DEF ReturnAdded, Call, Torrent
  <1>9. QED
    BY <1>1, <1>2, <1>3, <1>4, <1>5, <1>6, <1>7, <1>8 DEF Add

(* Commands, Close, RemoveData and a crash keep the types.                 *)
LEMMA RestShape ==
  ASSUME Shape,
         \/ \E t \in Torrent : Start(t) \/ Stop(t) \/ StartAgain(t)
         \/ Close \/ NewTable \/ RemoveIds \/ RemoveRecords \/ Crash
  PROVE  Shape'
PROOF
  <1> USE SessionAssumption, IdleIsCall DEF Shape, Phase, CallOK, Busy, memory, database, history
  <1>1. ASSUME NEW t \in Torrent, Start(t)  PROVE Shape'
    BY <1>1 DEF Start
  <1>2. ASSUME NEW t \in Torrent, Stop(t) \/ StartAgain(t)  PROVE Shape'
    BY <1>2 DEF Stop, StartAgain
  <1>3. CASE Close
    BY <1>3 DEF Close
  <1>4. CASE NewTable \/ RemoveIds \/ RemoveRecords
    BY <1>4 DEF NewTable, RemoveIds, RemoveRecords
  <1>5. CASE Crash
    BY <1>5 DEF Crash, Forgotten
  <1>6. QED
    BY <1>1, <1>2, <1>3, <1>4, <1>5

(* Every step keeps the types.                                             *)
LEMMA ShapeStep == Shape /\ [Next]_vars => Shape'
PROOF
  <1>1. ASSUME Shape, UNCHANGED vars  PROVE Shape'
    BY <1>1 DEF Shape, CallOK, Busy, vars, memory, database, history
  <1>2. QED
    BY <1>1, LoadShape, AddShape, RestShape DEF Next

-----------------------------------------------------------------------------
(* The record of a torrent is written before its id is listed, and the     *)
(* list is deleted before the records.                                     *)

(* Every step keeps records ahead of the list: an addition writes its      *)
(* record in the transaction before the one that lists it.                 *)
LEMMA RecordedStep ==
  ASSUME Shape, Recorded, [Next]_vars
  PROVE  Recorded'
PROOF
  <1> USE SessionAssumption, IdleIsCall DEF Shape, Recorded, Written, Ids, database, history
  <1>1. CASE UNCHANGED vars
    BY <1>1 DEF vars, memory
  <1>2. CASE Open
    BY <1>2 DEF Open
  <1>3. ASSUME NEW i \in TorrentId, LoadTorrent(i) \/ LoadFails(i)  PROVE Recorded'
    <2>1. CASE LoadTorrent(i)
      <3>1. loader'.pc = "recorded" /\ loader'.id = i /\ i \in records
        BY <2>1 DEF LoadTorrent, Idle
      <3>2. QED
        BY <2>1, <3>1 DEF LoadTorrent
    <2>2. CASE LoadFails(i)
      BY <2>2 DEF LoadFails
    <2>3. QED
      BY <1>3, <2>1, <2>2
  <1>4. CASE LoadInsert
    BY <1>4 DEF LoadInsert, CallOK, Call
  <1>5. CASE LoadSave \/ LoadDone
    BY <1>5 DEF LoadSave, LoadDone
  <1>6. ASSUME NEW u \in User, NEW i \in TorrentId, Check(u, i)  PROVE Recorded'
    BY <1>6 DEF Check, Idle
  <1>7. ASSUME NEW u \in User, ReturnFound(u) \/ AddFails(u) \/ ReturnAdded(u)  PROVE Recorded'
    BY <1>7 DEF ReturnFound, AddFails, ReturnAdded
  <1>8. ASSUME NEW u \in User, Create(u)  PROVE Recorded'
    BY <1>8 DEF Create, Call
  <1>9. ASSUME NEW u \in User, WriteRecord(u)  PROVE Recorded'
    BY <1>9 DEF WriteRecord, Call
  <1>10. ASSUME NEW u \in User, Insert(u)  PROVE Recorded'
    BY <1>10 DEF Insert, Call, CallOK
  <1>11. ASSUME NEW u \in User, SaveIds(u)  PROVE Recorded'
    BY <1>11 DEF SaveIds, Call
  <1>12. ASSUME NEW t \in Torrent, Start(t) \/ Stop(t) \/ StartAgain(t)  PROVE Recorded'
    BY <1>12 DEF Start, Stop, StartAgain
  <1>13. CASE Close \/ NewTable
    BY <1>13 DEF Close, NewTable, memory
  <1>14. CASE RemoveIds \/ RemoveRecords
    BY <1>14 DEF RemoveIds, RemoveRecords, memory
  <1>15. CASE Crash
    BY <1>15 DEF Crash, Forgotten
  <1> HIDE SessionAssumption, IdleIsCall
           DEF Shape, Recorded, Written, Ids, database, history
  <1>16. CASE Load
    BY <1>3, <1>4, <1>5, <1>16 DEF Load
  <1>17. ASSUME NEW u \in User, Add(u)  PROVE Recorded'
    BY <1>6, <1>7, <1>8, <1>9, <1>10, <1>11, <1>17 DEF Add
  <1>18. QED
    BY <1>1, <1>2, <1>12, <1>13, <1>14, <1>15, <1>16, <1>17 DEF Next

(* An empty database lists nothing.                                        *)
LEMMA InitRecorded == Init => Recorded
PROOF
  BY IdleIsCall DEF Init, Recorded, Written, Ids

(* Types and records hold of every behaviour, whatever overlaps or fails.  *)
LEMMA RecordedInvariant == Spec => [](Shape /\ overlapped \in BOOLEAN /\ lost \in BOOLEAN /\ Recorded)
PROOF
  <1>1. Init => overlapped \in BOOLEAN /\ lost \in BOOLEAN
    BY DEF Init
  <1>2. overlapped \in BOOLEAN /\ lost \in BOOLEAN /\ [Next]_vars
          => (overlapped \in BOOLEAN /\ lost \in BOOLEAN)'
    BY FlagsStep DEF FlagsUp
  <1>3. QED
    BY <1>1, <1>2, InitShape, ShapeStep, InitRecorded, RecordedStep, PTL DEF Spec

(* Every id that the database lists has a record, so that the next session *)
(* can load it, whatever overlaps, fails or crashes.                       *)
THEOREM ListsOnlyRecorded == Spec => []ListedIsRecorded
PROOF
  <1>1. Shape /\ overlapped \in BOOLEAN /\ lost \in BOOLEAN /\ Recorded => ListedIsRecorded
    <2> SUFFICES ASSUME Shape, overlapped \in BOOLEAN, lost \in BOOLEAN, Recorded
                 PROVE  ListedIsRecorded
      OBVIOUS
    <2>1. TypeOK
      BY TypeIsShape DEF Type
    <2>2. savedIds \cup toLoad \subseteq records
      BY DEF Shape, Recorded
    <2>3. QED
      BY <2>1, <2>2 DEF ListedIsRecorded
  <1>2. QED
    BY <1>1, RecordedInvariant, PTL

-----------------------------------------------------------------------------
(* While additions do not overlap.                                         *)

(* At first no call runs.                                                  *)
LEMMA InitAlone == Init => Alone
PROOF
  BY IdleIsCall DEF Init, Alone, Busy, Ids, Knows

(* A call that is under way is the only one.                               *)
LEMMA OnlyCall ==
  ASSUME Shape, Alone, NEW u \in User, user[u].pc # "idle"
  PROVE  /\ phase = "open" /\ loader = Idle /\ toLoad = {}
         /\ \A v \in User : v # u => user[v] = Idle
PROOF
  BY DEF Shape, Alone, Busy, CallOK

(* So it stays while the call goes on.                                     *)
LEMMA StillOnlyCall ==
  ASSUME Shape, Alone, NEW u \in User, user[u].pc # "idle", NEW c \in Call,
         user' = [user EXCEPT ![u] = c], phase' = phase
  PROVE  /\ \A v, w \in Busy' : v = w
         /\ Busy' # {} => phase' = "open"
         /\ user'[u] = c
         /\ \A v \in User : v # u => user'[v] = Idle
PROOF
  BY OnlyCall, IdleIsCall DEF Shape, Busy

(* A step of the only call that leaves the table alone.                    *)
LEMMA AloneStays ==
  ASSUME Shape, Alone, NEW u \in User, user[u].pc # "idle", NEW c \in Call,
         user' = [user EXCEPT ![u] = c], Knows(c),
         UNCHANGED <<phase, torrents, running, loader>>, commanded' \subseteq Table
  PROVE  Alone'
PROOF
  <1>1. /\ phase = "open" /\ loader = Idle
        /\ \A v, w \in Busy' : v = w
        /\ user'[u] = c /\ \A v \in User : v # u => user'[v] = Idle
    BY OnlyCall, StillOnlyCall
  <1>2. Ids' = Ids /\ Table' = Table
    BY DEF Ids, Table
  <1>3. ASSUME NEW v \in User  PROVE Knows(user[v])'
    <2>1. CASE v = u
      BY <1>1, <1>2, <2>1 DEF Knows
    <2>2. CASE v # u
      BY <1>1, <2>2, IdleIsCall DEF Knows
    <2>3. QED
      BY <2>1, <2>2
  <1>4. QED
    BY <1>1, <1>2, <1>3, IdleIsCall DEF Alone

(* A step of an addition that overlaps no other keeps what it knows of the *)
(* table.                                                                  *)
LEMMA AloneAdd ==
  ASSUME Shape, Alone, NEW u \in User, Add(u), ~overlapped'
  PROVE  Alone'
PROOF
  <1> USE SessionAssumption, IdleIsCall DEF database, history
  <1>1. ASSUME NEW i \in TorrentId, Check(u, i)  PROVE Alone'
    <2>1. Busy = {} /\ phase = "open"
      BY <1>1 DEF Check
    <2>2. \A v \in User : user[v] = Idle
      BY <2>1 DEF Busy, Shape, CallOK
    <2>3. /\ user'[u].id = i /\ user'[u].pc = (IF torrents[i] # 0 THEN "found" ELSE "checked")
          /\ \A v \in User : v # u => user'[v] = Idle
      BY <1>1, <2>2 DEF Check, Idle, Shape
    <2>4. (\A v, w \in Busy : v = w)' /\ phase' = "open"
      BY <1>1, <2>1, <2>3 DEF Busy, Check
    <2>5. UNCHANGED <<torrents, commanded, running, loader, phase>>
      BY <1>1 DEF Check
    <2>6. \A v \in User : Knows(user[v])'
      <3>1. Knows(user[u])'
        BY <2>3, <2>5 DEF Knows, Ids
      <3>2. QED
        BY <2>3, <3>1 DEF Knows
    <2>7. QED
      BY <2>1, <2>4, <2>5, <2>6 DEF Alone, Ids, Table
  <1>2. CASE ReturnFound(u) \/ AddFails(u)
    <2>1. user[u].pc # "idle" /\ user' = [user EXCEPT ![u] = Idle] /\ phase' = phase
          /\ UNCHANGED <<torrents, commanded, running, loader>>
      BY <1>2 DEF ReturnFound, AddFails
    <2>2. Knows(Idle) /\ commanded \subseteq Table
      BY DEF Knows, Alone
    <2>3. QED
      BY <2>1, <2>2, AloneStays
  <1>3. CASE Create(u)
    <2> DEFINE c == [user[u] EXCEPT !.pc = "created", !.nr = made'[user[u].id]]
    <2>0. user' = [user EXCEPT ![u] = [@ EXCEPT !.pc = "created", !.nr = made'[user[u].id]]]
      BY <1>3, CreateChanges
    <2>1. user[u].pc = "checked" /\ user' = [user EXCEPT ![u] = c] /\ phase' = phase
          /\ UNCHANGED <<torrents, commanded, running, loader>>
      BY <1>3, <2>0 DEF Create
    <2>2. c \in Call /\ c.pc = "created" /\ c.id = user[u].id
      <3>1. Shape'
        BY AddShape
      <3>2. made'[user[u].id] \in 0 .. MaxMade
        BY <3>1, <2>1 DEF Shape, CallOK
      <3>3. QED
        BY <3>2 DEF Shape, Call
    <2> HIDE DEF c
    <2>3. Knows(c) /\ commanded \subseteq Table
      BY <2>1, <2>2 DEF Knows, Alone
    <2>4. QED
      BY <2>1, <2>2, <2>3, AloneStays
  <1>4. CASE WriteRecord(u)
    <2> DEFINE c == [user[u] EXCEPT !.pc = "recorded"]
    <2>1. user[u].pc = "created" /\ user' = [user EXCEPT ![u] = c] /\ phase' = phase
          /\ UNCHANGED <<torrents, commanded, running, loader>>
      BY <1>4 DEF WriteRecord
    <2>2. c \in Call /\ c.pc = "recorded" /\ c.id = user[u].id
      BY DEF Shape, Call
    <2> HIDE DEF c
    <2>3. Knows(c) /\ commanded \subseteq Table
      BY <2>1, <2>2 DEF Knows, Alone
    <2>4. QED
      BY <2>1, <2>2, <2>3, AloneStays
  <1>5. CASE Insert(u)
    <2> DEFINE i == user[u].id
               c == [user[u] EXCEPT !.pc = "inserted", !.keys = Ids \cup {i}]
    <2>1. user[u].pc = "recorded" /\ user' = [user EXCEPT ![u] = c] /\ phase' = phase
          /\ torrents' = [torrents EXCEPT ![i] = user[u].nr]
          /\ UNCHANGED <<commanded, running, loader>>
      BY <1>5 DEF Insert
    <2>2. i \in TorrentId /\ i \notin Ids /\ user[u].nr \in 1 .. MaxMade
      BY <2>1 DEF Shape, CallOK, Alone, Knows, Call
    <2>3. c \in Call /\ c.pc = "inserted" /\ c.id = i /\ c.nr = user[u].nr /\ c.keys = Ids \cup {i}
      BY <2>2 DEF Shape, Call, Ids
    <2> HIDE DEF c
    <2>4. /\ Ids' = Ids \cup {i} /\ torrents'[i] = user[u].nr
          /\ Table \subseteq Table'
      BY <2>1, <2>2 DEF Ids, Table, Torrent, Shape
    <2>a. /\ \A v, w \in Busy' : v = w
          /\ Busy' # {} => phase' = "open"
          /\ user'[u] = c
          /\ \A v \in User : v # u => user'[v] = Idle
      BY <2>1, <2>3, StillOnlyCall
    <2>5. Knows(user[u])'
      BY <2>3, <2>4, <2>a DEF Knows
    <2>6. \A v \in User : Knows(user[v])'
      BY <2>5, <2>a, IdleIsCall DEF Knows
    <2>7. QED
      BY <2>1, <2>3, <2>4, <2>6, <2>a, OnlyCall DEF Alone
  <1>6. CASE SaveIds(u)
    <2> DEFINE c == [user[u] EXCEPT !.pc = "saved"]
    <2>1. user[u].pc = "inserted" /\ user' = [user EXCEPT ![u] = c] /\ phase' = phase
          /\ UNCHANGED <<torrents, commanded, running, loader>>
      BY <1>6 DEF SaveIds
    <2>2. c \in Call /\ c.pc = "saved" /\ c.id = user[u].id /\ c.nr = user[u].nr
      BY DEF Shape, Call
    <2> HIDE DEF c
    <2>3. Knows(c) /\ commanded \subseteq Table
      BY <2>1, <2>2 DEF Knows, Alone
    <2>4. QED
      BY <2>1, <2>2, <2>3, AloneStays
  <1>7. CASE ReturnAdded(u)
    <2> DEFINE t == <<user[u].id, user[u].nr>>
    <2>1. user[u].pc = "saved" /\ user' = [user EXCEPT ![u] = Idle] /\ phase' = phase
          /\ UNCHANGED <<torrents, running, loader>> /\ commanded' \subseteq commanded \cup {t}
      BY <1>7 DEF ReturnAdded
    <2>2. t \in Table
      BY <2>1 DEF Shape, CallOK, Alone, Knows, Call, Table, Torrent
    <2> HIDE DEF t
    <2>3. Knows(Idle) /\ commanded' \subseteq Table
      BY <2>1, <2>2 DEF Knows, Alone
    <2>4. QED
      BY <2>1, <2>3, AloneStays
  <1>8. QED
    BY <1>1, <1>2, <1>3, <1>4, <1>5, <1>6, <1>7 DEF Add

(* The load runs before any call of a user.                                *)
LEMMA AloneLoad ==
  ASSUME Shape, Alone, Open \/ Load
  PROVE  Alone'
PROOF
  <1> USE SessionAssumption, IdleIsCall DEF Shape, Alone, Busy, Ids, Knows, database, history
  <1>1. CASE Open
    BY <1>1 DEF Open, Table
  <1>2. ASSUME NEW i \in TorrentId, LoadTorrent(i) \/ LoadFails(i)  PROVE Alone'
    <2>1. /\ UNCHANGED <<phase, torrents, commanded, running, user>>
          /\ loader'.pc # "inserted"
      BY <1>2 DEF LoadTorrent, LoadFails, Idle
    <2>2. QED
      BY <2>1 DEF Table
  <1>3. CASE LoadInsert
    <2>1. loader.id \in TorrentId /\ loader.nr \in 1 .. MaxMade
      BY <1>3 DEF LoadInsert, CallOK, Call
    <2>2. Ids' = Ids \cup {loader.id}
      BY <1>3, <2>1 DEF LoadInsert
    <2>3. loader'.keys = Ids \cup {loader.id} /\ loader'.id = loader.id
      BY <1>3 DEF LoadInsert, Call
    <2>4. QED
      BY <1>3, <2>1, <2>2, <2>3 DEF LoadInsert, CallOK
  <1>4. CASE LoadSave
    BY <1>4 DEF LoadSave, Table
  <1>5. CASE LoadDone
    BY <1>5 DEF LoadDone, Table
  <1>6. QED
    BY <1>1, <1>2, <1>3, <1>4, <1>5 DEF Load

(* Commands, Close, RemoveData and a crash leave no call that relies on    *)
(* the old table.                                                          *)
LEMMA AloneRest ==
  ASSUME Shape, Alone, ~overlapped',
         \/ \E t \in Torrent : Start(t) \/ Stop(t) \/ StartAgain(t)
         \/ Close \/ NewTable \/ RemoveIds \/ RemoveRecords \/ Crash
  PROVE  Alone'
PROOF
  <1> USE SessionAssumption, IdleIsCall
      DEF Shape, Alone, Busy, Ids, Knows, Table, memory, database, history
  <1>1. ASSUME NEW t \in Torrent, Start(t) \/ Stop(t) \/ StartAgain(t)  PROVE Alone'
    BY <1>1 DEF Start, Stop, StartAgain
  <1>2. CASE Close
    <2>1. Busy = {} /\ commanded = {}
      BY <1>2 DEF Close
    <2>2. running' = {}
      BY <1>2 DEF Close
    <2>3. QED
      BY <1>2, <2>1, <2>2 DEF Close, CallOK
  <1>3. CASE NewTable \/ RemoveIds \/ RemoveRecords
    BY <1>3 DEF NewTable, RemoveIds, RemoveRecords
  <1>4. CASE Crash
    BY <1>4 DEF Crash, Forgotten
  <1>5. QED
    BY <1>1, <1>2, <1>3, <1>4

(* Every step keeps Alone unless it makes two additions overlap.           *)
LEMMA AloneStep ==
  ASSUME Shape, Alone, [Next]_vars, ~overlapped'
  PROVE  Alone'
PROOF
  <1>1. CASE UNCHANGED vars
    BY <1>1 DEF Alone, Busy, Ids, Knows, Table, vars, memory, database, history
  <1>2. QED
    BY <1>1, AloneAdd, AloneLoad, AloneRest DEF Next

-----------------------------------------------------------------------------
(* While, besides, nothing fails.                                          *)

(* At first nothing has been added.                                        *)
LEMMA InitKept == Init => Kept
PROOF
  BY DEF Init, Kept, Ids

(* A load in which nothing fails brings back what the list had.            *)
LEMMA KeptLoad ==
  ASSUME Shape, Alone, Kept, Open \/ Load, ~lost'
  PROVE  Kept'
PROOF
  <1> USE SessionAssumption, IdleIsCall DEF Shape, Kept, Inserting, database, history
  <1>1. CASE Open
    BY <1>1 DEF Open, Ids
  <1>2. ASSUME NEW i \in TorrentId, LoadTorrent(i)  PROVE Kept'
    <2>1. loader'.id = i /\ loader.id = None /\ toLoad' = toLoad \ {i}
      BY <1>2 DEF LoadTorrent, Idle, CallOK
    <2>2. QED
      BY <1>2, <2>1 DEF LoadTorrent, Ids
  <1>3. ASSUME NEW i \in TorrentId, LoadFails(i)  PROVE Kept'
    BY <1>3 DEF LoadFails
  <1>4. CASE LoadInsert
    <2>1. loader.id \in TorrentId /\ loader.nr \in 1 .. MaxMade
      BY <1>4 DEF LoadInsert, CallOK, Call
    <2>2. Ids' = Ids \cup {loader.id}
      BY <1>4, <2>1 DEF LoadInsert, Ids
    <2>3. loader'.id = loader.id
      BY <1>4 DEF LoadInsert, Call
    <2>4. QED
      BY <1>4, <2>1, <2>2, <2>3 DEF LoadInsert
  <1>5. CASE LoadSave
    <2>1. savedIds' = Ids /\ loader.id \in Ids
      BY <1>5 DEF LoadSave, Alone
    <2>2. Ids' = Ids
      BY <1>5 DEF LoadSave, Ids
    <2>3. QED
      BY <1>5, <2>1, <2>2 DEF LoadSave
  <1>6. CASE LoadDone
    <2>1. Busy = {} /\ loader.id = None
      BY <1>6 DEF LoadDone, CallOK
    <2>2. Ids \subseteq savedIds
      BY <2>1 DEF Busy, Ids
    <2>3. \A t \in Table : t[1] \in Ids
      BY DEF Table, Torrent, Ids
    <2>4. Ids' = Ids
      BY <1>6 DEF LoadDone, Ids
    <2>5. QED
      BY <1>6, <2>2, <2>3, <2>4 DEF LoadDone
  <1>7. QED
    BY <1>1, <1>2, <1>3, <1>4, <1>5, <1>6 DEF Load

(* An addition keeps what was added before it, since its list of keys is   *)
(* the table's.                                                            *)
LEMMA KeptAdd ==
  ASSUME Shape, Recorded, Alone, Kept, NEW u \in User, Add(u), ~lost', ~overlapped'
  PROVE  Kept'
PROOF
  <1> USE SessionAssumption, IdleIsCall DEF Kept, database, history
  <1>1. ASSUME NEW i \in TorrentId, Check(u, i)  PROVE Kept'
    <2>1. UNCHANGED <<added, savedIds, toLoad, loader, phase, torrents, commanded, running, started>>
      BY <1>1 DEF Check
    <2>2. Busy = {}
      BY <1>1 DEF Check
    <2>3. Inserting = {}
      BY <2>2 DEF Inserting, Busy
    <2>4. QED
      BY <2>1, <2>3 DEF Ids
  <1>2. CASE ReturnFound(u)
    <2>1. /\ UNCHANGED <<savedIds, toLoad, loader, phase, torrents, commanded, running, started>>
          /\ added' = added \cup {user[u].id} /\ user[u].pc = "found"
      BY <1>2 DEF ReturnFound
    <2>2. user[u].id \in Ids /\ phase = "open" /\ loader.id = None /\ user[u].id \in TorrentId
      BY <2>1, OnlyCall DEF Alone, Knows, Shape, CallOK
    <2>3. Inserting = {}
      BY <2>1, OnlyCall DEF Inserting
    <2>4. QED
      BY <2>1, <2>2, <2>3 DEF Ids
  <1>3. CASE Create(u) \/ WriteRecord(u) \/ AddFails(u)
    <2>1. /\ UNCHANGED <<added, savedIds, toLoad, loader, phase, torrents, commanded, running>>
          /\ user[u].pc \in {"checked", "created"}
          /\ started' \in {started, started \ {user[u].id}}
      BY <1>3 DEF Create, WriteRecord, AddFails
    <2>2. Inserting = {}
      BY <2>1, OnlyCall DEF Inserting
    <2>3. user[u].id \notin Ids
      BY <2>1 DEF Alone, Knows
    <2>4. \A t \in running : t[1] \in Ids
      BY DEF Alone, Table, Ids, Torrent
    <2>5. QED
      BY <2>1, <2>2, <2>3, <2>4 DEF Ids
  <1>4. CASE Insert(u)
    <2>1. /\ UNCHANGED <<added, savedIds, toLoad, loader, phase, commanded, running, started>>
          /\ torrents' = [torrents EXCEPT ![user[u].id] = user[u].nr]
          /\ user[u].pc = "recorded"
      BY <1>4 DEF Insert
    <2>2. user[u].id \in TorrentId /\ user[u].nr \in 1 .. MaxMade
      BY <2>1 DEF Shape, CallOK, Call
    <2>3. Ids' = Ids \cup {user[u].id}
      BY <2>1, <2>2 DEF Ids, Shape
    <2>4. user'[u].pc = "inserted" /\ user'[u].id = user[u].id
      BY <1>4 DEF Insert, Shape, Call
    <2>5. user[u].id \in Inserting'
      BY <2>4 DEF Inserting
    <2>6. Inserting = {}
      BY <2>1, OnlyCall DEF Inserting
    <2>7. QED
      BY <2>1, <2>3, <2>5, <2>6
  <1>5. CASE SaveIds(u)
    <2>1. /\ UNCHANGED <<added, toLoad, loader, phase, torrents, commanded, running, started>>
          /\ savedIds' = user[u].keys /\ user[u].pc = "inserted"
      BY <1>5 DEF SaveIds
    <2>2. savedIds' = Ids /\ phase = "open"
      BY <2>1, OnlyCall DEF Alone, Knows
    <2>3. \A t \in commanded \cup running : t[1] \in Ids
      BY DEF Alone, Table, Ids, Torrent
    <2>4. QED
      BY <2>1, <2>2, <2>3 DEF Ids
  <1>6. CASE ReturnAdded(u)
    <2>1. /\ UNCHANGED <<savedIds, toLoad, loader, phase, torrents, running, started>>
          /\ commanded' \subseteq commanded \cup {<<user[u].id, user[u].nr>>}
          /\ added' = added \cup {user[u].id} /\ user[u].pc = "saved"
      BY <1>6 DEF ReturnAdded
    <2>2. user[u].id \in Ids /\ phase = "open" /\ loader.id = None /\ user[u].id \in TorrentId
      BY <2>1, OnlyCall DEF Alone, Knows, Shape, CallOK, Ids
    <2>3. Inserting = {}
      BY <2>1, OnlyCall DEF Inserting
    <2>4. QED
      BY <2>1, <2>2, <2>3 DEF Ids
  <1>7. QED
    BY <1>1, <1>2, <1>3, <1>4, <1>5, <1>6 DEF Add

(* Commands, Close, RemoveData and a crash that cuts no load off lose      *)
(* nothing.                                                                *)
LEMMA KeptRest ==
  ASSUME Shape, Recorded, Alone, Kept, ~lost', ~overlapped',
         \/ \E t \in Torrent : Start(t) \/ Stop(t) \/ StartAgain(t)
         \/ Close \/ NewTable \/ RemoveIds \/ RemoveRecords \/ Crash
  PROVE  Kept'
PROOF
  <1> USE SessionAssumption, IdleIsCall DEF Kept, memory, database, history
  <1>1. ASSUME NEW t \in Torrent, Start(t)  PROVE Kept'
    <2>1. t \in Table /\ phase = "open"
      BY <1>1 DEF Start, Alone
    <2>2. t[1] \in Ids
      BY <2>1 DEF Table, Torrent, Ids
    <2>3. t[1] \in records
      BY <2>1, <2>2 DEF Recorded
    <2>4. QED
      BY <1>1, <2>3 DEF Start, Ids, Inserting
  <1>2. ASSUME NEW t \in Torrent, Stop(t)  PROVE Kept'
    BY <1>2 DEF Stop, Ids, Inserting
  <1>3. ASSUME NEW t \in Torrent, StartAgain(t)  PROVE Kept'
    <2>1. toLoad = {} /\ loader.id = None
      BY <1>3 DEF StartAgain, Shape
    <2>2. t[1] \in savedIds
      BY <1>3, <2>1 DEF StartAgain, Torrent
    <2>3. QED
      BY <1>3, <2>2 DEF StartAgain, Ids, Inserting
  <1>4. CASE Close
    <2>1. Ids' = {}
      BY <1>4 DEF Close, Ids
    <2>2. commanded = {} /\ running' = {}
      BY <1>4 DEF Close, Alone
    <2>3. QED
      BY <1>4, <2>1, <2>2 DEF Close
  <1>5. CASE NewTable
    BY <1>5 DEF NewTable, Ids, Inserting
  <1>6. CASE RemoveIds \/ RemoveRecords
    <2>1. phase \in {"emptied", "unlisted"} /\ phase' \in {"unlisted", "removed"}
      BY <1>6 DEF RemoveIds, RemoveRecords
    <2>2. Ids = {} /\ commanded = {} /\ running = {} /\ toLoad = {} /\ loader.id = None
      BY <2>1 DEF Alone, Shape
    <2>3. added' = {}
      BY <1>6, <2>1, <2>2 DEF RemoveIds, RemoveRecords, Recorded, Shape
    <2>4. QED
      BY <1>6, <2>1, <2>2, <2>3 DEF RemoveIds, RemoveRecords, Ids, Inserting
  <1>7. CASE Crash
    <2>1. phase # "loading"
      BY <1>7 DEF Crash
    <2>2. added \subseteq savedIds
      BY <2>1 DEF Shape
    <2>3. Ids' = {} /\ commanded' = {} /\ running' = {} /\ phase' = "down"
      BY <1>7 DEF Crash, Forgotten, Ids
    <2>4. QED
      BY <1>7, <2>2, <2>3 DEF Crash
  <1>8. QED
    BY <1>1, <1>2, <1>3, <1>4, <1>5, <1>6, <1>7

(* Every step keeps Kept unless additions overlap or a load fails.         *)
LEMMA KeptStep ==
  ASSUME Shape, Recorded, Alone, Kept, [Next]_vars, ~lost', ~overlapped'
  PROVE  Kept'
PROOF
  <1>1. CASE UNCHANGED vars
    BY <1>1 DEF Kept, Ids, Inserting, vars, memory, database, history
  <1>2. QED
    BY <1>1, KeptAdd, KeptLoad, KeptRest DEF Next

-----------------------------------------------------------------------------
(* The initial states satisfy the invariant.                               *)
LEMMA InitOK == Init => IInv
PROOF
  <1> SUFFICES ASSUME Init  PROVE IInv
    OBVIOUS
  <1>1. overlapped \in BOOLEAN /\ lost \in BOOLEAN
    BY DEF Init
  <1>2. QED
    BY <1>1, InitShape, InitRecorded, InitAlone, InitKept, TypeIsShape DEF IInv

(* Every step keeps the invariant.                                         *)
LEMMA IndStep == IInv /\ [Next]_vars => IInv'
PROOF
  <1> SUFFICES ASSUME IInv, [Next]_vars  PROVE IInv'
    OBVIOUS
  <1>1. Shape /\ overlapped \in BOOLEAN /\ lost \in BOOLEAN
    BY TypeIsShape DEF IInv
  <1>2. FlagsUp
    BY <1>1, FlagsStep
  <1>3. Shape'
    BY <1>1, ShapeStep
  <1>4. Type'
    BY <1>2, <1>3 DEF FlagsUp, Type, TypeOK, Shape
  <1>5. Recorded'
    BY <1>1, RecordedStep DEF IInv
  <1>6. ASSUME ~overlapped'  PROVE Alone'
    <2>1. ~overlapped
      BY <1>2, <1>6 DEF FlagsUp
    <2>2. QED
      BY <1>1, <1>6, <2>1, AloneStep DEF IInv
  <1>7. ASSUME ~overlapped', ~lost'  PROVE Kept'
    <2>1. ~overlapped /\ ~lost
      BY <1>2, <1>7 DEF FlagsUp
    <2>2. QED
      BY <1>1, <1>7, <2>1, KeptStep DEF IInv
  <1>8. QED
    BY <1>4, <1>5, <1>6, <1>7 DEF IInv

(* The invariant holds of every behaviour of the session.                  *)
LEMMA Invariance == Spec => []IInv
PROOF
  BY InitOK, IndStep, PTL DEF Spec

(* What a call has returned is restored by every later session, through    *)
(* any number of sessions and crashes, although every insertTorrent of a   *)
(* load writes a list of only the torrents loaded so far.                  *)
THEOREM AddedStaysSaved == Spec => []AddedIsSaved
PROOF
  <1>1. IInv => AddedIsSaved
    BY DEF IInv, Kept, AddedIsSaved
  <1>2. QED
    BY <1>1, Invariance, PTL

(* Unless additions overlapped, the files of a torrent have one writer,    *)
(* and what runs is started again after a crash.                           *)
THEOREM OneWriterOfFiles == Spec => []OneRunning
PROOF
  <1>1. IInv => OneRunning
    <2> SUFFICES ASSUME IInv, ~overlapped
                 PROVE  /\ \A t1, t2 \in running : t1[1] = t2[1] => t1 = t2
                        /\ ~lost => {t[1] : t \in running} \subseteq savedIds \cap started
      BY DEF OneRunning
    <2>1. running \subseteq Table
      BY DEF IInv, Alone
    <2>2. ASSUME NEW t1 \in Table, NEW t2 \in Table, t1[1] = t2[1]  PROVE t1 = t2
      BY <2>2 DEF Table, Torrent
    <2>3. ASSUME ~lost  PROVE \A t \in running : t[1] \in savedIds /\ t[1] \in started
      BY <2>3 DEF IInv, Kept
    <2>4. QED
      BY <2>1, <2>2, <2>3
  <1>2. QED
    BY <1>1, Invariance, PTL
=============================================================================
