------------------------------ MODULE Session ------------------------------
(***************************************************************************)
(* The session's table of torrents and the database it is restored from.   *)
(*                                                                         *)
(* AddFileId and CreateFile, called by several goroutines, have the same   *)
(* control: look the torrent up, make one (newTorrent2 starts its run      *)
(* loop), write its record, insert it into the table and, with the lock    *)
(* released, write the ids of the table; then start it.  NewSession loads  *)
(* the torrents one by one through the same insertTorrent.  The database   *)
(* has two parts, each written in transactions of its own: the session's   *)
(* list of ids, and a record for each torrent.                             *)
(*                                                                         *)
(* Where the code panics (a nil map after Close, a deleted bucket after    *)
(* RemoveData) the action is disabled and only Crash remains.              *)
(***************************************************************************)
EXTENDS Integers, FiniteSets

CONSTANTS
  User,             \* goroutines that add torrents
  TorrentId,
  MaxMade,          \* bound: torrents made of one id by one process
  ResumeOnStartup,  \* Config
  None

ASSUME SessionAssumption ==
  MaxMade \in Nat \ {0} /\ ResumeOnStartup \in BOOLEAN /\ None \notin TorrentId

VARIABLES
  phase,       \* of the process: see Phase
  torrents,    \* Session.torrents: which torrent made of an id, 0 for none
  made,        \* how many torrents of an id the process has made
  commanded,   \* torrents whose run loop has received a start command
  running,     \* torrents that have been started
  user,        \* what each user is doing
  toLoad,      \* ids that loadExistingTorrents has not reached
  loader,      \* what it is doing
  savedIds,    \* database: the list of ids
  records,     \* database: ids with a torrent record
  started,     \* database: ids whose record says started
  added,       \* ids whose torrent a call has returned, since the data were removed
  overlapped,  \* history: two additions, or one and the session's end, overlapped
  lost         \* history: saving the ids or a load failed, or a load was cut off

memory == <<torrents, made, commanded, running, user, toLoad, loader>>
database == <<savedIds, records, started>>
history == <<added, overlapped, lost>>
vars == <<phase, memory, database, history>>

(* "closed" is after Close, "emptied", "unlisted" and "removed" are inside *)
(* RemoveData: a new table is made, the ids and then the records deleted.  *)
Phase == {"down", "loading", "open", "closed", "emptied", "unlisted", "removed"}
Returned == Phase \ {"down", "loading"}   \* NewSession has returned

Torrent == TorrentId \X (1 .. MaxMade)
Ids == {i \in TorrentId : torrents[i] # 0}
Table == {t \in Torrent : torrents[t[1]] = t[2]}

Idle == [pc |-> "idle", id |-> None, nr |-> 0, keys |-> {}]
Call ==
  [pc : {"idle", "checked", "found", "created", "recorded", "inserted", "saved"},
   id : TorrentId \cup {None}, nr : 0 .. MaxMade, keys : SUBSET TorrentId]
Busy == {u \in User : user[u].pc # "idle"}

Forgotten ==
  /\ torrents' = [i \in TorrentId |-> 0] /\ made' = [i \in TorrentId |-> 0]
  /\ commanded' = {} /\ running' = {}
  /\ user' = [u \in User |-> Idle] /\ toLoad' = {} /\ loader' = Idle

Init ==
  /\ phase = "down"
  /\ torrents = [i \in TorrentId |-> 0] /\ made = [i \in TorrentId |-> 0]
  /\ commanded = {} /\ running = {}
  /\ user = [u \in User |-> Idle] /\ toLoad = {} /\ loader = Idle
  /\ savedIds = {} /\ records = {} /\ started = {}
  /\ added = {} /\ overlapped = FALSE /\ lost = FALSE

-----------------------------------------------------------------------------
(* NewSession.                                                             *)

(* The database is opened and the list of ids read.                        *)
Open ==
  /\ phase = "down"
  /\ phase' = "loading" /\ toLoad' = savedIds
  /\ UNCHANGED <<torrents, made, commanded, running, user, loader, database, history>>

(* loadExistingTorrent makes the torrent of a readable record.             *)
LoadTorrent(i) ==
  /\ phase = "loading" /\ loader.pc = "idle" /\ i \in toLoad /\ i \in records
  /\ toLoad' = toLoad \ {i}
  /\ made' = [made EXCEPT ![i] = @ + 1]
  /\ loader' = [Idle EXCEPT !.pc = "recorded", !.id = i, !.nr = made'[i]]
  /\ UNCHANGED <<phase, torrents, commanded, running, user, database, history>>

(* The record cannot be read or parsed: the torrent is skipped.            *)
LoadFails(i) ==
  /\ phase = "loading" /\ loader.pc = "idle" /\ i \in toLoad
  /\ toLoad' = toLoad \ {i} /\ lost' = TRUE
  /\ UNCHANGED <<phase, torrents, made, commanded, running, user, loader, database, added, overlapped>>

(* insertTorrent, under the lock: the keys are those of the table now.     *)
LoadInsert ==
  /\ phase = "loading" /\ loader.pc = "recorded"
  /\ torrents' = [torrents EXCEPT ![loader.id] = loader.nr]
  /\ loader' = [loader EXCEPT !.pc = "inserted", !.keys = Ids \cup {loader.id}]
  /\ UNCHANGED <<phase, made, commanded, running, user, toLoad, database, history>>

(* WriteTorrentIds; an error is logged and nothing else.                   *)
LoadSave ==
  /\ phase = "loading" /\ loader.pc = "inserted"
  /\ \/ savedIds' = loader.keys /\ UNCHANGED lost
     \/ lost' = TRUE /\ UNCHANGED savedIds
  /\ loader' = Idle
  /\ UNCHANGED <<phase, torrents, made, commanded, running, user, toLoad, records, started,
                 added, overlapped>>

(* All are loaded, and those that were started are started again.          *)
LoadDone ==
  /\ phase = "loading" /\ toLoad = {} /\ loader.pc = "idle"
  /\ phase' = "open"
  /\ commanded' = {t \in Table : ResumeOnStartup /\ t[1] \in started}
  /\ UNCHANGED <<torrents, made, running, user, toLoad, loader, database, history>>

-----------------------------------------------------------------------------
(* AddFileId and CreateFile.                                               *)

(* existTorrent, under the lock.                                           *)
Check(u, i) ==
  /\ phase \in Returned /\ user[u].pc = "idle"
  /\ user' = [user EXCEPT ![u] = [Idle EXCEPT !.pc = IF torrents[i] # 0 THEN "found" ELSE "checked",
                                              !.id = i]]
  /\ overlapped' = (overlapped \/ Busy # {} \/ phase # "open")
  /\ UNCHANGED <<phase, torrents, made, commanded, running, toLoad, loader, database, added, lost>>

(* The torrent in the table is returned.                                   *)
ReturnFound(u) ==
  /\ user[u].pc = "found"
  /\ added' = added \cup {user[u].id}
  /\ user' = [user EXCEPT ![u] = Idle]
  /\ UNCHANGED <<phase, torrents, made, commanded, running, toLoad, loader, database, overlapped, lost>>

(* newTorrent2.                                                            *)
Create(u) ==
  LET i == user[u].id
  IN /\ user[u].pc = "checked" /\ made[i] < MaxMade
     /\ made' = [made EXCEPT ![i] = @ + 1]
     /\ user' = [user EXCEPT ![u].pc = "created", ![u].nr = made'[i]]
     /\ UNCHANGED <<phase, torrents, commanded, running, toLoad, loader, database, history>>

(* resumer.Write: a new record, not started.                               *)
WriteRecord(u) ==
  /\ phase # "removed" /\ user[u].pc = "created"
  /\ records' = records \cup {user[u].id} /\ started' = started \ {user[u].id}
  /\ user' = [user EXCEPT ![u].pc = "recorded"]
  /\ UNCHANGED <<phase, torrents, made, commanded, running, toLoad, loader, savedIds, history>>

(* newTorrent2 or resumer.Write fails.  A torrent that was made is closed, *)
(* which leaves its run loop behind.                                       *)
AddFails(u) ==
  /\ user[u].pc \in {"checked", "created"}
  /\ user' = [user EXCEPT ![u] = Idle]
  /\ UNCHANGED <<phase, torrents, made, commanded, running, toLoad, loader, database, history>>

InsertOwnKey(u) ==
  /\ phase # "closed" /\ user[u].pc = "recorded"
  /\ torrents' = [torrents EXCEPT ![user[u].id] = user[u].nr]
  /\ user' = [user EXCEPT ![u].pc = "inserted", ![u].keys = {user[u].id}]
  /\ UNCHANGED <<phase, made, commanded, running, toLoad, loader, database, history>>

(* insertTorrent, under the lock.  A torrent of the same id is replaced.   *)
Insert(u) ==
  /\ phase # "closed" /\ user[u].pc = "recorded"
  /\ torrents' = [torrents EXCEPT ![user[u].id] = user[u].nr]
  /\ user' = [user EXCEPT ![u].pc = "inserted", ![u].keys = Ids \cup {user[u].id}]
  /\ UNCHANGED <<phase, made, commanded, running, toLoad, loader, database, history>>

(* WriteTorrentIds, after the lock has been released.                      *)
SaveIds(u) ==
  /\ phase \notin {"unlisted", "removed"} /\ user[u].pc = "inserted"
  /\ \/ savedIds' = user[u].keys /\ UNCHANGED lost
     \/ lost' = TRUE /\ UNCHANGED savedIds
  /\ user' = [user EXCEPT ![u].pc = "saved"]
  /\ UNCHANGED <<phase, torrents, made, commanded, running, toLoad, loader, records, started,
                 added, overlapped>>

(* The addition returns, after a start command unless opt.Stopped.         *)
ReturnAdded(u) ==
  LET t == <<user[u].id, user[u].nr>>
  IN /\ user[u].pc = "saved"
     /\ \/ commanded' = commanded \cup {t}
        \/ UNCHANGED commanded
     /\ added' = added \cup {t[1]}
     /\ user' = [user EXCEPT ![u] = Idle]
     /\ UNCHANGED <<phase, torrents, made, running, toLoad, loader, database, overlapped, lost>>

-----------------------------------------------------------------------------
(* The run loop of a torrent, and its user.                                *)

StartUnsaved(t) ==
  /\ phase # "removed" /\ t \in commanded
  /\ commanded' = commanded \ {t} /\ running' = running \cup {t}
  /\ UNCHANGED <<phase, torrents, made, user, toLoad, loader, database, history>>

(* start() writes that the torrent has started, unless it runs already.    *)
Start(t) ==
  /\ phase # "removed" /\ t \in commanded
  /\ commanded' = commanded \ {t} /\ running' = running \cup {t}
  /\ started' = IF t \in running THEN started ELSE started \cup ({t[1]} \cap records)
  /\ UNCHANGED <<phase, torrents, made, user, toLoad, loader, savedIds, records, history>>

(* A torrent of the table is stopped; its record goes on saying started.   *)
Stop(t) ==
  /\ t \in running \cap Table /\ t[1] \in added /\ t \notin commanded
  /\ running' = running \ {t}
  /\ UNCHANGED <<phase, torrents, made, commanded, user, toLoad, loader, database, history>>

StartAgain(t) ==
  /\ phase = "open" /\ t \in Table /\ t[1] \in added
  /\ commanded' = commanded \cup {t}
  /\ UNCHANGED <<phase, torrents, made, running, user, toLoad, loader, database, history>>

-----------------------------------------------------------------------------
(* The end of a session.                                                   *)

(* Close stops the torrents of the table and drops it; their loops go on.  *)
(* It calls stop() outside the loops: a start command that a loop has not  *)
(* yet obeyed starts the torrent after it was closed.                      *)
Close ==
  /\ phase = "open"
  /\ phase' = "closed" /\ torrents' = [i \in TorrentId |-> 0] /\ running' = running \ Table
  /\ overlapped' = (overlapped \/ Busy # {} \/ commanded # {})
  /\ UNCHANGED <<made, commanded, user, toLoad, loader, database, added, lost>>

(* RemoveData, after its call of Close.                                    *)
NewTable ==
  /\ phase = "closed" /\ phase' = "emptied"
  /\ UNCHANGED <<memory, database, history>>

RemoveRecordsFirst ==
  /\ phase = "emptied"
  /\ phase' = "unlisted" /\ records' = {} /\ started' = {} /\ added' = {}
  /\ UNCHANGED <<memory, savedIds, overlapped, lost>>

RemoveIds ==
  /\ phase = "emptied"
  /\ phase' = "unlisted" /\ savedIds' = {} /\ added' = {}
  /\ UNCHANGED <<memory, records, started, overlapped, lost>>

RemoveRecords ==
  /\ phase = "unlisted"
  /\ phase' = "removed" /\ records' = {} /\ started' = {}
  /\ UNCHANGED <<memory, savedIds, history>>

(* The process ends, wherever it is: a crash, a panic or an exit.          *)
Crash ==
  /\ phase # "down"
  /\ phase' = "down" /\ Forgotten
  /\ lost' = (lost \/ phase = "loading")
  /\ UNCHANGED <<database, added, overlapped>>

-----------------------------------------------------------------------------
Load ==
  LoadInsert \/ LoadSave \/ LoadDone \/ \E i \in TorrentId : LoadTorrent(i) \/ LoadFails(i)

Add(u) ==
  \/ ReturnFound(u) \/ Create(u) \/ WriteRecord(u) \/ AddFails(u) \/ Insert(u) \/ SaveIds(u)
  \/ ReturnAdded(u) \/ \E i \in TorrentId : Check(u, i)

Next ==
  \/ Open \/ Load \/ \E u \in User : Add(u)
  \/ \E t \in Torrent : Start(t) \/ Stop(t) \/ StartAgain(t)
  \/ Close \/ NewTable \/ RemoveIds \/ RemoveRecords \/ Crash

Spec == Init /\ [][Next]_vars

-----------------------------------------------------------------------------
(* Properties.                                                             *)

(* Every variable has its type; the table holds only torrents that were    *)
(* made.                                                                   *)
TypeOK ==
  /\ phase \in Phase
  /\ made \in [TorrentId -> 0 .. MaxMade]
  /\ torrents \in [TorrentId -> 0 .. MaxMade] /\ \A i \in TorrentId : torrents[i] <= made[i]
  /\ commanded \subseteq Torrent /\ running \subseteq Torrent /\ user \in [User -> Call]
  /\ toLoad \subseteq TorrentId /\ loader \in Call
  /\ savedIds \subseteq TorrentId /\ records \subseteq TorrentId /\ started \subseteq records
  /\ added \subseteq TorrentId /\ overlapped \in BOOLEAN /\ lost \in BOOLEAN

(* Every id that the database lists has a record, whatever overlaps, fails *)
(* or crashes between the transactions of an addition, a load or a removal *)
(* (session_add.go writes the record before the ids, RemoveData deletes    *)
(* the ids before the records).                                            *)
ListedIsRecorded == TypeOK /\ savedIds \cup toLoad \subseteq records

(* A torrent that a call has returned is restored by every later           *)
(* session, through any number of sessions and crashes, as long as no two  *)
(* additions overlapped and no load failed or was cut off: it is in the    *)
(* saved list or still to be loaded, although every insertTorrent of a     *)
(* load writes a list that holds only the torrents loaded so far.          *)
AddedIsSaved == ~overlapped /\ ~lost => added \subseteq savedIds \cup toLoad \cup {loader.id}

(* Unless additions overlapped, files have one writer: no two torrents of  *)
(* one id run; and a torrent that runs is restored and started again after *)
(* a crash, unless a load failed or was cut off.                           *)
OneRunning ==
  ~overlapped =>
    /\ \A t1, t2 \in running : t1[1] = t2[1] => t1 = t2
    /\ ~lost => {t[1] : t \in running} \subseteq savedIds \cap started
=============================================================================
