------------------------------ MODULE Storage ------------------------------
(***************************************************************************)
(* The bytes of a torrent on the disk: how metainfo.NewInfoBytes hashes    *)
(* the files of a new torrent, which dictionaries NewInfo accepts, how     *)
(* filestorage.Open and the Allocator make the files, how piece.NewPieces  *)
(* cuts them into sections, and how filesection.Piece reads and writes     *)
(* them, with the Verifier and the piece writer on top.  The process may   *)
(* crash, a write may fail half way, and the user may delete or shorten a  *)
(* file while the torrent is stopped.                                      *)
(*                                                                         *)
(* The byte at position k of the torrent's files, put one after the other, *)
(* is the number k; Zero is what a file holds where nothing was written.   *)
(* A hash is the data it is the hash of.                                   *)
(***************************************************************************)
EXTENDS Integers, Sequences, FiniteSets, SequencesExt

CONSTANTS MaxFiles,      \* number of files of a torrent
          MaxFileLength, \* bytes of a file
          PieceLengths,  \* the values of "piece length"
          BlockSize,     \* piece.BlockSize
          Nil

ASSUME StorageAssumption ==
  /\ MaxFiles \in Nat \ {0} /\ MaxFileLength \in Nat /\ BlockSize \in Nat \ {0}
  /\ PieceLengths \subseteq Nat

VARIABLES info,    \* metainfo.Info
          disk,    \* the content of every file, or Missing
          saved,   \* the bitfield of the resume database, or Nil
          phase,   \* "stopped", "allocating", "verifying", "running"
          next,    \* the file to open or the piece to verify
          existed, \* the files Open found on the disk
          checked, \* Verifier.Bitfield
          pieces,  \* t.pieces, a sequence of sequences of sections
          done,    \* t.bitfield, or Nil
          writer,  \* the piece, the section and the bytes left of a write, or Nil
          stale    \* history: which of "saved" and "done" are older than a
                   \* change that the user made to the files

storageVars == <<info, disk, saved, phase, next, existed, checked, pieces, done,
                 writer, stale>>

Zero == 0
Missing == Nil

Layouts == UNION {[1..n -> 0..MaxFileLength] : n \in 1..MaxFiles}
Total(lengths) == FoldLeft(+, 0, lengths)
FilePos(lengths, f) == Total(SubSeq(lengths, 1, f - 1))
FileData(lengths, f) == [k \in 1..lengths[f] |-> FilePos(lengths, f) + k]

-----------------------------------------------------------------------------
(* metainfo *)

(* One file read into the buffer: a piece is hashed whenever it is full.   *)
Visit(pieceLength, st, data) ==
  LET all == st.buf \o data
      full == Len(all) \div pieceLength
  IN [buf |-> SubSeq(all, full * pieceLength + 1, Len(all)),
      pieces |-> st.pieces \o [i \in 1..full |->
                   SubSeq(all, (i - 1) * pieceLength + 1, i * pieceLength)]]

NewInfoBytes(lengths, pieceLength) ==
  LET end == FoldLeft(LAMBDA st, f : Visit(pieceLength, st, FileData(lengths, f)),
                      [buf |-> <<>>, pieces |-> <<>>],
                      [f \in 1..Len(lengths) |-> f])
  IN [pieceLength |-> pieceLength, files |-> lengths,
      pieces |-> IF end.buf = <<>> THEN end.pieces ELSE Append(end.pieces, end.buf)]

(* NewInfo returns no error: the number of pieces fits the length.         *)
NewInfoAccepts(d) ==
  /\ d.pieceLength # 0 /\ Len(d.pieces) # 0
  /\ LET delta == d.pieceLength * Len(d.pieces) - Total(d.files)
     IN delta >= 0 /\ delta < d.pieceLength

(* The dictionaries a peer may send: the creator's, or with a hash too     *)
(* many or too few.                                                        *)
Dictionaries ==
  LET made == {NewInfoBytes(l, n) : l \in Layouts, n \in PieceLengths \ {0}}
      damaged(d) == {[d EXCEPT !.pieces = Append(@, <<Zero>>)]}
                      \cup {[d EXCEPT !.pieces = SubSeq(@, 1, k)] : k \in 0..Len(d.pieces)}
  IN UNION {damaged(d) \cup {d, [d EXCEPT !.pieceLength = 0]} : d \in made}

-----------------------------------------------------------------------------
(* piece.Piece *)

Sections == [file : Nat, offset : Nat, length : Nat]

(* The sections of every piece: a loop over the pieces, and for each piece *)
(* over the files it reaches into.                                         *)
NewPieces(i) ==
  LET fileLeft(s) == i.files[s.file] - s.offset
      nextFile(s) == [s EXCEPT !.file = @ + 1, !.offset = 0]
      section(s, n) ==
        [s EXCEPT !.sections = Append(@, [file |-> s.file, offset |-> s.offset, length |-> n]),
                  !.left = @ - n, !.offset = @ + n, !.total = @ + n]
      cut[s \in [file : Nat, offset : Nat, total : Nat, left : Nat,
                 sections : Seq(Sections), cut : Seq(Seq(Sections))]] ==
        IF s.left = 0 THEN s
        ELSE LET n == IF s.left < fileLeft(s) THEN s.left ELSE fileLeft(s)
                 t == section(s, n)
             IN IF t.total = Total(i.files) THEN t
                ELSE cut[IF fileLeft(t) = 0 THEN nextFile(t) ELSE t]
      piece(s) == LET t == cut[[s EXCEPT !.left = i.pieceLength, !.sections = <<>>]]
                  IN [t EXCEPT !.cut = Append(@, t.sections)]
  IN FoldLeft(LAMBDA s, p : piece(s),
              [file |-> 1, offset |-> 0, total |-> 0, left |-> 0,
               sections |-> <<>>, cut |-> <<>>],
              i.pieces).cut

(* The length of the first n sections, and of the piece.                   *)
Pos(data, n) == Total([s \in 1..n |-> data[s].length])
PieceLen(data) == Pos(data, Len(data))

NumBlocks(length) ==
  (length \div BlockSize) + (IF length % BlockSize # 0 THEN 1 ELSE 0)

GetBlock(length, i) ==
  [begin |-> i * BlockSize,
   length |-> IF length % BlockSize # 0 /\ i = NumBlocks(length) - 1
              THEN length % BlockSize ELSE BlockSize]

(* FindBlock's ok.                                                         *)
FindBlock(length, begin, n) ==
  /\ begin % BlockSize = 0
  /\ begin \div BlockSize < NumBlocks(length)
  /\ GetBlock(length, begin \div BlockSize).length = n

-----------------------------------------------------------------------------
(* filesection.Piece *)

Read(file, offset, n) == SubSeq(disk[file], offset + 1, offset + n)

(* The readers of ReadAt: half of the section the offset falls into, and   *)
(* the sections after it up to the end of the range.                       *)
ReadAt(data, off, n) ==
  LET ends(i, pos) == i = Len(data) \/ Pos(data, i) >= pos
      first == CHOOSE i \in 1..Len(data) :
                 ends(i, off) /\ \A j \in 1..(i - 1) : ~ends(j, off)
      advance == data[first].length - (Pos(data, first) - off)
      half == Read(data[first].file, data[first].offset + advance,
                   data[first].length - advance)
      rest == SelectSeq([i \in 1..Len(data) |-> i],
                LAMBDA i : i > first /\ \A j \in (first + 1)..(i - 1) : ~ends(j, off + n))
      all == half \o FlattenSeq([i \in 1..Len(rest) |->
                Read(data[rest[i]].file, data[rest[i]].offset, data[rest[i]].length)])
  IN SubSeq(all, 1, n)

VerifyHash(p, buf) == Len(buf) = PieceLen(pieces[p]) /\ buf = info.pieces[p]

(* What a file holds after WriteAt of data.                                *)
Overwrite(content, offset, data) ==
  [k \in 1..Len(content) |->
     IF k \in (offset + 1)..(offset + Len(data)) THEN data[k - offset] ELSE content[k]]

-----------------------------------------------------------------------------
NumFiles == Len(info.files)
NumPieces == Len(info.pieces)

Stopped ==
  /\ phase = "stopped" /\ next = 0 /\ existed = {} /\ checked = {}
  /\ pieces = <<>> /\ writer = Nil

(* What may lie on the disk where a torrent is to be downloaded: nothing,  *)
(* the right file, or a file that is too short.                            *)
Found(i, f) ==
  {Missing} \cup {SubSeq(FileData(i.files, f), 1, k) : k \in {0, 1, i.files[f]} \cap 0..i.files[f]}

(* A torrent whose data is to be downloaded, or one that CreateFile made   *)
(* of the files on the disk and whose bitfield it fills without a check.   *)
StorageInit ==
  /\ info \in {d \in Dictionaries : NewInfoAccepts(d)}
  /\ Stopped
  /\ \/ /\ saved = Nil
        /\ disk \in {x \in [1..NumFiles -> UNION {Found(info, f) : f \in 1..NumFiles}] :
                       \A f \in 1..NumFiles : x[f] \in Found(info, f)}
     \/ /\ saved = 1..NumPieces
        /\ disk = [f \in 1..NumFiles |-> FileData(info.files, f)]
  /\ done = saved /\ stale = {}

Start ==
  /\ phase = "stopped"
  /\ phase' = "allocating" /\ next' = 1
  /\ UNCHANGED <<info, disk, saved, existed, checked, pieces, done, writer, stale>>

(* The user deletes or shortens a file of a torrent that has a bitfield.   *)
(* Bound: once, until the bitfields are sound again.                       *)
Tamper ==
  /\ phase = "stopped" /\ done # Nil /\ stale = {}
  /\ \E f \in 1..NumFiles :
       /\ disk[f] # Missing
       /\ \E content \in {Missing} \cup {SubSeq(disk[f], 1, k) : k \in {0, Len(disk[f]) - 1} \cap Nat} :
            disk' = [disk EXCEPT ![f] = content]
  /\ disk' # disk /\ stale' = {"saved", "done"}
  /\ UNCHANGED <<info, saved, phase, next, existed, checked, pieces, done, writer>>

(* The bitfield in memory is sound again; the one in the database takes    *)
(* over what is known of the one in memory, or the other way round.        *)
DoneSound == stale' = stale \ {"done"}
Follows(to, from) == stale' = IF from \in stale THEN stale \cup {to} ELSE stale \ {to}

(* filestorage.Open, for the next file of the Allocator's loop.            *)
OpenFile ==
  /\ phase = "allocating" /\ next <= NumFiles
  /\ LET size == info.files[next]
         old == IF disk[next] = Missing THEN <<>> ELSE disk[next]
     IN disk' = [disk EXCEPT ![next] = [k \in 1..size |-> IF k <= Len(old) THEN old[k] ELSE Zero]]
  /\ existed' = IF disk[next] = Missing THEN existed ELSE existed \cup {next}
  /\ next' = next + 1
  /\ UNCHANGED <<info, saved, phase, checked, pieces, done, writer, stale>>

(* handleAllocationDone: a bitfield is trusted when no file was missing,   *)
(* new files hold no piece, and all others are verified.  (What is trusted *)
(* may be stale: a file that is too short was there all the same.)         *)
AllocationDone ==
  /\ phase = "allocating" /\ next > NumFiles
  /\ pieces' = NewPieces(info)
  /\ LET trusted == done # Nil /\ existed = 1..NumFiles
     IN /\ phase' = IF ~trusted /\ existed # {} THEN "verifying" ELSE "running"
        /\ done' = IF ~trusted /\ existed = {} THEN {} ELSE done
        /\ IF ~trusted /\ existed = {} THEN DoneSound ELSE UNCHANGED stale
  /\ next' = 1
  /\ UNCHANGED <<info, disk, saved, existed, checked, writer>>

(* One piece of Verifier.Run.                                              *)
VerifyPiece ==
  /\ phase = "verifying" /\ next <= NumPieces
  /\ checked' = IF VerifyHash(next, ReadAt(pieces[next], 0, PieceLen(pieces[next])))
                THEN checked \cup {next} ELSE checked
  /\ next' = next + 1
  /\ UNCHANGED <<info, disk, saved, phase, existed, pieces, done, writer, stale>>

VerificationDone ==
  /\ phase = "verifying" /\ next > NumPieces
  /\ done' = checked /\ phase' = "running" /\ DoneSound
  /\ UNCHANGED <<info, disk, saved, next, existed, checked, pieces, writer>>

(* PieceWriter.Run with a buffer whose hash is right.                      *)
WritePiece(p) ==
  /\ phase = "running" /\ writer = Nil /\ p \notin done
  /\ VerifyHash(p, info.pieces[p])
  /\ writer' = [piece |-> p, section |-> 1, left |-> info.pieces[p]]
  /\ UNCHANGED <<info, disk, saved, phase, next, existed, checked, pieces, done, stale>>

Writes == writer # Nil /\ writer.section <= Len(pieces[writer.piece])
Section == pieces[writer.piece][writer.section]

(* The bug that every section is filled from the start of the piece.       *)
WriteSectionSameBytes ==
  /\ Writes
  /\ disk' = [disk EXCEPT ![Section.file] =
                Overwrite(@, Section.offset, SubSeq(writer.left, 1, Section.length))]
  /\ writer' = [writer EXCEPT !.section = @ + 1]
  /\ UNCHANGED <<info, saved, phase, next, existed, checked, pieces, done, stale>>

(* One round of the loop of filesection.Piece.Write.                       *)
WriteSection ==
  /\ Writes
  /\ disk' = [disk EXCEPT ![Section.file] =
                Overwrite(@, Section.offset, SubSeq(writer.left, 1, Section.length))]
  /\ writer' = [writer EXCEPT !.section = @ + 1,
                              !.left = SubSeq(@, Section.length + 1, Len(@))]
  /\ UNCHANGED <<info, saved, phase, next, existed, checked, pieces, done, stale>>

WriteDone ==
  /\ writer # Nil /\ writer.section > Len(pieces[writer.piece])
  /\ done' = done \cup {writer.piece}
  /\ IF done' = 1..NumPieces
     THEN saved' = done' /\ Follows("saved", "done") ELSE UNCHANGED <<saved, stale>>
  /\ writer' = Nil
  /\ UNCHANGED <<info, disk, phase, next, existed, checked, pieces>>

Reset ==
  /\ phase' = "stopped" /\ next' = 0 /\ existed' = {} /\ checked' = {}
  /\ pieces' = <<>> /\ writer' = Nil
  /\ UNCHANGED info

(* stop, on a command or after an error: the bitfield is saved, the files  *)
(* are closed and a write loses the sections it has not written.           *)
Stop ==
  /\ phase # "stopped" /\ Reset
  /\ IF done = Nil THEN UNCHANGED <<saved, stale>>
     ELSE saved' = done /\ Follows("saved", "done")
  /\ UNCHANGED <<disk, done>>

(* A file cannot be opened: the torrent stops and the files made so far    *)
(* stay on the disk.                                                       *)
OpenFails == phase = "allocating" /\ next <= NumFiles /\ Stop

(* WriteAt fails after m bytes.                                            *)
WriteFails(m) ==
  /\ Writes /\ m < Section.length /\ Reset
  /\ disk' = [disk EXCEPT ![Section.file] =
                Overwrite(@, Section.offset, SubSeq(writer.left, 1, m))]
  /\ saved' = done /\ Follows("saved", "done")
  /\ UNCHANGED done

(* The process ends at any moment and is started again.                    *)
Crash ==
  /\ phase # "stopped" /\ Reset
  /\ done' = saved /\ Follows("done", "saved")
  /\ UNCHANGED <<disk, saved>>

StorageNext ==
  \/ Start \/ Tamper \/ OpenFile \/ OpenFails \/ AllocationDone
  \/ VerifyPiece \/ VerificationDone
  \/ \E p \in 1..NumPieces : WritePiece(p)
  \/ WriteSection \/ WriteDone \/ \E m \in 0..MaxFileLength : WriteFails(m)
  \/ Stop \/ Crash

-----------------------------------------------------------------------------
PieceData(p, off, n) == [k \in 1..n |-> (p - 1) * info.pieceLength + off + k]

(* The pieces are the torrent's bytes, each once and in order, all of the  *)
(* piece length except the last.                                           *)
PiecesTile ==
  pieces # <<>> =>
    /\ Total([p \in 1..NumPieces |-> PieceLen(pieces[p])]) = Total(info.files)
    /\ \A p \in 1..(NumPieces - 1) : PieceLen(pieces[p]) = info.pieceLength

(* The blocks that are requested of a peer are the bytes of the piece,     *)
(* each once, and FindBlock accepts these blocks and no others.            *)
BlocksTile ==
  \A p \in 1..Len(pieces) :
    LET length == PieceLen(pieces[p])
        blocks == {GetBlock(length, i) : i \in 0..(NumBlocks(length) - 1)}
    IN /\ \A k \in 0..(length - 1) :
            Cardinality({b \in blocks : b.begin <= k /\ k < b.begin + b.length}) = 1
       /\ \A begin \in 0..length, n \in 1..length :
            FindBlock(length, begin, n) <=> [begin |-> begin, length |-> n] \in blocks

(* Every range of a piece that the torrent says it has is read from the    *)
(* disk as it was hashed.  Set aside is the one bitfield that the code     *)
(* trusts without a reason: the user changed the files since, and the      *)
(* allocation found every file, shortened, or made anew by an earlier      *)
(* allocation that did not end.                                            *)
TrustedStale == "done" \in stale /\ existed = 1..NumFiles

ReadBack ==
  phase = "running" /\ ~TrustedStale =>
    \A p \in done : \A off \in 0..(PieceLen(pieces[p]) - 1) :
      \A n \in 1..(PieceLen(pieces[p]) - off) :
        ReadAt(pieces[p], off, n) = PieceData(p, off, n)

(* What is cut, written, verified and read is one and the same: the pieces *)
(* tile the files, the blocks tile the pieces, and any request for a piece *)
(* that is done is answered with the bytes the creator hashed, whatever    *)
(* empty files, piece borders, failed writes, crashes, verifications and   *)
(* deleted files there were, except as ReadBack says.                      *)
BytesInPlace == PiecesTile /\ BlocksTile /\ ReadBack
=============================================================================
