------------------------------ MODULE FileProofs ------------------------------
(***************************************************************************)
(* Proofs about files: Filesys, for every set of names and contents, every *)
(* buffer size and every capacity of the disk; and FileTransfer, for every *)
(* group size, every number of tries and files of any length.              *)
(***************************************************************************)
EXTENDS Filesys, FileTransfer, TLAPS

(* The file being written does not count as complete.                      *)
SessionNotCompleted == ready /\ writing => fname \notin completed

(* A clean buffer is blank, also while a file is being written.            *)
CleanIsBlank == ready /\ ~dirty => buffer = Blank

IInv ==
  /\ TypeOK
  /\ SessionOnDisk
  /\ CleanOutsideSession
  /\ CleanIsBlank
  /\ CompletedHoldsContent
  /\ SessionNotCompleted

(* The cleared buffer is a buffer.                                         *)
LEMMA BlankType == Blank \in [1..BufferSize -> Byte]
BY BufferAssumption DEF Blank, Byte

(* What the caller may copy into the buffer is a sequence of bytes.        *)
LEMMA BoundedSeqType ==
  ASSUME NEW n \in Int, NEW data \in BoundedSeq(Byte, n)
  PROVE  data \in Seq(Byte)
<1>1. PICK m \in 0..n : data \in [1..m -> Byte]
  BY DEF BoundedSeq, SeqOf
<1> QED
  BY <1>1

(* The first bytes of the buffer are a sequence of bytes.                  *)
LEMMA BufferPart ==
  ASSUME TypeOK, NEW n \in 0..BufferSize
  PROVE  SubSeq(buffer, 1, n) \in Seq(Byte)
<1>1. buffer \in Seq(Byte) /\ Len(buffer) = BufferSize
  BY BufferAssumption DEF TypeOK
<1>2. \A i \in 1..n : buffer[i] \in Byte
  BY BufferAssumption DEF TypeOK
<1> QED
  BY <1>1, <1>2, BufferAssumption

(* Changing one field of a file.                                           *)
LEMMA FileUpdates ==
  ASSUME NEW f \in File
  PROVE  /\ \A c \in Contents : [f EXCEPT !.crc = c] \in File /\ [f EXCEPT !.crc = c].crc = c
         /\ \A s \in Seq(Byte) : /\ [f EXCEPT !.data = s] \in File
                                /\ [f EXCEPT !.data = s].crc = f.crc
                                /\ [f EXCEPT !.data = s].data = s
BY DEF File

(* Opening a file for writing leaves files on the disk.                    *)
LEMMA DiskTypes ==
  ASSUME TypeOK, NEW n \in Names, NEW c \in Contents
  PROVE  /\ Opened(n) \in [Names -> File \cup {NoFile}]
         /\ Marked(n, c) \in [Names -> File \cup {NoFile}]
         /\ Truncated(Opened(n), n) \in [Names -> File \cup {NoFile}]
         /\ Truncated(Marked(n, c), n) \in [Names -> File \cup {NoFile}]
         /\ Marked(n, c)[n] \in File /\ Marked(n, c)[n].crc = c
         /\ Truncated(Marked(n, c), n)[n] \in File
         /\ Truncated(Marked(n, c), n)[n].crc = c
         /\ \A m \in Names \ {n} :
              /\ Opened(n)[m] = disk[m]
              /\ Marked(n, c)[m] = disk[m]
              /\ Truncated(Opened(n), n)[m] = disk[m]
              /\ Truncated(Marked(n, c), n)[m] = disk[m]
<1> DEFINE Fresh == IF disk[n] = NoFile THEN [data |-> <<>>, crc |-> NoCrc] ELSE disk[n]
<1>1. disk \in [Names -> File \cup {NoFile}]
  BY DEF TypeOK
<1>2. Fresh \in File
  BY <1>1 DEF File
<1>3. Opened(n) \in [Names -> File \cup {NoFile}] /\ Opened(n)[n] \in File
      /\ \A m \in Names \ {n} : Opened(n)[m] = disk[m]
  BY <1>1, <1>2 DEF Opened
<1> HIDE DEF Fresh
<1>4. [Opened(n)[n] EXCEPT !.crc = c] \in File /\ [Opened(n)[n] EXCEPT !.crc = c].crc = c
  BY <1>3, FileUpdates
<1>5. Marked(n, c) \in [Names -> File \cup {NoFile}]
      /\ Marked(n, c)[n] \in File /\ Marked(n, c)[n].crc = c
      /\ \A m \in Names \ {n} : Marked(n, c)[m] = disk[m]
  <2>1. Marked(n, c)[n] = [Opened(n)[n] EXCEPT !.crc = c]
    BY <1>3 DEF Marked
  <2> QED
    BY <1>3, <1>4, <2>1 DEF Marked
<1>6. ASSUME NEW d \in [Names -> File \cup {NoFile}], d[n] \in File
      PROVE  /\ Truncated(d, n) \in [Names -> File \cup {NoFile}]
             /\ Truncated(d, n)[n] \in File
             /\ Truncated(d, n)[n].crc = d[n].crc
             /\ \A m \in Names \ {n} : Truncated(d, n)[m] = d[m]
  <2>1. Truncated(d, n)[n] = [d[n] EXCEPT !.data = <<>>]
    BY <1>6 DEF Truncated
  <2>2. [d[n] EXCEPT !.data = <<>>] \in File /\ [d[n] EXCEPT !.data = <<>>].crc = d[n].crc
    <3>1. <<>> \in Seq(Byte)
      OBVIOUS
    <3> QED
      BY <1>6, <3>1, FileUpdates
  <2> QED
    BY <1>6, <2>1, <2>2 DEF Truncated
<1> QED
  BY <1>3, <1>5, <1>6

(* A write that touches one file, which does not count as complete after   *)
(* it, leaves the other completed files alone.                             *)
LEMMA OthersUntouched ==
  ASSUME CompletedHoldsContent, NEW n,
         TypeOK,
         completed' \subseteq completed \ {n},
         \A m \in Names \ {n} : disk'[m] = disk[m]
  PROVE  CompletedHoldsContent'
BY DEF CompletedHoldsContent, TypeOK

(* The invariant holds before the file system is mounted.                  *)
LEMMA InitIInv == Init => IInv
<1> SUFFICES ASSUME Init PROVE IInv
  OBVIOUS
<1> USE DEF Init
<1>1. TypeOK
  BY BlankType DEF TypeOK, Empty
<1>2. SessionOnDisk /\ CleanOutsideSession /\ CleanIsBlank /\ SessionNotCompleted
  BY DEF SessionOnDisk, CleanOutsideSession, CleanIsBlank, SessionNotCompleted
<1>3. CompletedHoldsContent
  BY DEF CompletedHoldsContent
<1> QED
  BY <1>1, <1>2, <1>3 DEF IInv

(* Mounting and formatting, whether they succeed or not.                   *)
LEMMA MountStep == IInv /\ Mount => IInv'
<1> SUFFICES ASSUME IInv, Mount PROVE IInv'
  OBVIOUS
<1> USE DEF IInv
<1>1. CASE filesys_initialize
  <2> USE <1>1 DEF filesys_initialize, filesys_clear_buffer
  <2>1. TypeOK'
    BY BlankType DEF TypeOK
  <2>2. SessionOnDisk' /\ CleanOutsideSession' /\ CleanIsBlank' /\ SessionNotCompleted'
    BY DEF SessionOnDisk, CleanOutsideSession, CleanIsBlank, SessionNotCompleted, Blank
  <2>3. CompletedHoldsContent'
    BY DEF CompletedHoldsContent
  <2> QED
    BY <2>1, <2>2, <2>3
<1>2. CASE filesys_initialize_fails
  <2> USE <1>2 DEF filesys_initialize_fails, slate
  <2>1. TypeOK'
    BY DEF TypeOK
  <2>2. SessionOnDisk' /\ CleanOutsideSession' /\ CleanIsBlank' /\ SessionNotCompleted'
    BY DEF SessionOnDisk, CleanOutsideSession, CleanIsBlank, SessionNotCompleted
  <2>3. CompletedHoldsContent'
    BY DEF CompletedHoldsContent
  <2> QED
    BY <2>1, <2>2, <2>3
<1>3. CASE filesys_reformat_initialize
  <2> USE <1>3 DEF filesys_reformat_initialize, filesys_clear_buffer
  <2>1. TypeOK'
    BY BlankType DEF TypeOK, Empty
  <2>2. SessionOnDisk' /\ CleanOutsideSession' /\ CleanIsBlank' /\ SessionNotCompleted'
    BY DEF SessionOnDisk, CleanOutsideSession, CleanIsBlank, SessionNotCompleted, Blank
  <2>3. CompletedHoldsContent'
    BY DEF CompletedHoldsContent
  <2> QED
    BY <2>1, <2>2, <2>3
<1> QED
  BY <1>1, <1>2, <1>3 DEF Mount

(* Starting a write, with every failure on the way.                        *)
LEMMA StartStep ==
  ASSUME IInv, NEW n \in Names, NEW c \in Contents,
         filesys_start_file_write(n, c)
  PROVE  IInv'
<1> USE DEF IInv, filesys_start_file_write, filesys_clear_buffer
<1>1. disk' \in [Names -> File \cup {NoFile}] /\ completed' \subseteq completed
      /\ declared' \in Contents \cup {NoCrc} /\ writing' \in BOOLEAN
  <2>1. CASE UNCHANGED <<disk, writing, declared, completed>>
    BY <2>1 DEF TypeOK
  <2>2. CASE StartFails(n, c) /\ completed' = completed \ {n}
    <3>1. disk' \in [Names -> File \cup {NoFile}]
      BY <2>2, DiskTypes DEF StartFails
    <3> QED
      BY <2>2, <3>1 DEF TypeOK, StartFails
  <2>3. CASE StartSucceeds(n, c) /\ completed' = completed \ {n}
    <3>1. disk' \in [Names -> File \cup {NoFile}]
      BY <2>3, DiskTypes DEF StartSucceeds
    <3> QED
      BY <2>3, <3>1 DEF TypeOK, StartSucceeds
  <2> QED
    BY <2>1, <2>2, <2>3
<1>2. TypeOK'
  <2>1. buffer' \in [1..BufferSize -> Byte] /\ fname' \in Names
        /\ completed' \subseteq Names
    BY <1>1, BlankType DEF TypeOK
  <2>2. dirty' \in BOOLEAN /\ ready' \in BOOLEAN
    BY Zenon DEF TypeOK
  <2>3. cache' \in {"reader", "other"} /\ reader' \in Names \cup {NoName}
        /\ delivered' \in {"none", "own", "other"}
    BY DEF TypeOK, filesys_file_open
  <2> QED
    BY <1>1, <2>1, <2>2, <2>3 DEF TypeOK
<1>3. CASE UNCHANGED <<disk, writing, declared, completed>>
  <2>1. SessionOnDisk' /\ SessionNotCompleted'
    BY <1>3 DEF SessionOnDisk, SessionNotCompleted
  <2>2. CleanOutsideSession' /\ CleanIsBlank'
    BY <1>3 DEF CleanOutsideSession, CleanIsBlank, Blank
  <2>3. CompletedHoldsContent'
    BY <1>3 DEF CompletedHoldsContent
  <2> QED
    BY <1>2, <2>1, <2>2, <2>3
<1>4. CASE (StartFails(n, c) \/ StartSucceeds(n, c)) /\ completed' = completed \ {n}
  <2>1. \A m \in Names \ {n} : disk'[m] = disk[m]
    BY <1>4, DiskTypes DEF StartFails, StartSucceeds
  <2>2. CompletedHoldsContent'
    BY <1>4, <2>1, OthersUntouched
  <2>3. SessionOnDisk'
    <3>1. CASE StartFails(n, c)
      BY <3>1 DEF SessionOnDisk, StartFails
    <3>2. CASE StartSucceeds(n, c)
      <4>1. disk'[n] \in File /\ disk'[n].crc = c
        BY <3>2, DiskTypes DEF StartSucceeds
      <4>2. disk'[n] # NoFile
        BY <4>1, NothingAssumption
      <4> QED
        BY <3>2, <4>1, <4>2 DEF SessionOnDisk, StartSucceeds
    <3> QED
      BY <1>4, <3>1, <3>2
  <2>4. CleanOutsideSession' /\ CleanIsBlank'
    BY DEF CleanOutsideSession, CleanIsBlank, Blank
  <2>5. SessionNotCompleted'
    BY <1>4 DEF SessionNotCompleted
  <2> QED
    BY <1>2, <2>2, <2>3, <2>4, <2>5
<1> QED
  BY <1>3, <1>4

(* Copying data into the buffer.                                           *)
LEMMA BufferStep ==
  ASSUME IInv, NEW offset \in 0..BufferSize,
         NEW data \in BoundedSeq(Byte, BufferSize),
         filesys_write_data_to_buffer(data, offset)
  PROVE  IInv'
<1> USE DEF IInv, filesys_write_data_to_buffer, reading
<1>1. data \in Seq(Byte)
  BY BoundedSeqType, BufferAssumption
<1>2. buffer' \in [1..BufferSize -> Byte]
  <2>1. \A i \in 1..BufferSize :
          (IF i - offset \in 1..Len(data) THEN data[i - offset] ELSE buffer[i]) \in Byte
    BY <1>1 DEF TypeOK
  <2> QED
    BY <2>1
<1>3. TypeOK'
  BY <1>2 DEF TypeOK
<1>4. SessionOnDisk' /\ CleanOutsideSession' /\ CleanIsBlank' /\ SessionNotCompleted'
  BY DEF SessionOnDisk, CleanOutsideSession, CleanIsBlank, SessionNotCompleted
<1>5. CompletedHoldsContent'
  BY DEF CompletedHoldsContent
<1> QED
  BY <1>3, <1>4, <1>5

(* What cancelling does to the disk and the slate.                         *)
LEMMA CancelResult ==
  ASSUME IInv, ready, writing, Cancel, completed' = completed
  PROVE  /\ disk' \in [Names -> File \cup {NoFile}]
         /\ buffer' = Blank /\ buffer' \in [1..BufferSize -> Byte]
         /\ dirty' = FALSE /\ writing' = FALSE
         /\ CompletedHoldsContent'
<1>1. fname \in Names /\ fname \notin completed
  BY DEF IInv, SessionOnDisk, SessionNotCompleted
<1>2. disk' \in [Names -> File \cup {NoFile}]
      /\ \A m \in Names \ {fname} : disk'[m] = disk[m]
  BY <1>1 DEF IInv, TypeOK, Cancel
<1>3. CompletedHoldsContent'
  BY <1>1, <1>2, OthersUntouched DEF IInv
<1> QED
  BY <1>2, <1>3, BlankType DEF Cancel, filesys_clear_buffer

(* Cancelling the write.                                                   *)
LEMMA CancelStep == IInv /\ filesys_cancel_file_write => IInv'
<1> SUFFICES ASSUME IInv, filesys_cancel_file_write PROVE IInv'
  OBVIOUS
<1> USE DEF filesys_cancel_file_write
<1>1. /\ disk' \in [Names -> File \cup {NoFile}]
      /\ buffer' = Blank /\ buffer' \in [1..BufferSize -> Byte]
      /\ dirty' = FALSE /\ writing' = FALSE
      /\ CompletedHoldsContent'
  BY CancelResult
<1>2. TypeOK'
  BY <1>1 DEF IInv, TypeOK, reading
<1>3. SessionOnDisk' /\ CleanOutsideSession' /\ CleanIsBlank' /\ SessionNotCompleted'
  BY <1>1 DEF SessionOnDisk, CleanOutsideSession, CleanIsBlank, SessionNotCompleted, Blank
<1> QED
  BY <1>1, <1>2, <1>3 DEF IInv

(* Appending the buffer to the file, or failing to.                        *)
LEMMA WriteStep ==
  ASSUME IInv, NEW n_bytes \in 0..BufferSize,
         filesys_write_buffer_to_mram(n_bytes)
  PROVE  IInv'
<1> USE DEF filesys_write_buffer_to_mram
<1>1. fname \in Names /\ disk[fname] \in File /\ disk[fname].crc = declared
      /\ declared \in Contents /\ fname \notin completed
  BY DEF IInv, TypeOK, SessionOnDisk, SessionNotCompleted
<1>2. reader' \in Names \cup {NoName} /\ cache' \in {"reader", "other"}
      /\ delivered' \in {"none", "own", "other"}
  BY DEF IInv, TypeOK, filesys_file_open
<1>3. CASE AppendBuffer(n_bytes)
  <2> DEFINE grown == [disk[fname] EXCEPT !.data = @ \o SubSeq(buffer, 1, n_bytes)]
  <2>1. grown \in File /\ grown.crc = declared
    <3>1. SubSeq(buffer, 1, n_bytes) \in Seq(Byte)
      BY BufferPart DEF IInv
    <3>2. disk[fname].data \o SubSeq(buffer, 1, n_bytes) \in Seq(Byte)
      BY <1>1, <3>1 DEF File
    <3> QED
      BY <1>1, <3>2, FileUpdates
  <2> HIDE DEF grown
  <2>2. disk' = [disk EXCEPT ![fname] = grown]
    BY <1>3 DEF AppendBuffer, grown
  <2>3. disk' \in [Names -> File \cup {NoFile}] /\ disk'[fname] = grown
        /\ \A m \in Names \ {fname} : disk'[m] = disk[m]
    BY <1>1, <2>1, <2>2 DEF IInv, TypeOK
  <2>4. TypeOK'
    BY <1>2, <1>3, <2>3, BlankType
    DEF IInv, TypeOK, AppendBuffer, filesys_clear_buffer
  <2>5. SessionOnDisk' /\ SessionNotCompleted'
    BY <1>1, <1>3, <2>1, <2>3, NothingAssumption
    DEF SessionOnDisk, SessionNotCompleted, AppendBuffer
  <2>6. CleanOutsideSession' /\ CleanIsBlank'
    BY <1>3 DEF CleanOutsideSession, CleanIsBlank, AppendBuffer, filesys_clear_buffer, Blank
  <2>7. CompletedHoldsContent'
    BY <1>1, <2>3, OthersUntouched DEF IInv
  <2> QED
    BY <2>4, <2>5, <2>6, <2>7 DEF IInv
<1>4. CASE Cancel
  <2>1. /\ disk' \in [Names -> File \cup {NoFile}]
        /\ buffer' = Blank /\ buffer' \in [1..BufferSize -> Byte]
        /\ dirty' = FALSE /\ writing' = FALSE
        /\ CompletedHoldsContent'
    BY <1>4, CancelResult
  <2>2. TypeOK'
    BY <1>2, <1>4, <2>1 DEF IInv, TypeOK
  <2>3. SessionOnDisk' /\ CleanOutsideSession' /\ CleanIsBlank' /\ SessionNotCompleted'
    BY <2>1 DEF SessionOnDisk, CleanOutsideSession, CleanIsBlank, SessionNotCompleted, Blank
  <2> QED
    BY <2>1, <2>2, <2>3 DEF IInv
<1>5. CASE UNCHANGED <<disk, writing, dirty, buffer>>
  <2>1. TypeOK'
    BY <1>2, <1>5 DEF IInv, TypeOK
  <2>2. SessionOnDisk' /\ CleanOutsideSession' /\ CleanIsBlank' /\ SessionNotCompleted'
    BY <1>5 DEF IInv, SessionOnDisk, CleanOutsideSession, CleanIsBlank, SessionNotCompleted
  <2>3. CompletedHoldsContent'
    BY <1>5 DEF IInv, CompletedHoldsContent
  <2> QED
    BY <2>1, <2>2, <2>3 DEF IInv
<1> QED
  BY <1>3, <1>4, <1>5

(* Completing the write: this is where the content is checked.             *)
LEMMA CompleteStep == IInv /\ filesys_complete_file_write => IInv'
<1> SUFFICES ASSUME IInv, filesys_complete_file_write PROVE IInv'
  OBVIOUS
<1> USE DEF IInv, filesys_complete_file_write
<1>1. fname \in Names /\ disk[fname] # NoFile /\ declared \in Contents
      /\ disk[fname].crc = declared
  BY DEF SessionOnDisk
<1>2. IsPrefix(declared, disk[fname].data)
  <2>1. disk[fname] \in File /\ disk[fname].data \in Seq(Byte) /\ declared \in Seq(Byte)
    BY <1>1, ContentsAssumption DEF TypeOK, File
  <2>2. Len(declared) <= Len(disk[fname].data)
        /\ SubSeq(disk[fname].data, 1, Len(declared)) = declared
    BY <1>1, NothingAssumption DEF filesys_is_crc_correct, filesys_compute_file_crc
  <2>3. SubSeq(declared, 1, Len(declared)) = declared
    BY <2>1
  <2> QED
    BY <2>2, <2>3 DEF IsPrefix
<1>3. TypeOK'
  BY <1>1 DEF TypeOK, filesys_file_open
<1>4. CompletedHoldsContent'
  BY <1>1, <1>2 DEF CompletedHoldsContent
<1>5. SessionOnDisk' /\ CleanOutsideSession' /\ CleanIsBlank' /\ SessionNotCompleted'
  <2>1. buffer = Blank
    BY DEF CleanOutsideSession, CleanIsBlank
  <2> QED
    BY <2>1 DEF SessionOnDisk, CleanOutsideSession, CleanIsBlank, SessionNotCompleted
<1> QED
  BY <1>3, <1>4, <1>5

(* Reading changes nothing that the invariant is about.                    *)
LEMMA ReadStep == IInv /\ Read => IInv'
<1> SUFFICES ASSUME IInv, Read PROVE IInv'
  OBVIOUS
<1>1. UNCHANGED <<disk, ready, writing, dirty, buffer, fname, declared, completed>>
  BY DEF Read, CheckFile, filesys_open_file_read, filesys_read_data,
         filesys_close_file_read, slate
<1>2. reader' \in Names \cup {NoName} /\ cache' \in {"reader", "other"}
      /\ delivered' \in {"none", "own", "other"}
  BY DEF IInv, TypeOK, Read, CheckFile, filesys_open_file_read, filesys_read_data,
         filesys_close_file_read, slate, filesys_file_open
<1>3. TypeOK'
  BY <1>1, <1>2 DEF IInv, TypeOK
<1>4. SessionOnDisk' /\ CleanOutsideSession' /\ CleanIsBlank' /\ SessionNotCompleted'
  BY <1>1 DEF IInv, SessionOnDisk, CleanOutsideSession, CleanIsBlank, SessionNotCompleted
<1>5. CompletedHoldsContent'
  BY <1>1 DEF IInv, CompletedHoldsContent
<1> QED
  BY <1>3, <1>4, <1>5 DEF IInv

(* The power goes, between two calls or in the middle of starting a write. *)
LEMMA PowerStep ==
  ASSUME IInv,
         PowerLoss \/ \E n \in Names, c \in Contents : PowerLossStarting(n, c)
  PROVE  IInv'
<1>1. disk' \in [Names -> File \cup {NoFile}] /\ completed' \subseteq Names
      /\ CompletedHoldsContent'
  <2>1. CASE PowerLoss
    BY <2>1 DEF IInv, TypeOK, PowerLoss, CompletedHoldsContent
  <2>2. ASSUME NEW n \in Names, NEW c \in Contents, PowerLossStarting(n, c)
        PROVE  disk' \in [Names -> File \cup {NoFile}] /\ completed' \subseteq Names
               /\ CompletedHoldsContent'
    <3>1. disk' \in [Names -> File \cup {NoFile}] /\ completed' \subseteq completed \ {n}
          /\ \A m \in Names \ {n} : disk'[m] = disk[m]
      BY <2>2, DiskTypes DEF IInv, PowerLossStarting
    <3>2. CompletedHoldsContent'
      BY <3>1, OthersUntouched DEF IInv
    <3> QED
      BY <3>1, <3>2 DEF IInv, TypeOK
  <2> QED
    BY <2>1, <2>2
<1>2. Reset
  BY DEF PowerLoss, PowerLossStarting
<1>3. TypeOK'
  BY <1>1, <1>2, BlankType DEF TypeOK, Reset
<1>4. SessionOnDisk' /\ CleanOutsideSession' /\ CleanIsBlank' /\ SessionNotCompleted'
  BY <1>2 DEF Reset, SessionOnDisk, CleanOutsideSession, CleanIsBlank, SessionNotCompleted
<1> QED
  BY <1>1, <1>3, <1>4 DEF IInv

(* Clearing the buffer.                                                    *)
LEMMA ClearStep == IInv /\ ClearBuffer => IInv'
<1> SUFFICES ASSUME IInv, ClearBuffer PROVE IInv'
  OBVIOUS
<1> USE DEF IInv, ClearBuffer, filesys_clear_buffer, reading
<1>1. TypeOK'
  BY BlankType DEF TypeOK
<1>2. SessionOnDisk' /\ CleanOutsideSession' /\ CleanIsBlank' /\ SessionNotCompleted'
  BY DEF SessionOnDisk, CleanOutsideSession, CleanIsBlank, SessionNotCompleted, Blank
<1>3. CompletedHoldsContent'
  BY DEF CompletedHoldsContent
<1> QED
  BY <1>1, <1>2, <1>3

(* Every step preserves the invariant.                                     *)
LEMMA NextIInv == IInv /\ [Next]_vars => IInv'
<1> SUFFICES ASSUME IInv, [Next]_vars PROVE IInv'
  OBVIOUS
<1>1. CASE Write
  <2>1. CASE \E n \in Names, c \in Contents : filesys_start_file_write(n, c)
    BY <2>1, StartStep
  <2>2. CASE \E offset \in 0..BufferSize, data \in BoundedSeq(Byte, BufferSize) :
               filesys_write_data_to_buffer(data, offset)
    BY <2>2, BufferStep
  <2>3. CASE \E n_bytes \in 0..BufferSize : filesys_write_buffer_to_mram(n_bytes)
    BY <2>3, WriteStep
  <2> QED
    BY <1>1, <2>1, <2>2, <2>3, CompleteStep, CancelStep, ClearStep DEF Write
<1>2. CASE UNCHANGED vars
  <2>1. TypeOK'
    BY <1>2 DEF IInv, vars, slate, reading, TypeOK
  <2>2. SessionOnDisk' /\ CleanOutsideSession' /\ CleanIsBlank' /\ SessionNotCompleted'
    BY <1>2 DEF IInv, vars, slate, reading, SessionOnDisk, CleanOutsideSession, CleanIsBlank,
                SessionNotCompleted
  <2>3. CompletedHoldsContent'
    BY <1>2 DEF IInv, vars, CompletedHoldsContent
  <2> QED
    BY <2>1, <2>2, <2>3 DEF IInv
<1> QED
  BY <1>1, <1>2, MountStep, ReadStep, PowerStep DEF Next

-----------------------------------------------------------------------------

(* The strengthened invariant holds in every reachable state.              *)
LEMMA Invariance == Spec => []IInv
BY InitIInv, NextIInv, PTL DEF Spec

(* The slate, the disk and the history keep their types.                   *)
THEOREM TypeCorrect == Spec => []TypeOK
<1>1. IInv => TypeOK
  BY DEF IInv
<1> QED
  BY <1>1, Invariance, PTL

(* While a file is being written it is on the disk with the CRC that the   *)
(* slate holds.                                                            *)
THEOREM SessionHolds == Spec => []SessionOnDisk
<1>1. IInv => SessionOnDisk
  BY DEF IInv
<1> QED
  BY <1>1, Invariance, PTL

(* No byte of one session reaches the next one through the buffer.         *)
THEOREM BufferIsClean == Spec => []CleanOutsideSession
<1>1. IInv => CleanOutsideSession
  BY DEF IInv
<1> QED
  BY <1>1, Invariance, PTL

(* A completed file begins with what its caller declared, until it is      *)
(* written again or the disk is formatted.                                 *)
THEOREM CompletedFilesHold == Spec => []CompletedHoldsContent
<1>1. IInv => CompletedHoldsContent
  BY DEF IInv
<1> QED
  BY <1>1, Invariance, PTL

(* An append keeps the bytes that are there.                               *)
LEMMA GrownPrefix ==
  ASSUME NEW s \in Seq(Byte), NEW t \in Seq(Byte)
  PROVE  IsPrefix(s, s \o t)
<1>1. Len(s) <= Len(s \o t)
  OBVIOUS
<1>2. SubSeq(s, 1, Len(s)) = SubSeq(s \o t, 1, Len(s))
  OBVIOUS
<1> QED
  BY <1>1, <1>2 DEF IsPrefix

(* A step either keeps the session's file as it is, or appends to it, or   *)
(* there is no session before or after it.                                 *)
LEMMA StepAppends ==
  ASSUME IInv, Next, ready, ready', writing, writing'
  PROVE  fname' = fname /\ IsPrefix(disk[fname].data, disk'[fname].data)
<1>1. fname \in Names /\ disk[fname] \in File /\ disk[fname].data \in Seq(Byte)
  BY DEF IInv, SessionOnDisk, TypeOK, File
<1>2. IsPrefix(disk[fname].data, disk[fname].data)
  BY <1>1 DEF IsPrefix
<1>3. CASE Mount
  BY <1>3 DEF Mount, filesys_initialize, filesys_initialize_fails,
              filesys_reformat_initialize
<1>4. CASE Read
  BY <1>2, <1>4 DEF Read, CheckFile, filesys_open_file_read, filesys_read_data,
              filesys_close_file_read, slate
<1>5. CASE PowerLoss \/ \E n \in Names, c \in Contents : PowerLossStarting(n, c)
  BY <1>5 DEF PowerLoss, PowerLossStarting, Reset
<1>6. CASE \E n_bytes \in 0..BufferSize : filesys_write_buffer_to_mram(n_bytes)
  <2>1. PICK n_bytes \in 0..BufferSize : filesys_write_buffer_to_mram(n_bytes)
    BY <1>6
  <2>2. CASE AppendBuffer(n_bytes)
    <3>1. disk'[fname].data = disk[fname].data \o SubSeq(buffer, 1, n_bytes)
      <4>1. disk'[fname] = [disk[fname] EXCEPT !.data = @ \o SubSeq(buffer, 1, n_bytes)]
        BY <1>1, <2>2 DEF AppendBuffer, IInv, TypeOK
      <4>2. disk[fname].data \o SubSeq(buffer, 1, n_bytes) \in Seq(Byte)
        BY <1>1, BufferPart DEF IInv
      <4> QED
        BY <1>1, <4>1, <4>2, FileUpdates, SMTT(60)
    <3>2. SubSeq(buffer, 1, n_bytes) \in Seq(Byte)
      BY BufferPart DEF IInv
    <3>3. IsPrefix(disk[fname].data, disk'[fname].data)
      BY <1>1, <3>1, <3>2, GrownPrefix
    <3> QED
      BY <2>1, <3>3 DEF filesys_write_buffer_to_mram
  <2>3. CASE ~AppendBuffer(n_bytes)
    BY <1>2, <2>1, <2>3 DEF filesys_write_buffer_to_mram, Cancel
  <2> QED
    BY <2>2, <2>3
<1>7. CASE Write /\ ~\E n_bytes \in 0..BufferSize : filesys_write_buffer_to_mram(n_bytes)
  BY <1>2, <1>7 DEF Write, filesys_start_file_write, filesys_write_data_to_buffer,
              filesys_complete_file_write, filesys_cancel_file_write, Cancel,
              ClearBuffer
<1> QED
  BY <1>3, <1>4, <1>5, <1>6, <1>7 DEF Next

(* What a session has written stays in front of what it adds.              *)
THEOREM SessionOnlyAppends == Spec => SessionAppends
<1>1. IInv /\ [Next]_vars =>
        [writing /\ writing' /\ ready /\ ready' => fname' = fname
           /\ IsPrefix(disk[fname].data, disk'[fname].data)]_vars
  BY StepAppends
<1> QED
  BY <1>1, Invariance, PTL DEF Spec, SessionAppends

-----------------------------------------------------------------------------
(* File transfer.                                                          *)

Busy == {"receive", "answer"}

(* The end of the group the receiver works on.                             *)
GroupEnd == receiver.group_start + GROUP_SIZE

(* What the receiver knows of its group: it has the packets before the end *)
(* that it does not miss, except perhaps packet 0, and no packet from      *)
(* beyond the end of the file.                                             *)
WindowInv ==
  /\ receiver.at = "num" => receiver.group_start = 0 /\ ~receiver.last
  /\ receiver.at \in Busy =>
       /\ receiver.num_packets \in {packets, Huge}
       /\ \A q \in 1..(packets - 1) :
            q < GroupEnd => q \in written \/ q \in receiver.missing_packets
       /\ \A q \in receiver.missing_packets : q < GroupEnd
       /\ receiver.num_packets = Huge =>
            \A q \in receiver.group_start..(GroupEnd - 1) :
              1 <= q /\ packets <= q => q \in receiver.missing_packets
       /\ receiver.num_packets = packets => receiver.group_start < packets

(* The last packet of the file.                                            *)
LastInv ==
  receiver.at \in Busy =>
    /\ receiver.last => receiver.num_packets = packets /\ packets <= GroupEnd
    /\ receiver.num_packets = packets /\ 1 < packets /\ packets <= GroupEnd =>
         receiver.last \/ packets - 1 \in receiver.missing_packets

(* The receiver is never behind the sender: its groups are the sender's or *)
(* later ones.                                                             *)
NotBehind ==
  /\ receiver.at \in {"num"} \cup Busy =>
       /\ receiver.group_start % GROUP_SIZE = 0
       /\ sender.at = "data" => sender.seq < GroupEnd
       /\ sender.at \in {"ask", "answer", "resend"} =>
            sender.seq <= GroupEnd /\ (sender.final => packets <= sender.seq)
       /\ sender.at = "resend" => \A q \in sender.resend : q < GroupEnd
  /\ sender.at = "data" => sender.seq < packets
  /\ sender.at = "resend" => receiver.at # "num"

TransferInv ==
  /\ TransferTypeOK /\ WindowInv /\ LastInv /\ NotBehind
  /\ OnlyFirstMayBeMissing /\ RaisesOnlyOnTinyFiles

-----------------------------------------------------------------------------
(* Arithmetic of groups.                                                   *)

(* The end of a group that starts at a multiple of its size is one too.    *)
LEMMA NextMultiple ==
  ASSUME NEW a \in Nat, a % GROUP_SIZE = 0
  PROVE  (a + GROUP_SIZE) % GROUP_SIZE = 0
<1> DEFINE G == GROUP_SIZE
           x == a \div G
           y == (a + G) \div G
           r == (a + G) % G
<1>1. G \in Nat /\ G > 0
  BY ProtocolAssumption
<1>2. x \in Nat /\ y \in Nat /\ r \in Nat /\ r < G
  BY <1>1, Z3
<1>3. a = G * x
  BY <1>1, Z3
<1>4. a + G = G * y + r
  BY <1>1, Z3
<1>5. r = G * (x + 1 - y)
  BY <1>1, <1>2, <1>3, <1>4, Z3
<1>6. x + 1 - y <= 0 \/ x + 1 - y >= 1
  BY <1>2
<1>7. CASE x + 1 - y >= 1
  BY <1>1, <1>2, <1>5, <1>7, Z3
<1>8. CASE x + 1 - y <= 0
  BY <1>1, <1>2, <1>5, <1>8, Z3
<1> QED
  BY <1>6, <1>7, <1>8

LEMMA Sizes ==
  /\ GROUP_SIZE \in Nat /\ GROUP_SIZE > 0
  /\ Huge \in Nat /\ MaxPackets \in Nat /\ MaxPackets + GROUP_SIZE < Huge
BY ProtocolAssumption, MaxPacketsAssumption DEF Huge

-----------------------------------------------------------------------------
(* The receiver's records.                                                 *)

(* A group that begins is complete in what it misses, and no packet of a   *)
(* non-empty one lies beyond its end.                                      *)
LEMMA GroupBegun ==
  ASSUME NEW r \in Receiver, NEW start \in Nat
  PROVE  LET g == BeginGroup(r, start)
         IN /\ g \in Receiver
            /\ g.at \in {"receive", "exception"}
            /\ g.num_packets = r.num_packets /\ g.last = r.last /\ g.group_start = start
            /\ g.at = "receive" <=> start < r.num_packets
            /\ \A q \in Nat : q \in g.missing_packets <=>
                 start <= q /\ q < start + GROUP_SIZE /\ q < r.num_packets
<1> DEFINE group == Group(start, r.num_packets)
<1>1. r.num_packets \in Nat
  BY DEF Receiver
<1>2. \A q \in Nat : q \in group <=> start <= q /\ q < start + GROUP_SIZE /\ q < r.num_packets
  BY <1>1, Sizes DEF Group, Upto
<1>3. group \subseteq Nat
  BY <1>1, Sizes DEF Group, Upto
<1>4. group # {} <=> start < r.num_packets
  <2>1. start < r.num_packets => start \in group
    BY <1>1, <1>2, Sizes
  <2>2. ASSUME NEW q \in group PROVE start < r.num_packets
    BY <1>1, <1>2, <1>3
  <2> QED
    BY <2>1, <2>2
<1> HIDE DEF group
<1>5. ASSUME NEW a \in {"receive", "exception"}
      PROVE  LET h == [r EXCEPT !.at = a, !.group_start = start, !.missing_packets = group]
             IN /\ h \in Receiver /\ h.at = a /\ h.num_packets = r.num_packets
                /\ h.last = r.last /\ h.group_start = start /\ h.missing_packets = group
  BY <1>3 DEF Receiver
<1>6. CASE group = {}
  <2>1. BeginGroup(r, start)
          = [r EXCEPT !.at = "exception", !.group_start = start, !.missing_packets = group]
    BY <1>6 DEF BeginGroup, group
  <2> QED
    BY <1>2, <1>4, <1>5, <1>6, <2>1
<1>7. CASE group # {}
  <2>1. BeginGroup(r, start)
          = [r EXCEPT !.at = "receive", !.group_start = start, !.missing_packets = group]
    BY <1>7 DEF BeginGroup, group
  <2> QED
    BY <1>2, <1>4, <1>5, <1>7, <2>1
<1> QED
  BY <1>6, <1>7

(* What a good packet does to the receiver before it is looked at.         *)
LEMMA GoodPacket ==
  ASSUME TransferTypeOK, NEW q \in Nat
  PROVE  /\ Good(q) \in Receiver
         /\ Good(q).at = receiver.at /\ Good(q).num_packets = receiver.num_packets
         /\ Good(q).group_start = receiver.group_start /\ Good(q).last = receiver.last
         /\ Good(q).missing_packets = receiver.missing_packets \ {q}
<1>1. /\ receiver \in Receiver /\ 0 \in 0..MAX_BAD_PACKETS - 1
      /\ receiver.missing_packets \ {q} \in SUBSET Nat
  BY ProtocolAssumption DEF TransferTypeOK, Receiver
<1>2. Good(q) = [receiver EXCEPT !.bad = 0, !.missing_packets = receiver.missing_packets \ {q}]
  BY DEF Good
<1>3. Good(q) \in Receiver
  BY <1>1, <1>2 DEF Receiver
<1> QED
  BY <1>1, <1>2, <1>3 DEF Receiver

(* What a receiver that moves on changes.                                  *)
LEMMA AtChanged ==
  ASSUME NEW r \in Receiver, NEW a \in {"answer", "failure", "complete", "receive"}
  PROVE  /\ [r EXCEPT !.at = a] \in Receiver
         /\ [r EXCEPT !.at = a].at = a
         /\ [r EXCEPT !.at = a].num_packets = r.num_packets
         /\ [r EXCEPT !.at = a].group_start = r.group_start
         /\ [r EXCEPT !.at = a].last = r.last
         /\ [r EXCEPT !.at = a].missing_packets = r.missing_packets
BY DEF Receiver

LEMMA LastChanged ==
  ASSUME NEW r \in Receiver, NEW b \in BOOLEAN
  PROVE  /\ [r EXCEPT !.last = b] \in Receiver
         /\ [r EXCEPT !.last = b].last = b
         /\ [r EXCEPT !.last = b].at = r.at
         /\ [r EXCEPT !.last = b].num_packets = r.num_packets
         /\ [r EXCEPT !.last = b].group_start = r.group_start
         /\ [r EXCEPT !.last = b].missing_packets = r.missing_packets
BY DEF Receiver

LEMMA NumberChanged ==
  ASSUME NEW r \in Receiver, NEW n \in Nat
  PROVE  /\ [r EXCEPT !.num_packets = n] \in Receiver
         /\ [r EXCEPT !.num_packets = n].num_packets = n
         /\ [r EXCEPT !.num_packets = n].last = r.last
BY DEF Receiver

(* What every packet leaves of the receiver.                               *)
Received ==
  /\ receiver' \in Receiver
  /\ written \subseteq written' /\ written' \subseteq Nat
  /\ WindowInv' /\ LastInv'
  /\ receiver'.at = "num" => receiver.at = "num"
  /\ receiver'.at \in {"num"} \cup Busy =>
       receiver.at \in {"num"} \cup Busy /\ receiver'.group_start = receiver.group_start
  /\ receiver'.at = "complete" => receiver.at = "complete"
  /\ receiver'.at = "exception" => receiver.at = "exception" \/ packets <= 1

LEMMA NothingReceived ==
  ASSUME TransferInv, UNCHANGED <<receiver, written, packets>>
  PROVE  Received
BY DEF Received, TransferInv, TransferTypeOK, WindowInv, LastInv, GroupEnd

LEMMA NumberReceived ==
  ASSUME TransferInv, NEW n \in {packets, Huge}, ReceiveNumber(n), UNCHANGED packets
  PROVE  Received
<1> USE DEF TransferInv
<1> DEFINE r == [receiver EXCEPT !.num_packets = n]
<1>1. receiver \in Receiver /\ n \in Nat /\ packets \in Nat /\ packets <= MaxPackets
  BY Sizes DEF TransferTypeOK
<1>2. r \in Receiver /\ r.num_packets = n /\ r.last = receiver.last
  BY <1>1, NumberChanged
<1> HIDE DEF r
<1>3. /\ receiver.at = "num" /\ receiver' = BeginGroup(r, 0) /\ written' = written
  BY DEF ReceiveNumber, r
<1>4. receiver.group_start = 0 /\ ~receiver.last
  BY <1>3 DEF WindowInv
<1>5. /\ receiver' \in Receiver
      /\ receiver'.at \in {"receive", "exception"}
      /\ receiver'.num_packets = n /\ ~receiver'.last /\ receiver'.group_start = 0
      /\ receiver'.at = "receive" <=> 0 < n
      /\ \A q \in Nat : q \in receiver'.missing_packets <=>
           0 <= q /\ q < GROUP_SIZE /\ q < n
  <2>1. LET g == BeginGroup(r, 0)
         IN /\ g \in Receiver
            /\ g.at \in {"receive", "exception"}
            /\ g.num_packets = n /\ g.last = receiver.last /\ g.group_start = 0
            /\ g.at = "receive" <=> 0 < n
            /\ \A q \in Nat : q \in g.missing_packets <=>
                 0 <= q /\ q < 0 + GROUP_SIZE /\ q < n
    BY <1>2, GroupBegun
  <2>2. 0 + GROUP_SIZE = GROUP_SIZE
    BY Sizes
  <2> QED
    BY <1>3, <1>4, <2>1, <2>2
<1>6. GroupEnd' = GROUP_SIZE
  BY <1>5, Sizes DEF GroupEnd
<1>7. receiver'.missing_packets \subseteq Nat
  BY <1>5 DEF Receiver
<1>8. WindowInv'
  <2>1. \A q \in 1..(packets - 1) : q \in Nat /\ q < packets
    BY <1>1
  <2>2. \A q \in 1..(packets - 1) : q < GROUP_SIZE => q \in receiver'.missing_packets
    BY <1>1, <1>5, <2>1, Sizes
  <2>3. \A q \in receiver'.missing_packets : q < GROUP_SIZE
    BY <1>5, <1>7
  <2>4. n = Huge => \A q \in 0..(GROUP_SIZE - 1) : q \in receiver'.missing_packets
    BY <1>5, Sizes
  <2>5. n = packets /\ receiver'.at = "receive" => 0 < packets
    BY <1>5
  <2> QED
    BY <1>5, <1>6, <2>2, <2>3, <2>4, <2>5 DEF WindowInv, Busy
<1>9. LastInv'
  <2>1. 1 < packets /\ packets <= GROUP_SIZE /\ n = packets =>
          packets - 1 \in receiver'.missing_packets
    BY <1>1, <1>5, Sizes
  <2> QED
    BY <1>5, <1>6, <2>1 DEF LastInv
<1>10. receiver'.at = "exception" => packets <= 1
  BY <1>1, <1>5, Sizes
<1> QED
  BY <1>3, <1>4, <1>5, <1>8, <1>9, <1>10 DEF Received, TransferTypeOK

LEMMA DataReceived ==
  ASSUME TransferInv, NEW q \in Nat, q < packets, receiver.at = "receive" => q < GroupEnd,
         DeliverOther(ReceiveData(q)), UNCHANGED packets
  PROVE  Received
<1> USE DEF TransferInv
<1>1. CASE UNCHANGED <<receiver, written>>
  BY <1>1, NothingReceived
<1>2. CASE ReceiveNumber(Huge)
  BY <1>2, NumberReceived
<1>3. CASE ReceiveData(q)
  <2> DEFINE b == receiver.last \/ q = receiver.num_packets - 1
  <2>1. receiver.at = "receive" /\ receiver' = [Good(q) EXCEPT !.last = Good(q).last \/ q = receiver.num_packets - 1]
        /\ written' = written \cup {q}
    BY <1>3 DEF ReceiveData
  <2>2. /\ Good(q) \in Receiver
        /\ Good(q).at = receiver.at /\ Good(q).num_packets = receiver.num_packets
        /\ Good(q).group_start = receiver.group_start /\ Good(q).last = receiver.last
        /\ Good(q).missing_packets = receiver.missing_packets \ {q}
    BY GoodPacket
  <2>3. b \in BOOLEAN
    BY DEF TransferTypeOK, Receiver
  <2>4. receiver' = [Good(q) EXCEPT !.last = b]
    BY <2>1, <2>2
  <2> HIDE DEF b
  <2>5. /\ receiver' \in Receiver /\ receiver'.last = b /\ receiver'.at = "receive"
        /\ receiver'.num_packets = receiver.num_packets
        /\ receiver'.group_start = receiver.group_start
        /\ receiver'.missing_packets = receiver.missing_packets \ {q}
    <3>1. /\ receiver' \in Receiver /\ receiver'.last = b /\ receiver'.at = Good(q).at
          /\ receiver'.num_packets = Good(q).num_packets
          /\ receiver'.group_start = Good(q).group_start
          /\ receiver'.missing_packets = Good(q).missing_packets
      BY Zenon, <2>2, <2>3, <2>4, LastChanged
    <3> QED
      BY Zenon, <2>1, <2>2, <3>1
  <2>6. GroupEnd' = GroupEnd /\ GroupEnd \in Nat /\ packets \in Nat /\ packets <= MaxPackets
    BY <2>5, Sizes DEF GroupEnd, TransferTypeOK, Receiver
  <2>7. WindowInv'
    BY <2>1, <2>5, <2>6 DEF WindowInv, Busy
  <2>8. LastInv'
    <3>1. ASSUME b PROVE receiver.num_packets = packets /\ packets <= GroupEnd
      <4>1. CASE receiver.last
        BY <2>1, <4>1 DEF LastInv, Busy
      <4>2. CASE q = receiver.num_packets - 1
        BY <2>1, <2>6, <4>2, Sizes DEF WindowInv, Busy
      <4> QED
        BY <3>1, <4>1, <4>2 DEF b
    <3>2. receiver.num_packets = packets /\ 1 < packets /\ packets <= GroupEnd =>
            b \/ packets - 1 \in receiver.missing_packets \ {q}
      BY <2>1, <2>6 DEF LastInv, Busy, b
    <3> QED
      BY <2>5, <2>6, <3>1, <3>2 DEF LastInv
  <2> QED
    BY <2>1, <2>5, <2>7, <2>8 DEF Received, TransferTypeOK, Busy
<1> QED
  BY <1>1, <1>2, <1>3 DEF DeliverOther, Deliver

(* SEND_ACK and ABORT take packet 0 off the missing ones; nothing that is  *)
(* promised speaks of packet 0.                                            *)
LEMMA CommandReceived ==
  ASSUME TransferInv, DeliverOther(ReceiveSendAck) \/ DeliverOther(ReceiveAbort), UNCHANGED packets
  PROVE  Received
<1> USE DEF TransferInv
<1>1. CASE UNCHANGED <<receiver, written>>
  BY <1>1, NothingReceived
<1>2. CASE ReceiveNumber(Huge)
  BY <1>2, NumberReceived
<1>3. CASE ReceiveSendAck \/ ReceiveAbort
  <2>1. PICK a \in {"answer", "failure"} :
          receiver.at = "receive" /\ receiver' = [Good(0) EXCEPT !.at = a] /\ written' = written
    BY <1>3 DEF ReceiveSendAck, ReceiveAbort
  <2>2. /\ Good(0) \in Receiver
        /\ Good(0).at = receiver.at /\ Good(0).num_packets = receiver.num_packets
        /\ Good(0).group_start = receiver.group_start /\ Good(0).last = receiver.last
        /\ Good(0).missing_packets = receiver.missing_packets \ {0}
    BY GoodPacket
  <2>3. /\ receiver' \in Receiver /\ receiver'.at = a /\ receiver'.last = receiver.last
        /\ receiver'.num_packets = receiver.num_packets
        /\ receiver'.group_start = receiver.group_start
        /\ receiver'.missing_packets = receiver.missing_packets \ {0}
    <3>1. /\ receiver' \in Receiver /\ receiver'.at = a /\ receiver'.last = Good(0).last
          /\ receiver'.num_packets = Good(0).num_packets
          /\ receiver'.group_start = Good(0).group_start
          /\ receiver'.missing_packets = Good(0).missing_packets
      <4>1. a \in {"answer", "failure", "complete", "receive"}
        OBVIOUS
      <4> QED
        BY Zenon, <2>1, <2>2, <4>1, AtChanged
    <3> QED
      BY Zenon, <2>2, <3>1
  <2>4. GroupEnd' = GroupEnd /\ GroupEnd \in Nat /\ packets \in Nat /\ receiver.group_start \in Nat
    BY <2>3, Sizes DEF GroupEnd, TransferTypeOK, Receiver
  <2>5. WindowInv'
    BY <2>1, <2>3, <2>4 DEF WindowInv, Busy
  <2>6. LastInv'
    BY <2>1, <2>3, <2>4 DEF LastInv, Busy
  <2> QED
    BY <2>1, <2>3, <2>5, <2>6 DEF Received, TransferTypeOK, Busy
<1> QED
  BY <1>1, <1>2, <1>3 DEF DeliverOther, Deliver

-----------------------------------------------------------------------------
(* The sender's records.                                                   *)

LEMMA SeqChanged ==
  ASSUME NEW s \in Sender, NEW n \in Nat
  PROVE  /\ [s EXCEPT !.seq = n] \in Sender
         /\ [s EXCEPT !.seq = n].seq = n
         /\ [s EXCEPT !.at = "data", !.seq = n] \in Sender
         /\ [s EXCEPT !.at = "data", !.seq = n].at = "data"
         /\ [s EXCEPT !.at = "data", !.seq = n].seq = n
BY DEF Sender

LEMMA AskFacts ==
  ASSUME NEW s \in Sender
  PROVE  /\ Ask(s, TRUE) \in Sender /\ Ask(s, TRUE).at = "ask" /\ Ask(s, TRUE).seq = s.seq
         /\ Ask(s, FALSE) \in Sender /\ Ask(s, FALSE).at = "ask" /\ Ask(s, FALSE).seq = s.seq
         /\ ~Ask(s, FALSE).final
<1>1. 0 \in 0..MAX_RESEND_CYCLES - 1 /\ 0 \in 0..MAX_ACK_RETRIES - 1
  BY ProtocolAssumption
<1>2. Ask(s, TRUE) \in Sender /\ Ask(s, TRUE).at = "ask" /\ Ask(s, TRUE).seq = s.seq
  BY <1>1 DEF Ask, Sender
<1>3. Ask(s, FALSE) \in Sender /\ Ask(s, FALSE).at = "ask" /\ Ask(s, FALSE).seq = s.seq
      /\ ~Ask(s, FALSE).final
  BY <1>1 DEF Ask, Sender
<1> QED
  BY <1>2, <1>3

LEMMA ContinueFacts ==
  ASSUME NEW s \in Sender, NEW n \in Nat
  PROVE  /\ Continue(s, n) \in Sender /\ Continue(s, n).seq = n
         /\ Continue(s, n).at \in {"data", "ask"}
         /\ Continue(s, n).at = "data" => n < packets
         /\ Continue(s, n).at = "ask" => ~(n < packets)
<1>1. CASE n < packets
  <2>1. Continue(s, n) = [s EXCEPT !.at = "data", !.seq = n]
    BY <1>1 DEF Continue
  <2>2. /\ [s EXCEPT !.at = "data", !.seq = n] \in Sender
        /\ [s EXCEPT !.at = "data", !.seq = n].at = "data"
        /\ [s EXCEPT !.at = "data", !.seq = n].seq = n
    BY SeqChanged
  <2> QED
    BY <1>1, <2>1, <2>2
<1>2. CASE ~(n < packets)
  <2>1. Continue(s, n) = Ask([s EXCEPT !.seq = n], TRUE)
    BY <1>2 DEF Continue
  <2>2. [s EXCEPT !.seq = n] \in Sender /\ [s EXCEPT !.seq = n].seq = n
    BY SeqChanged
  <2>3. /\ Ask([s EXCEPT !.seq = n], TRUE) \in Sender
        /\ Ask([s EXCEPT !.seq = n], TRUE).at = "ask"
        /\ Ask([s EXCEPT !.seq = n], TRUE).seq = [s EXCEPT !.seq = n].seq
    BY Zenon, <2>2, AskFacts
  <2> QED
    BY <1>2, <2>1, <2>2, <2>3
<1> QED
  BY <1>1, <1>2

(* Where the sender may go while the receiver takes a packet, or none.     *)
Placed ==
  /\ sender' \in Sender
  /\ receiver.at \in {"num"} \cup Busy =>
       /\ sender'.at = "data" => sender'.seq < GroupEnd
       /\ sender'.at \in {"ask", "answer", "resend"} =>
            sender'.seq <= GroupEnd /\ (sender'.final => packets <= sender'.seq)
       /\ sender'.at = "resend" => \A q \in sender'.resend : q < GroupEnd
  /\ sender'.at = "data" => sender'.seq < packets
  /\ sender'.at = "resend" => sender.at = "resend"
  /\ sender'.at # "success"

LEMMA SenderStep ==
  ASSUME TransferInv, Received, Placed, UNCHANGED <<packets, short>>
  PROVE  TransferInv'
<1> USE DEF TransferInv
<1>1. TransferTypeOK'
  <2>1. packets' \in 0..MaxPackets /\ short' \in BOOLEAN
    BY DEF TransferTypeOK
  <2> QED
    BY <2>1 DEF TransferTypeOK, Received, Placed
<1>2. WindowInv' /\ LastInv'
  BY DEF Received
<1>3. receiver'.at \in {"num"} \cup Busy =>
        receiver.at \in {"num"} \cup Busy /\ receiver'.group_start = receiver.group_start
        /\ GroupEnd' = GroupEnd
  BY DEF Received, GroupEnd
<1>4. NotBehind'
  BY <1>3 DEF NotBehind, Placed, Received
<1>5. OnlyFirstMayBeMissing'
  BY DEF OnlyFirstMayBeMissing, Received, Placed
<1>6. RaisesOnlyOnTinyFiles'
  BY DEF RaisesOnlyOnTinyFiles, Received
<1> QED
  BY <1>1, <1>2, <1>4, <1>5, <1>6

-----------------------------------------------------------------------------
(* The steps of send_file.                                                 *)

LEMMA NumberSent ==
  ASSUME TransferInv, SendNumber, UNCHANGED <<packets, short>>
  PROVE  TransferInv'
<1>1. Received
  <2>1. Deliver(ReceiveNumber(packets))
    BY DEF SendNumber
  <2> QED
    BY <2>1, NumberReceived, NothingReceived DEF Deliver
<1>2. Placed
  <2>1. sender \in Sender /\ sender' = Continue(sender, 0) /\ packets \in Nat
    BY DEF SendNumber, TransferInv, TransferTypeOK
  <2>2. /\ sender' \in Sender /\ sender'.seq = 0
        /\ sender'.at \in {"data", "ask"}
        /\ sender'.at = "data" => 0 < packets
        /\ sender'.at = "ask" => ~(0 < packets)
    BY <2>1, ContinueFacts
  <2>3. GroupEnd \in Nat /\ 0 < GroupEnd
    BY Sizes DEF GroupEnd, TransferInv, TransferTypeOK, Receiver
  <2> QED
    BY <2>1, <2>2, <2>3 DEF Placed
<1> QED
  BY <1>1, <1>2, SenderStep

LEMMA DataSent ==
  ASSUME TransferInv, SendData, UNCHANGED <<packets, short>>
  PROVE  TransferInv'
<1> DEFINE n == sender.seq + 1
<1>1. /\ sender \in Sender /\ sender.at = "data" /\ sender.seq \in Nat /\ n \in Nat
      /\ packets \in Nat /\ GroupEnd \in Nat /\ receiver.group_start \in Nat
  BY Sizes DEF SendData, TransferInv, TransferTypeOK, Sender, Receiver, GroupEnd
<1>2. sender.seq < packets /\ (receiver.at \in {"num"} \cup Busy => sender.seq < GroupEnd)
  BY <1>1 DEF TransferInv, NotBehind
<1>3. Received
  <2>1. DeliverOther(ReceiveData(sender.seq))
    BY DEF SendData
  <2> QED
    BY <1>1, <1>2, <2>1, DataReceived DEF Busy
<1>4. CASE ~IsShort(sender.seq) /\ n % GROUP_SIZE = 0
  <2>1. sender' = Ask([sender EXCEPT !.seq = n], FALSE)
    BY <1>4 DEF SendData
  <2>2. [sender EXCEPT !.seq = n] \in Sender /\ [sender EXCEPT !.seq = n].seq = n
    BY <1>1, SeqChanged
  <2>3. /\ sender' \in Sender /\ sender'.at = "ask" /\ ~sender'.final
        /\ sender'.seq = [sender EXCEPT !.seq = n].seq
    BY Zenon, <2>1, <2>2, AskFacts
  <2>4. Placed
    BY <1>1, <1>2, <2>2, <2>3 DEF Placed
  <2> QED
    BY <1>3, <2>4, SenderStep
<1>5. CASE ~(~IsShort(sender.seq) /\ n % GROUP_SIZE = 0)
  <2>1. sender' = Continue(sender, n)
    BY <1>5 DEF SendData
  <2>2. /\ sender' \in Sender /\ sender'.seq = n
        /\ sender'.at \in {"data", "ask"}
        /\ sender'.at = "data" => n < packets
        /\ sender'.at = "ask" => ~(n < packets)
    BY <1>1, <2>1, ContinueFacts
  <2>3. ASSUME receiver.at \in {"num"} \cup Busy, n < packets PROVE n < GroupEnd
    <3>1. n % GROUP_SIZE # 0
      BY <1>1, <1>5, <2>3 DEF IsShort
    <3>2. GroupEnd % GROUP_SIZE = 0
      BY <1>1, <2>3, NextMultiple DEF TransferInv, NotBehind, GroupEnd
    <3>3. n # GroupEnd
      BY <3>1, <3>2
    <3> QED
      BY <1>1, <1>2, <2>3, <3>3
  <2>4. Placed
    BY <1>1, <1>2, <2>2, <2>3 DEF Placed
  <2> QED
    BY <1>3, <2>4, SenderStep
<1> QED
  BY <1>4, <1>5

LEMMA AskedOrAborted ==
  ASSUME TransferInv, SendAck \/ NoAnswer \/ SendAbort, UNCHANGED <<packets, short>>
  PROVE  TransferInv'
<1>1. Received
  <2>1. DeliverOther(ReceiveSendAck) \/ DeliverOther(ReceiveAbort) \/ UNCHANGED <<receiver, written>>
    BY DEF SendAck, NoAnswer, SendAbort
  <2> QED
    BY <2>1, CommandReceived, NothingReceived
<1>2. sender \in Sender
  BY DEF TransferInv, TransferTypeOK
<1>3. /\ sender' \in Sender /\ sender'.at \in {"ask", "answer", "abort", "failure"}
      /\ sender'.at \in {"ask", "answer"} =>
           /\ sender.at \in {"ask", "answer"}
           /\ sender'.seq = sender.seq /\ (sender'.final => sender.final)
  <2>1. CASE SendAck
    BY <1>2, <2>1 DEF SendAck, Sender
  <2>2. CASE NoAnswer /\ sender.tries + 1 = MAX_ACK_RETRIES
    BY <1>2, <2>2 DEF NoAnswer, Sender
  <2>3. CASE NoAnswer /\ sender.tries + 1 # MAX_ACK_RETRIES
    <3>1. sender.tries + 1 \in 0..MAX_ACK_RETRIES - 1
      BY <1>2, <2>3, ProtocolAssumption DEF Sender
    <3>2. sender' = [sender EXCEPT !.at = "ask", !.tries = sender.tries + 1]
      BY <2>3 DEF NoAnswer
    <3> QED
      BY <1>2, <2>3, <3>1, <3>2 DEF NoAnswer, Sender
  <2>4. CASE SendAbort
    BY <1>2, <2>4 DEF SendAbort, Sender
  <2> QED
    BY <2>1, <2>2, <2>3, <2>4
<1>4. Placed
  BY <1>3 DEF Placed, TransferInv, NotBehind
<1> QED
  BY <1>1, <1>4, SenderStep

LEMMA ResendStep ==
  ASSUME TransferInv, Resend, UNCHANGED <<packets, short>>
  PROVE  TransferInv'
<1> USE DEF TransferInv
<1>1. sender \in Sender /\ sender.at = "resend"
  BY DEF TransferTypeOK, Resend
<1>2. PICK q \in sender.resend :
        LET rest == sender.resend \ {q}
        IN \/ /\ sender' = [sender EXCEPT !.at = "exception"]
              /\ UNCHANGED <<receiver, written>>
           \/ /\ q < packets
              /\ DeliverOther(ReceiveData(q))
              /\ sender' = IF rest = {} THEN Resent ELSE [sender EXCEPT !.resend = rest]
  BY DEF Resend
<1>3. q \in Nat
  BY <1>1 DEF Sender
<1>4. CASE sender' = [sender EXCEPT !.at = "exception"] /\ UNCHANGED <<receiver, written>>
  <2>1. sender' \in Sender /\ sender'.at = "exception"
    BY <1>1, <1>4 DEF Sender
  <2>2. Placed
    BY <2>1 DEF Placed
  <2> QED
    BY <1>4, <2>2, NothingReceived, SenderStep
<1>5. CASE /\ q < packets
           /\ DeliverOther(ReceiveData(q))
           /\ sender' \in {Resent, [sender EXCEPT !.resend = sender.resend \ {q}]}
  <2>1. receiver.at = "receive" => q < GroupEnd
    BY <1>1 DEF NotBehind, Busy
  <2>2. Received
    BY <1>3, <1>5, <2>1, DataReceived
  <2>3. /\ sender' \in Sender
        /\ \/ sender'.at = "abort"
           \/ sender'.at = "ask" /\ sender'.seq = sender.seq /\ (sender'.final => sender.final)
           \/ /\ sender'.at = "resend" /\ sender'.seq = sender.seq
              /\ (sender'.final => sender.final) /\ sender'.resend \subseteq sender.resend
    <3>1. CASE sender' = [sender EXCEPT !.resend = sender.resend \ {q}]
      <4>1. sender.resend \ {q} \in SUBSET Nat
        BY <1>1 DEF Sender
      <4> QED
        BY <1>1, <3>1, <4>1 DEF Sender
    <3>2. CASE sender' = Resent /\ sender.cycle + 1 = MAX_RESEND_CYCLES
      BY <1>1, <3>2 DEF Sender, Resent
    <3>3. CASE sender' = Resent /\ sender.cycle + 1 # MAX_RESEND_CYCLES
      <4>1. sender.cycle + 1 \in 0..MAX_RESEND_CYCLES - 1 /\ 0 \in 0..MAX_ACK_RETRIES - 1
        BY <1>1, <3>3, ProtocolAssumption DEF Sender
      <4>2. sender' = [sender EXCEPT !.at = "ask", !.cycle = sender.cycle + 1, !.tries = 0,
                                     !.resend = {}]
        BY <3>3 DEF Resent
      <4> QED
        BY <1>1, <4>1, <4>2 DEF Sender
    <3> QED
      BY <1>5, <3>1, <3>2, <3>3
  <2>4. Placed
    BY <1>1, <2>3 DEF Placed, NotBehind
  <2> QED
    BY <2>2, <2>4, SenderStep
<1> QED
  BY <1>2, <1>4, <1>5

-----------------------------------------------------------------------------
(* The steps of receive_file.                                              *)

LEMMA BadPacketStep ==
  ASSUME TransferInv, BadPacket
  PROVE  TransferInv'
<1> USE DEF TransferInv
<1>1. receiver \in Receiver /\ receiver.at \in {"num", "receive"}
      /\ UNCHANGED <<packets, short, sender, written>>
  BY DEF TransferTypeOK, BadPacket
<1>2. /\ receiver' \in Receiver
      /\ \/ receiver'.at = "failure"
         \/ /\ receiver'.at = receiver.at /\ receiver'.num_packets = receiver.num_packets
            /\ receiver'.missing_packets = receiver.missing_packets
            /\ receiver'.group_start = receiver.group_start
            /\ receiver'.last = receiver.last
  <2>1. CASE receiver' = [receiver EXCEPT !.at = "failure"]
    BY <1>1, <2>1 DEF Receiver
  <2>2. CASE receiver' = [receiver EXCEPT !.bad = receiver.bad + 1]
             /\ receiver.bad + 1 # MAX_BAD_PACKETS
    <3>1. receiver.bad + 1 \in 0..MAX_BAD_PACKETS - 1
      BY <1>1, <2>2, ProtocolAssumption DEF Receiver
    <3> QED
      BY <1>1, <2>2, <3>1 DEF Receiver
  <2> QED
    BY <1>1, <2>1, <2>2 DEF BadPacket
<1>3. TransferTypeOK'
  BY <1>1, <1>2 DEF TransferTypeOK
<1>4. WindowInv' /\ LastInv' /\ NotBehind'
  BY <1>1, <1>2 DEF WindowInv, LastInv, NotBehind, GroupEnd, Busy
<1>5. OnlyFirstMayBeMissing' /\ RaisesOnlyOnTinyFiles'
  BY <1>1, <1>2 DEF OnlyFirstMayBeMissing, RaisesOnlyOnTinyFiles
<1> QED
  BY <1>3, <1>4, <1>5

(* What the sender makes of an answer it hears, or does not hear.          *)
LEMMA Hearing ==
  ASSUME TransferInv, SendMissing
  PROVE  /\ sender' \in Sender
         /\ \/ UNCHANGED sender
            \/ /\ sender.at = "answer" /\ receiver.missing_packets # {}
               /\ sender'.at = "resend" /\ sender'.resend = receiver.missing_packets
               /\ sender'.seq = sender.seq /\ (sender'.final => sender.final)
            \/ /\ sender.at = "answer" /\ receiver.missing_packets = {}
               /\ \/ sender.final /\ sender'.at = "success"
                  \/ /\ sender'.seq = sender.seq /\ sender'.at \in {"data", "ask"}
                     /\ sender'.at = "data" => sender.seq < packets
                     /\ sender'.at = "ask" => ~(sender.seq < packets)
<1>1. sender \in Sender /\ sender.seq \in Nat /\ receiver.missing_packets \in SUBSET Nat
  BY DEF TransferInv, TransferTypeOK, Sender, Receiver
<1>2. UNCHANGED sender \/ (sender.at = "answer" /\ sender' = Hears(receiver.missing_packets))
  BY DEF SendMissing
<1>3. CASE UNCHANGED sender
  BY <1>1, <1>3
<1>4. CASE sender' = Hears(receiver.missing_packets) /\ receiver.missing_packets # {}
  <2>1. sender' = [sender EXCEPT !.at = "resend", !.resend = receiver.missing_packets]
    BY <1>4 DEF Hears
  <2> QED
    BY <1>1, <1>2, <1>3, <1>4, <2>1 DEF Sender
<1>5. CASE sender' = Hears(receiver.missing_packets) /\ receiver.missing_packets = {}
  <2>1. CASE sender.final
    <3>1. sender' = [sender EXCEPT !.at = "success"]
      BY <1>5, <2>1 DEF Hears
    <3>2. sender' \in Sender /\ sender'.at = "success"
      BY <1>1, <3>1 DEF Sender
    <3> QED
      BY <1>2, <1>3, <1>5, <2>1, <3>2
  <2>2. CASE ~sender.final
    <3>1. sender' = Continue(sender, sender.seq)
      BY <1>5, <2>2 DEF Hears
    <3> QED
      BY <1>1, <1>2, <1>3, <1>5, <3>1, ContinueFacts
  <2> QED
    BY <2>1, <2>2
<1> QED
  BY <1>2, <1>3, <1>4, <1>5

(* An answer that misses nothing closes the group, and with the last group *)
(* the file.                                                               *)
LEMMA GroupClosed ==
  ASSUME TransferInv, receiver.at = "answer", receiver.missing_packets = {}, packets <= GroupEnd
  PROVE  1..(packets - 1) \subseteq written
<1>1. packets \in Nat /\ GroupEnd \in Nat
  BY Sizes DEF TransferInv, TransferTypeOK, Receiver, GroupEnd
<1> QED
  BY <1>1 DEF TransferInv, WindowInv, Busy

LEMMA AnswerStep ==
  ASSUME TransferInv, SendMissing
  PROVE  TransferInv'
<1> USE DEF TransferInv
<1>1. /\ receiver \in Receiver /\ receiver.at = "answer" /\ receiver' = Answered
      /\ UNCHANGED <<packets, short, written>>
      /\ packets \in Nat /\ packets <= MaxPackets
      /\ receiver.group_start \in Nat /\ GroupEnd \in Nat
  BY Sizes DEF TransferTypeOK, SendMissing, Receiver, GroupEnd
<1>2. sender.seq \in Nat /\ sender \in Sender
  BY DEF TransferTypeOK, Sender
<1>3. sender'.at = "success" => sender.at = "success" \/
        (sender.final /\ sender.at = "answer" /\ receiver.missing_packets = {})
  BY Hearing
<1>4. OnlyFirstMayBeMissing' \/ receiver'.at = "complete"
  <2>1. CASE sender'.at = "success" /\ sender.at # "success"
    <3>1. packets <= GroupEnd
      BY <1>1, <1>2, <1>3, <2>1 DEF NotBehind, Busy
    <3> QED
      BY <1>1, <1>3, <2>1, <3>1, GroupClosed DEF OnlyFirstMayBeMissing
  <2>2. CASE ~(sender'.at = "success" /\ sender.at # "success")
    BY <1>1, <2>2 DEF OnlyFirstMayBeMissing
  <2> QED
    BY <2>1, <2>2
<1>5. CASE receiver.missing_packets # {}
  <2>1. receiver' = [receiver EXCEPT !.at = "receive"]
    BY <1>1, <1>5 DEF Answered
  <2>2. /\ receiver' \in Receiver /\ receiver'.at = "receive"
        /\ receiver'.num_packets = receiver.num_packets
        /\ receiver'.missing_packets = receiver.missing_packets
        /\ receiver'.group_start = receiver.group_start
        /\ receiver'.last = receiver.last
    BY <1>1, <2>1 DEF Receiver
  <2>3. TransferTypeOK'
    BY <1>1, <2>2, Hearing DEF TransferTypeOK
  <2>4. WindowInv' /\ LastInv'
    BY <1>1, <2>2 DEF WindowInv, LastInv, GroupEnd, Busy
  <2>5. \A q \in receiver.missing_packets : q < GroupEnd
    BY <1>1 DEF WindowInv, Busy
  <2>6. GroupEnd' = GroupEnd
    BY <2>2 DEF GroupEnd
  <2>7. NotBehind'
    BY <1>1, <1>5, <2>2, <2>5, <2>6, Hearing DEF NotBehind, Busy
  <2>8. RaisesOnlyOnTinyFiles'
    BY <2>2 DEF RaisesOnlyOnTinyFiles
  <2> QED
    BY <1>4, <2>2, <2>3, <2>4, <2>7, <2>8
<1>6. CASE receiver.missing_packets = {} /\ receiver.last
  <2>1. receiver' = [receiver EXCEPT !.at = "complete"]
    BY <1>1, <1>6 DEF Answered
  <2>2. receiver' \in Receiver /\ receiver'.at = "complete"
    BY <1>1, <2>1 DEF Receiver
  <2>3. TransferTypeOK'
    BY <1>1, <2>2, Hearing DEF TransferTypeOK
  <2>4. WindowInv' /\ LastInv'
    BY <2>2 DEF WindowInv, LastInv, Busy
  <2>5. NotBehind'
    BY <1>1, <1>6, <2>2, Hearing DEF NotBehind, Busy
  <2>6. 1..(packets - 1) \subseteq written
    BY <1>1, <1>6, GroupClosed DEF LastInv, Busy
  <2>7. OnlyFirstMayBeMissing' /\ RaisesOnlyOnTinyFiles'
    BY <1>1, <2>2, <2>6 DEF OnlyFirstMayBeMissing, RaisesOnlyOnTinyFiles
  <2> QED
    BY <2>3, <2>4, <2>5, <2>7
<1>7. CASE receiver.missing_packets = {} /\ ~receiver.last
  <2>1. receiver' = BeginGroup(receiver, GroupEnd)
    BY <1>1, <1>7 DEF Answered, GroupEnd
  <2>2. /\ receiver' \in Receiver
        /\ receiver'.at \in {"receive", "exception"}
        /\ receiver'.num_packets = receiver.num_packets /\ receiver'.last = receiver.last
        /\ receiver'.group_start = GroupEnd
        /\ receiver'.at = "receive" <=> GroupEnd < receiver.num_packets
        /\ \A q \in Nat : q \in receiver'.missing_packets <=>
             GroupEnd <= q /\ q < GroupEnd + GROUP_SIZE /\ q < receiver.num_packets
    <3>1. LET g == BeginGroup(receiver, GroupEnd)
          IN /\ g \in Receiver
             /\ g.at \in {"receive", "exception"}
             /\ g.num_packets = receiver.num_packets /\ g.last = receiver.last
             /\ g.group_start = GroupEnd
             /\ g.at = "receive" <=> GroupEnd < receiver.num_packets
             /\ \A q \in Nat : q \in g.missing_packets <=>
                  GroupEnd <= q /\ q < GroupEnd + GROUP_SIZE /\ q < receiver.num_packets
      BY <1>1, GroupBegun, ZenonT(60)
    <3> QED
      BY <2>1, <3>1
  <2>3. GroupEnd' = GroupEnd + GROUP_SIZE /\ GroupEnd < GroupEnd'
    BY <1>1, <2>2, Sizes DEF GroupEnd
  <2>4. TransferTypeOK'
    BY <1>1, <2>2, Hearing DEF TransferTypeOK
  <2>5. receiver.num_packets \in {packets, Huge} /\ receiver'.missing_packets \subseteq Nat
    BY <1>1, <2>2 DEF WindowInv, Busy, Receiver
  <2>6. receiver.num_packets = Huge => GroupEnd <= packets \/ GroupEnd <= 1
    <3>1. CASE receiver.num_packets = Huge /\ GroupEnd > packets /\ GroupEnd > 1
      <4>1. GroupEnd - 1 \in receiver.group_start..(GroupEnd - 1)
        BY <1>1, Sizes DEF GroupEnd
      <4>2. GroupEnd - 1 \in receiver.missing_packets
        BY <1>1, <3>1, <4>1 DEF WindowInv, Busy
      <4> QED
        BY <1>7, <4>2
    <3> QED
      BY <1>1, <3>1
  <2>7. RaisesOnlyOnTinyFiles'
    <3>1. ASSUME receiver'.at = "exception" PROVE packets <= 1
      <4>1. receiver.num_packets <= GroupEnd
        BY <1>1, <2>2, <2>5, <3>1, Sizes
      <4>2. receiver.num_packets # Huge
        BY <1>1, <2>6, <4>1, Sizes
      <4> QED
        BY <1>1, <1>7, <2>5, <4>1, <4>2 DEF LastInv, Busy
    <3> QED
      BY <1>1, <3>1 DEF RaisesOnlyOnTinyFiles
  <2>8. WindowInv'
    <3>1. \A q \in 1..(packets - 1) : q < GroupEnd => q \in written
      BY <1>1, <1>7 DEF WindowInv, Busy
    <3>2. \A q \in 1..(packets - 1) : q \in Nat /\ (q < GroupEnd \/ GroupEnd <= q) /\ q < packets
      BY <1>1
    <3>3. packets <= receiver.num_packets
      BY <1>1, <2>5, Sizes
    <3>4. \A q \in 1..(packets - 1) :
            q < GroupEnd' => q \in written \/ q \in receiver'.missing_packets
      BY <1>1, <2>2, <2>3, <2>5, <3>1, <3>2, <3>3, Sizes
    <3>5. \A q \in receiver'.missing_packets : q < GroupEnd'
      BY <2>2, <2>3, <2>5
    <3>6. receiver.num_packets = Huge =>
            \A q \in GroupEnd..(GroupEnd' - 1) : 1 <= q /\ packets <= q => q \in receiver'.missing_packets
      <4>1. receiver.num_packets = Huge => GroupEnd + GROUP_SIZE <= Huge
        BY <1>1, <2>6, Sizes, MaxPacketsAssumption, ProtocolAssumption DEF Huge
      <4> QED
        BY <1>1, <2>2, <2>3, <4>1, Sizes
    <3> QED
      BY <1>1, <2>2, <2>5, <3>4, <3>5, <3>6 DEF WindowInv, Busy
  <2>9. LastInv'
    <3>1. GroupEnd < packets /\ packets <= GroupEnd' /\ receiver.num_packets = packets =>
            packets - 1 \in receiver'.missing_packets
      BY <1>1, <2>2, <2>3, Sizes
    <3> QED
      BY <1>1, <1>7, <2>2, <3>1 DEF LastInv, Busy
  <2>10. NotBehind'
    <3>1. GroupEnd % GROUP_SIZE = 0
      BY <1>1, NextMultiple DEF NotBehind, GroupEnd, Busy
    <3>a. /\ sender.at = "data" => sender.seq < GroupEnd /\ sender.seq < packets
          /\ sender.at \in {"ask", "answer", "resend"} =>
               sender.seq <= GroupEnd /\ (sender.final => packets <= sender.seq)
      BY <1>1, <1>2 DEF NotBehind, Busy
    <3>b. /\ sender.seq \in Nat /\ packets \in Nat
          /\ GroupEnd \in Nat /\ GroupEnd' \in Nat /\ GroupEnd < GroupEnd'
      BY <1>1, <1>2, <2>3, Sizes
    <3>c. sender \in Sender /\ sender.final \in BOOLEAN
      BY <1>1 DEF TransferInv, TransferTypeOK, Sender
    <3>2. sender'.at = "data" => sender'.seq < GroupEnd' /\ sender'.seq < packets
      <4>1. CASE UNCHANGED sender
        BY <3>a, <3>b, <3>c, <4>1
      <4>2. CASE /\ sender.at = "answer" /\ sender'.seq = sender.seq
                 /\ sender'.at = "data" => sender.seq < packets
        BY <3>a, <3>b, <3>c, <4>2
      <4> QED
        BY <1>7, <4>1, <4>2, Hearing
    <3>3. sender'.at \in {"ask", "answer", "resend"} =>
            sender'.seq <= GroupEnd' /\ (sender'.final => packets <= sender'.seq)
      <4>1. CASE UNCHANGED sender
        BY <3>a, <3>b, <3>c, <4>1
      <4>2. CASE /\ sender.at = "answer" /\ sender'.seq = sender.seq
                 /\ sender'.at = "ask" => ~(sender.seq < packets)
                 /\ sender'.at \in {"data", "ask"}
        BY <3>a, <3>b, <3>c, <4>2
      <4> QED
        BY <1>7, <4>1, <4>2, Hearing
    <3>4. sender'.at = "resend" => UNCHANGED sender
      BY <1>7, Hearing
    <3>5. sender'.at = "resend" => \A q \in sender'.resend : q \in Nat /\ q < GroupEnd'
      BY <1>1, <1>2, <2>3, <3>4 DEF NotBehind, Busy, Sender
    <3> QED
      BY <1>1, <2>2, <3>1, <3>2, <3>3, <3>5 DEF NotBehind
  <2> QED
    BY <1>4, <2>2, <2>4, <2>7, <2>8, <2>9, <2>10
<1> QED
  BY <1>5, <1>6, <1>7

-----------------------------------------------------------------------------
(* The invariant.                                                          *)

LEMMA TransferInitInv == TransferInit => TransferInv
<1> SUFFICES ASSUME TransferInit PROVE TransferInv
  OBVIOUS
<1>1. sender \in Sender /\ receiver \in Receiver
  <2>1. /\ 0 \in 0..MAX_RESEND_CYCLES - 1 /\ 0 \in 0..MAX_ACK_RETRIES - 1
        /\ 0 \in 0..MAX_BAD_PACKETS - 1
    BY ProtocolAssumption
  <2> QED
    BY <2>1 DEF TransferInit, Sender, Receiver
<1>2. TransferTypeOK
  BY <1>1 DEF TransferInit, TransferTypeOK
<1>3. 0 % GROUP_SIZE = 0
  BY Sizes
<1>4. WindowInv /\ LastInv /\ NotBehind
  BY <1>3 DEF TransferInit, WindowInv, LastInv, NotBehind, Busy
<1>5. OnlyFirstMayBeMissing /\ RaisesOnlyOnTinyFiles
  BY DEF TransferInit, OnlyFirstMayBeMissing, RaisesOnlyOnTinyFiles
<1> QED
  BY <1>2, <1>4, <1>5 DEF TransferInv

LEMMA TransferNextInv == TransferInv /\ [TransferNext]_transferVars => TransferInv'
<1> SUFFICES ASSUME TransferInv, [TransferNext]_transferVars PROVE TransferInv'
  OBVIOUS
<1>1. CASE send_file
  BY <1>1, NumberSent, DataSent, AskedOrAborted, ResendStep DEF send_file
<1>2. CASE receive_file
  BY <1>2, BadPacketStep, AnswerStep DEF receive_file
<1>3. CASE UNCHANGED transferVars
  BY <1>3 DEF transferVars, TransferInv, TransferTypeOK, WindowInv, LastInv, NotBehind, GroupEnd,
              OnlyFirstMayBeMissing, RaisesOnlyOnTinyFiles
<1> QED
  BY <1>1, <1>2, <1>3 DEF TransferNext

LEMMA TransferInvariance == TransferSpec => []TransferInv
BY TransferInitInv, TransferNextInv, PTL DEF TransferSpec

(* Both sides keep their types, and no count of receive_file or send_file  *)
(* passes its limit.                                                       *)
THEOREM TransferTypeCorrect == TransferSpec => []TransferTypeOK
<1>1. TransferInv => TransferTypeOK
  BY DEF TransferInv
<1> QED
  BY <1>1, TransferInvariance, PTL

(* What receive_file or send_file calls a success has every packet but     *)
(* perhaps the first, whatever packets and answers are lost, when data     *)
(* taken for the number of packets exceeds any file.                       *)
THEOREM CompletedButForTheFirst == TransferSpec => []OnlyFirstMayBeMissing
<1>1. TransferInv => OnlyFirstMayBeMissing
  BY DEF TransferInv
<1> QED
  BY <1>1, TransferInvariance, PTL

(* receive_file asks for the first packet of an empty group only for a     *)
(* file of at most one packet, when data taken for the number of packets   *)
(* exceeds any file.                                                       *)
THEOREM LargerFilesDoNotRaise == TransferSpec => []RaisesOnlyOnTinyFiles
<1>1. TransferInv => RaisesOnlyOnTinyFiles
  BY DEF TransferInv
<1> QED
  BY <1>1, TransferInvariance, PTL
=============================================================================
