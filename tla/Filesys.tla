------------------------------- MODULE Filesys -------------------------------
(***************************************************************************)
(* The file layer over littlefs (src/filesys/filesys.c): one buffered      *)
(* write at a time, checked against the CRC its caller declares before it  *)
(* counts as complete, and reading with the CRC checked at the opening.    *)
(* Its calls come one after the other; every littlefs operation in one of  *)
(* them may fail, and the power may go in the middle of                    *)
(* filesys_start_file_write.                                               *)
(*                                                                         *)
(* littlefs is external: the entry of a new file is on disk when open      *)
(* returns, an attribute when lfs_setattr does, truncation and appended    *)
(* data when close does, and each of these either happens or does not.     *)
(*                                                                         *)
(* A CRC stands for the data it was computed from: two different contents  *)
(* are taken to have different CRCs.  A call that fails and leaves all of  *)
(* this state alone is a stuttering step and has no action.                *)
(***************************************************************************)
EXTENDS Integers, Sequences, SequencesExt

CONSTANTS
  Names,        \* FILESYS_BUFFERED_FNAME_STR_T
  Contents,     \* the files that callers declare
  BufferSize,   \* FILESYS_BUFFER_SIZE
  MaxFileLen,   \* bound of the model: the space on the disk, per file
  NoName, NoFile, NoCrc

Byte == 0..1
File == [data : Seq(Byte), crc : Contents \cup {NoCrc}]

ASSUME BufferAssumption == BufferSize \in Nat \ {0}
ASSUME ContentsAssumption == Contents \subseteq Seq(Byte)
ASSUME NothingAssumption == NoName \notin Names /\ NoFile \notin File /\ NoCrc \notin Contents

VARIABLES
  disk,       \* what littlefs holds, by name
  ready,      \* the last (re)initialization succeeded: the API may be used
  writing,    \* slate->filesys_is_writing_file
  dirty,      \* slate->filesys_buffer_is_dirty
  buffer,     \* slate->filesys_buffer
  fname,      \* slate->filesys_buffered_fname_str
  declared,   \* the content filesys_buffered_file_len and _file_crc are of
  reader,     \* the file whose lfs_file_t a caller holds
  cache,      \* whose data cache_buffer, which all open files share, holds
  delivered,  \* where the bytes of the last filesys_read_data came from
  \* History, read by no action:
  completed   \* files whose write completed, not written or erased since

slate == <<writing, dirty, buffer, fname, declared>>
reading == <<reader, cache, delivered>>
vars == <<disk, ready, slate, reading, completed>>

Blank == [i \in 1..BufferSize |-> 0]
Empty == [n \in Names |-> NoFile]

Init ==
  /\ disk = Empty
  /\ ready = FALSE
  /\ writing = FALSE
  /\ dirty = FALSE
  /\ buffer = Blank
  /\ fname = NoName
  /\ declared = NoCrc
  /\ reader = NoName
  /\ cache = "other"
  /\ delivered = "none"
  /\ completed = {}

filesys_clear_buffer == buffer' = Blank /\ dirty' = FALSE

(* lfs_file_opencfg clears the cache it is given, so that opening any file *)
(* takes cache_buffer from the file a caller reads.                        *)
filesys_file_open == cache' = "other" /\ UNCHANGED <<reader, delivered>>

-----------------------------------------------------------------------------
(* Mounting.                                                               *)

(* Mounting forgets every file that was open.                              *)
filesys_initialize ==
  /\ filesys_clear_buffer
  /\ writing' = FALSE
  /\ ready' = TRUE
  /\ reader' = NoName
  /\ UNCHANGED <<disk, fname, declared, cache, delivered, completed>>

filesys_initialize_fails ==
  /\ ready' = FALSE
  /\ reader' = NoName
  /\ UNCHANGED <<disk, slate, cache, delivered, completed>>

(* Either half may fail; formatting that fails has wiped the disk or not.  *)
filesys_reformat_initialize ==
  /\ \/ /\ disk' = Empty
        /\ \/ filesys_clear_buffer /\ writing' = FALSE /\ ready' = TRUE
           \/ UNCHANGED <<writing, dirty, buffer>> /\ ready' = FALSE
     \/ UNCHANGED <<disk, writing, dirty, buffer>> /\ ready' = FALSE
  /\ reader' = NoName
  /\ completed' = {}
  /\ UNCHANGED <<fname, declared, cache, delivered>>

-----------------------------------------------------------------------------
(* Writing.                                                                *)

(* The disk after open, lfs_setattr and close of filesys_start_file_write. *)
Opened(n) == [disk EXCEPT ![n] = IF @ = NoFile THEN [data |-> <<>>, crc |-> NoCrc] ELSE @]
Marked(n, c) == [Opened(n) EXCEPT ![n].crc = c]
Truncated(d, n) == [d EXCEPT ![n].data = <<>>]

(* The attribute cannot be set, and the close may fail as well; or only    *)
(* the close fails.                                                        *)
StartFails(n, c) ==
  /\ disk' \in {Opened(n), Truncated(Opened(n), n), Marked(n, c)}
  /\ UNCHANGED <<writing, declared>>

(* Mutant: the error of lfs_setattr is only logged.                        *)
StartSucceedsUnmarked(n, c) ==
  /\ disk' \in {Truncated(Marked(n, c), n), Truncated(Opened(n), n)}
  /\ writing' = TRUE
  /\ declared' = c

StartSucceeds(n, c) ==
  /\ disk' = Truncated(Marked(n, c), n)
  /\ writing' = TRUE
  /\ declared' = c

(* Once the file is open, or tried to be.  Nothing else is done for a file *)
(* that is too large, or when a file is already being written.             *)
filesys_start_file_write(n, c) ==
  /\ ready
  /\ ~writing
  /\ fname' = n
  /\ \/ /\ UNCHANGED <<disk, writing, declared, completed>>
     \/ /\ StartFails(n, c) \/ StartSucceeds(n, c)
        /\ completed' = completed \ {n}
  /\ IF dirty THEN filesys_clear_buffer ELSE UNCHANGED <<dirty, buffer>>
  /\ filesys_file_open
  /\ UNCHANGED <<ready>>

filesys_write_data_to_buffer(data, offset) ==
  /\ ready
  /\ offset + Len(data) <= BufferSize
  /\ writing
  /\ dirty' = TRUE
  /\ buffer' = [i \in 1..BufferSize |-> IF i - offset \in 1..Len(data) THEN data[i - offset]
                                                                    ELSE buffer[i]]
  /\ UNCHANGED <<disk, ready, writing, fname, declared, reading, completed>>

(* Mutant: the buffer is left as it is.                                    *)
CancelStillDirty ==
  /\ disk' = [disk EXCEPT ![fname] = NoFile]
  /\ UNCHANGED <<dirty, buffer>>
  /\ writing' = FALSE

(* lfs_remove and what follows it.                                         *)
Cancel ==
  /\ disk' = [disk EXCEPT ![fname] = NoFile]
  /\ filesys_clear_buffer
  /\ writing' = FALSE

filesys_cancel_file_write ==
  /\ ready
  /\ writing
  /\ Cancel
  /\ UNCHANGED <<ready, fname, declared, reading, completed>>

(* Mutant: the file is opened without LFS_O_APPEND.                        *)
Overwrite(n_bytes) ==
  /\ disk' = [disk EXCEPT ![fname].data =
                SubSeq(buffer, 1, n_bytes) \o SubSeq(@, n_bytes + 1, Len(@))]
  /\ filesys_clear_buffer
  /\ UNCHANGED writing

AppendBuffer(n_bytes) ==
  /\ Len(disk[fname].data) + n_bytes <= MaxFileLen
  /\ disk' = [disk EXCEPT ![fname].data = @ \o SubSeq(buffer, 1, n_bytes)]
  /\ filesys_clear_buffer
  /\ UNCHANGED writing

(* When lfs_file_write fails the write is cancelled, which may fail, too;  *)
(* when opening or closing does, the data are neither written nor lost.    *)
filesys_write_buffer_to_mram(n_bytes) ==
  /\ ready
  /\ writing
  /\ dirty
  /\ \/ AppendBuffer(n_bytes)
     \/ Cancel
     \/ UNCHANGED <<disk, writing, dirty, buffer>>
  /\ filesys_file_open
  /\ UNCHANGED <<ready, fname, declared, completed>>

-----------------------------------------------------------------------------
(* Checking and reading.                                                   *)

(* The CRC of the first size bytes; a file that ends before them has none. *)
filesys_compute_file_crc(n, size) ==
  IF size <= Len(disk[n].data) THEN SubSeq(disk[n].data, 1, size) ELSE NoCrc

(* Mutant: any CRC that can be computed will do.                           *)
filesys_is_crc_computed == filesys_compute_file_crc(fname, Len(declared)) # NoCrc

filesys_is_crc_correct == filesys_compute_file_crc(fname, Len(declared)) = declared

(* The application may also ask whether the CRC is correct, or for the     *)
(* CRC: that opens the file and changes nothing else, see CheckFile.       *)
filesys_complete_file_write ==
  /\ ready
  /\ ~dirty
  /\ writing
  /\ filesys_is_crc_correct
  /\ writing' = FALSE
  /\ filesys_file_open
  /\ completed' = completed \cup {fname}
  /\ UNCHANGED <<disk, ready, dirty, buffer, fname, declared>>

(* filesys_compute_crc, filesys_is_crc_correct, filesys_get_file_info and  *)
(* filesys_list_files of a disk that holds a file.                         *)
CheckFile ==
  /\ ready
  /\ \E n \in Names : disk[n] # NoFile
  /\ filesys_file_open
  /\ UNCHANGED <<disk, ready, slate, completed>>

ClearBuffer ==
  /\ ready
  /\ filesys_clear_buffer
  /\ UNCHANGED <<disk, ready, writing, fname, declared, reading, completed>>

Readable(n) ==
  /\ disk[n] # NoFile
  /\ disk[n].crc # NoCrc
  /\ filesys_compute_file_crc(n, Len(disk[n].data)) = disk[n].crc

(* A caller has one file open at a time.  If the last opening fails, the   *)
(* checks before it have been a CheckFile.                                 *)
filesys_open_file_read(n) ==
  /\ ready
  /\ reader = NoName
  /\ Readable(n)
  /\ reader' = n
  /\ cache' = "reader"
  /\ delivered' = "none"
  /\ UNCHANGED <<disk, ready, slate, completed>>

(* lfs_file_read takes from the file's cache what the file's record says   *)
(* the cache holds, and fetches the rest.                                  *)
filesys_read_data ==
  /\ ready
  /\ reader # NoName
  /\ \/ delivered' = "own" /\ cache' = "reader"
     \/ cache = "other" /\ delivered' = "other" /\ UNCHANGED cache
  /\ UNCHANGED <<disk, ready, slate, reader, completed>>

filesys_close_file_read ==
  /\ ready
  /\ reader # NoName
  /\ reader' = NoName
  /\ UNCHANGED <<disk, ready, slate, cache, delivered, completed>>

-----------------------------------------------------------------------------

(* A reset: the slate starts again, the disk stays.                        *)
Reset ==
  /\ ready' = FALSE
  /\ writing' = FALSE
  /\ dirty' = FALSE
  /\ buffer' = Blank
  /\ fname' = NoName
  /\ declared' = NoCrc
  /\ reader' = NoName
  /\ cache' = "other"
  /\ delivered' = "none"

PowerLoss == Reset /\ UNCHANGED <<disk, completed>>

(* The power goes in filesys_start_file_write, after open or lfs_setattr.  *)
PowerLossStarting(n, c) ==
  /\ ready
  /\ ~writing
  /\ Reset
  /\ disk' \in {Opened(n), Marked(n, c)}
  /\ completed' = completed \ {n}

Mount ==
  \/ filesys_initialize
  \/ filesys_initialize_fails
  \/ filesys_reformat_initialize

Write ==
  \/ \E n \in Names, c \in Contents : filesys_start_file_write(n, c)
  \/ \E offset \in 0..BufferSize, data \in BoundedSeq(Byte, BufferSize) :
       filesys_write_data_to_buffer(data, offset)
  \/ \E n_bytes \in 0..BufferSize : filesys_write_buffer_to_mram(n_bytes)
  \/ filesys_complete_file_write
  \/ filesys_cancel_file_write
  \/ ClearBuffer

Read ==
  \/ CheckFile
  \/ \E n \in Names : filesys_open_file_read(n)
  \/ filesys_read_data
  \/ filesys_close_file_read

Next ==
  \/ Mount
  \/ Write
  \/ Read
  \/ PowerLoss
  \/ \E n \in Names, c \in Contents : PowerLossStarting(n, c)

Spec == Init /\ [][Next]_vars

-----------------------------------------------------------------------------
(* Properties.                                                             *)

(* The slate, the disk and the history have their types.                   *)
TypeOK ==
  /\ disk \in [Names -> File \cup {NoFile}]
  /\ ready \in BOOLEAN
  /\ writing \in BOOLEAN
  /\ dirty \in BOOLEAN
  /\ buffer \in [1..BufferSize -> Byte]
  /\ fname \in Names \cup {NoName}
  /\ declared \in Contents \cup {NoCrc}
  /\ reader \in Names \cup {NoName}
  /\ cache \in {"reader", "other"}
  /\ delivered \in {"none", "own", "other"}
  /\ completed \subseteq Names

(* While a file is being written it is on the disk, whatever has failed or *)
(* been cancelled, and the attribute that later readers check it against   *)
(* is the CRC the slate checks it against now.                             *)
SessionOnDisk ==
  ready /\ writing => fname \in Names /\ disk[fname] # NoFile
                      /\ declared \in Contents /\ disk[fname].crc = declared

(* The buffer of a session that has ended holds nothing: the next one      *)
(* never writes bytes of another file.  filesys_start_file_write calls a   *)
(* dirty buffer without a session something that went wrong.               *)
CleanOutsideSession == ready /\ ~writing => ~dirty /\ buffer = Blank

(* A file whose write completed begins with the content its caller         *)
(* declared, through failures, resets and all writing of other files,      *)
(* until it is itself written again or the disk is formatted.              *)
CompletedHoldsContent ==
  \A n \in completed : disk[n] # NoFile /\ disk[n].crc \in Contents
                       /\ IsPrefix(disk[n].crc, disk[n].data)

(* What filesys_write_buffer_to_mram has put on the disk stays in front of *)
(* what it adds, as long as the session lasts.                             *)
SessionAppends ==
  [][writing /\ writing' /\ ready /\ ready' => fname' = fname
       /\ IsPrefix(disk[fname].data, disk'[fname].data)]_vars

-----------------------------------------------------------------------------
(* What the documentation says and the code does not do.                   *)

(* Reading an open file returns bytes of that file.                        *)
ReadsOwnFile == delivered # "other"
=============================================================================
