---------------------------- MODULE DirStreams ------------------------------
(***************************************************************************)
(* A directory stream of dirent/mod.rs: opendir, readdir, rewinddir and    *)
(* closedir over the kernel's getdents64.                                  *)
(*                                                                         *)
(* A record is [name, reclen]; `cursor' and `filled' count bytes, as in    *)
(* the code. The kernel hands over as many whole records as it likes that  *)
(* fit in the buffer. A directory may hold a record the checks of          *)
(* next_entry refuse. Names are at most NAME_MAX bytes, which fit d_name.  *)
(***************************************************************************)
EXTENDS Integers, Sequences, SequencesExt

CONSTANTS
  Listings,              \* the directories: sequences of records
  DIRENT_BUFFER_SIZE,
  DIRENT_FIXED_SIZE      \* LINUX_DIRENT64_FIXED_SIZE

\* A record takes room in the buffer, whatever is in it.
ASSUME DirStreamsAssumption ==
  /\ DIRENT_FIXED_SIZE \in Nat
  /\ \A listing \in Listings :
       /\ listing \in Seq(Range(listing))
       /\ \A i \in DOMAIN listing : listing[i].reclen \in Nat \ {0}

VARIABLES
  dir_listing,    \* external: what the opened directory holds
  dir_offset,     \* external: records the descriptor has delivered
  dir_stream,     \* DirStream, or <<>> when there is no handle
  dir_seen,       \* ghost: names read since the start of the directory
  dir_reply       \* the last answer: the outcome of a call

dir_vars == <<dir_listing, dir_offset, dir_stream, dir_seen, dir_reply>>

NoStream == <<>>
FreshStream == [buffer |-> <<>>, cursor |-> 0, filled |-> 0]

\* Where each record of a buffer ends: its distance from the start of the buffer.
Ends(records) ==
  LET end[i \in 0..Len(records)] == IF i = 0 THEN 0 ELSE end[i - 1] + records[i].reclen
  IN end

Bytes(records) == Ends(records)[Len(records)]

\* The record that starts at the cursor, where the one before it ends.
RecordAt(stream) ==
  stream.buffer[CHOOSE i \in 1..Len(stream.buffer) : Ends(stream.buffer)[i - 1] = stream.cursor]

DirInit ==
  /\ dir_listing \in Listings
  /\ dir_offset = 0
  /\ dir_stream = NoStream
  /\ dir_seen = <<>>
  /\ dir_reply = "none"

OpenDir ==
  /\ dir_stream = NoStream
  /\ dir_listing' \in Listings
  /\ \/ /\ dir_stream' = FreshStream
        /\ dir_reply' = "opened"
     \/ /\ dir_stream' = NoStream
        /\ dir_reply' = "error"
  /\ dir_offset' = 0
  /\ dir_seen' = <<>>

\* getdents64 into the buffer: Ok(bytes) or, leaving the stream alone, Err.
refill(stream, records) ==
  [stream EXCEPT !.buffer = records, !.cursor = 0, !.filled = Bytes(records)]

\* next_entry once the buffer holds something.
TakeEntry(stream) ==
  LET available == stream.filled - stream.cursor
      record    == RecordAt(stream)
  IN IF \/ available < DIRENT_FIXED_SIZE
        \/ record.reclen < DIRENT_FIXED_SIZE
        \/ record.reclen > available
     THEN /\ dir_stream' = stream
          /\ dir_reply' = "error"
          /\ dir_seen' = dir_seen
     ELSE /\ dir_stream' = [stream EXCEPT !.cursor = @ + record.reclen]
          /\ dir_reply' = "entry"
          /\ dir_seen' = Append(dir_seen, record.name)

ReadBuffered ==
  /\ dir_stream # NoStream
  /\ dir_stream.cursor < dir_stream.filled
  /\ TakeEntry(dir_stream)
  /\ UNCHANGED <<dir_listing, dir_offset>>

ReadAfterRefill ==
  /\ dir_stream # NoStream
  /\ dir_stream.cursor >= dir_stream.filled
  /\ \E upto \in dir_offset..Len(dir_listing) :
       LET records == SubSeq(dir_listing, dir_offset + 1, upto)
           stream  == refill(dir_stream, records)
       IN /\ Bytes(records) <= DIRENT_BUFFER_SIZE
          /\ upto = dir_offset => dir_offset = Len(dir_listing)
          /\ dir_offset' = upto
          /\ IF records = <<>>
             THEN /\ dir_stream' = stream
                  /\ dir_reply' = "end"
                  /\ dir_seen' = dir_seen
             ELSE TakeEntry(stream)
  /\ UNCHANGED dir_listing

ReadFails ==
  /\ dir_stream # NoStream
  /\ dir_stream.cursor >= dir_stream.filled
  /\ dir_reply' = "error"
  /\ UNCHANGED <<dir_listing, dir_offset, dir_stream, dir_seen>>

\* Mutant: the descriptor is rewound and the buffered entries are kept.
MutRewindDir_KeepsBuffer ==
  /\ dir_stream # NoStream
  /\ dir_offset' = 0
  /\ dir_seen' = <<>>
  /\ dir_reply' = "rewound"
  /\ UNCHANGED <<dir_listing, dir_stream>>

RewindDir ==
  /\ dir_stream # NoStream
  /\ \/ /\ dir_offset' = 0
        /\ dir_stream' = [dir_stream EXCEPT !.cursor = 0, !.filled = 0]
        /\ dir_seen' = <<>>
        /\ dir_reply' = "rewound"
     \/ /\ dir_reply' = "error"
        /\ UNCHANGED <<dir_offset, dir_stream, dir_seen>>
  /\ UNCHANGED dir_listing

\* The stream is released whatever the close answers.
CloseDir ==
  /\ dir_stream # NoStream
  /\ dir_stream' = NoStream
  /\ dir_reply' \in {"closed", "error"}
  /\ UNCHANGED <<dir_listing, dir_offset, dir_seen>>

\* A null handle is refused by readdir, rewinddir and closedir.
NullDir ==
  /\ dir_reply' = "error"
  /\ UNCHANGED <<dir_listing, dir_offset, dir_stream, dir_seen>>

DirNext ==
  \/ OpenDir
  \/ ReadBuffered
  \/ ReadAfterRefill
  \/ ReadFails
  \/ RewindDir
  \/ CloseDir
  \/ NullDir

DirSpec == DirInit /\ [][DirNext]_dir_vars

(* However the kernel cuts a directory into buffers, and whatever calls    *)
(* fail or rewind in between, readdir gives the directory's names in       *)
(* order, none twice and none left out, and says the end only after the    *)
(* last one (dirent/mod.rs, next_entry, refill and rewinddir).             *)
EntriesComeOnceInOrder ==
  LET names == [i \in DOMAIN dir_listing |-> dir_listing[i].name]
  IN /\ IsPrefix(dir_seen, names)
     /\ dir_reply = "end" => dir_seen = names

=============================================================================
