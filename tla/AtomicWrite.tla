------------------------------ MODULE AtomicWrite ------------------------------
(***************************************************************************)
(* write_atomically of crates/persist/src/lib.rs, through which every      *)
(* manifest, bundle and workspace.json is written, on one path.            *)
(*                                                                         *)
(* A writer fills a temporary file named after the path and the process,   *)
(* then renames it over the path.  Files are the kernel's: a name refers   *)
(* to an inode, an open file keeps its inode whatever happens to names,    *)
(* creating an existing file truncates its inode.  A content is a sequence *)
(* of chunks, a chunk being the writer whose data it is.  A call may be    *)
(* made at any time, also while another one of its process is under way.   *)
(***************************************************************************)
EXTENDS Naturals, Sequences

CONSTANTS
  Writers,    \* calls of write_atomically for the path
  Readers,    \* readers of the path, each reads it once
  Processes,  \* running netweevil processes
  ProcessOf,  \* writer -> the process it runs in, by the number of the process
  Original,   \* whose data the path holds at first
  Size        \* writer or Original -> chunks of its data

ASSUME WriterAssumption ==
  /\ ProcessOf \in [Writers -> Processes]
  /\ Size \in [Writers \cup {Original} -> Nat \ {0}]
  /\ Original \notin Writers
  /\ "no file" \notin Writers \cup {Original}

VARIABLES
  inode,   \* inode -> its content; named by the writer that created it
  path,    \* the inode the path names
  temp,    \* process -> the inode its temporary name refers to, or NoFile
  writer,  \* writer -> [pc, fd, at]
  reader,  \* reader -> [pc, fd, got]
  shared   \* history: the inodes of calls that overlap in one process

vars == <<inode, path, temp, writer, reader, shared>>

NoFile == "no file"
Inodes == Writers \cup {Original}
Hole == "zeros"
Ended == {"done", "failed", "dead"}
Whole(w) == [i \in 1..Size[w] |-> w]

Init ==
  /\ inode = [i \in Inodes |-> IF i = Original THEN Whole(Original) ELSE <<>>]
  /\ path = Original
  /\ temp = [p \in Processes |-> NoFile]
  /\ writer = [w \in Writers |-> [pc |-> "idle", fd |-> NoFile, at |-> 0]]
  /\ reader = [r \in Readers |-> [pc |-> "idle", fd |-> NoFile, got |-> <<>>]]
  /\ shared = {}

-----------------------------------------------------------------------------

\* The other calls under way in the process of w.  A process that died has
\* none: a call that is made then runs in a later one of the same number.
Others(w) ==
  {v \in Writers : v # w /\ ProcessOf[v] = ProcessOf[w] /\ writer[v].pc = "writing"}
Share(w, i) ==
  shared' = IF Others(w) = {} THEN shared \ {i}
            ELSE shared \cup {i} \cup {writer[v].fd : v \in Others(w)}

\* File::create of the temporary name: an existing file is emptied.
CreateKeeping(w) ==
  LET p == ProcessOf[w]
      i == IF temp[p] = NoFile THEN w ELSE temp[p]
  IN  /\ writer[w].pc = "idle"
      /\ temp' = [temp EXCEPT ![p] = i]
      /\ writer' = [writer EXCEPT ![w] = [pc |-> "writing", fd |-> i, at |-> 0]]
      /\ Share(w, i)
      /\ UNCHANGED <<inode, path, reader>>
Create(w) ==
  LET p == ProcessOf[w]
      i == IF temp[p] = NoFile THEN w ELSE temp[p]
  IN  /\ writer[w].pc = "idle"
      /\ inode' = [inode EXCEPT ![i] = <<>>]
      /\ temp' = [temp EXCEPT ![p] = i]
      /\ writer' = [writer EXCEPT ![w] = [pc |-> "writing", fd |-> i, at |-> 0]]
      /\ Share(w, i)
      /\ UNCHANGED <<path, reader>>

\* One flush of the buffered writer, at its own offset of the inode.
Put(content, at, w) ==
  [i \in 1..(IF Len(content) > at THEN Len(content) ELSE at) |->
     IF i = at THEN w ELSE IF i <= Len(content) THEN content[i] ELSE Hole]
WriteChunk(w) ==
  LET at == writer[w].at + 1 IN
  /\ writer[w].pc = "writing" /\ writer[w].at < Size[w]
  /\ inode' = [inode EXCEPT ![writer[w].fd] = Put(@, at, w)]
  /\ writer' = [writer EXCEPT ![w].at = at]
  /\ UNCHANGED <<path, temp, reader, shared>>

\* Rename over the path, once everything is flushed, of whatever file has the
\* temporary name by then; there may be none.
RenameUnflushed(w) ==
  /\ writer[w].pc = "writing" /\ writer[w].at > 0
  /\ temp[ProcessOf[w]] # NoFile
  /\ path' = temp[ProcessOf[w]]
  /\ temp' = [temp EXCEPT ![ProcessOf[w]] = NoFile]
  /\ writer' = [writer EXCEPT ![w].pc = "done"]
  /\ UNCHANGED <<inode, reader, shared>>
Rename(w) ==
  /\ writer[w].pc = "writing" /\ writer[w].at = Size[w]
  /\ temp[ProcessOf[w]] # NoFile
  /\ path' = temp[ProcessOf[w]]
  /\ temp' = [temp EXCEPT ![ProcessOf[w]] = NoFile]
  /\ writer' = [writer EXCEPT ![w].pc = "done"]
  /\ UNCHANGED <<inode, reader, shared>>

\* A file that cannot be created, written or renamed: the temporary name goes,
\* whoever's file has it.
GiveUp(w) ==
  /\ writer[w].pc \in {"idle", "writing"}
  /\ temp' = [temp EXCEPT ![ProcessOf[w]] = NoFile]
  /\ writer' = [writer EXCEPT ![w].pc = "failed"]
  /\ UNCHANGED <<inode, path, reader, shared>>

\* A process dies with all its writers; its temporary file stays.
Die(p) ==
  /\ \E w \in Writers : ProcessOf[w] = p /\ writer[w].pc = "writing"
  /\ writer' = [w \in Writers |->
       IF ProcessOf[w] = p /\ writer[w].pc = "writing"
       THEN [writer[w] EXCEPT !.pc = "dead"] ELSE writer[w]]
  /\ UNCHANGED <<inode, path, temp, reader, shared>>

\* A reader opens the path and reads on, through the inode it opened.
Open(r) ==
  /\ reader[r].pc = "idle"
  /\ reader' = [reader EXCEPT ![r] = [pc |-> "reading", fd |-> path, got |-> <<>>]]
  /\ UNCHANGED <<inode, path, temp, writer, shared>>
ReadChunk(r) ==
  LET at == Len(reader[r].got) + 1 IN
  /\ reader[r].pc = "reading" /\ at <= Len(inode[reader[r].fd])
  /\ reader' = [reader EXCEPT ![r].got = Append(@, inode[reader[r].fd][at])]
  /\ UNCHANGED <<inode, path, temp, writer, shared>>
EndOfFile(r) ==
  /\ reader[r].pc = "reading"
  /\ Len(reader[r].got) >= Len(inode[reader[r].fd])
  /\ reader' = [reader EXCEPT ![r].pc = "read"]
  /\ UNCHANGED <<inode, path, temp, writer, shared>>

Next ==
  \/ \E w \in Writers : Create(w) \/ WriteChunk(w) \/ Rename(w) \/ GiveUp(w)
  \/ \E p \in Processes : Die(p)
  \/ \E r \in Readers : Open(r) \/ ReadChunk(r) \/ EndOfFile(r)

Spec == Init /\ [][Next]_vars

-----------------------------------------------------------------------------

\* Names refer to inodes, and a writer that writes has one open.
TypeOK ==
  /\ inode \in [Inodes -> Seq(Writers \cup {Original, Hole})]
  /\ path \in Inodes
  /\ temp \in [Processes -> Inodes \cup {NoFile}]
  /\ writer \in [Writers -> [pc : {"idle", "writing"} \cup Ended,
                             fd : Inodes \cup {NoFile}, at : Nat]]
  /\ \A w \in Writers : writer[w].at <= Size[w]
  /\ \A w \in Writers : writer[w].pc = "writing" => writer[w].fd # NoFile
  /\ reader \in [Readers -> [pc : {"idle", "reading", "read"}, fd : Inodes \cup {NoFile},
                             got : Seq(Writers \cup {Original, Hole})]]
  /\ \A r \in Readers : reader[r].pc # "idle" => reader[r].fd # NoFile
  /\ shared \subseteq Inodes

\* lib.rs: "a concurrent reader [...] sees either the previous or the
\* complete new file."  At no moment does the path name anything but one
\* writer's whole data, and no reader reads anything else, however the steps of
\* writers of different processes interleave and whoever fails or dies.  The
\* code keeps no two calls of one process apart: the exception are the files
\* that such calls had in hand while they overlapped, and only these; the next
\* call that is alone replaces them by a whole file.
ReadersSeeWholeFiles ==
  /\ path \in shared \/ \E w \in Inodes : inode[path] = Whole(w)
  /\ \A r \in Readers : reader[r].pc = "read" =>
       reader[r].fd \in shared \/ \E w \in Inodes : reader[r].got = Whole(w)

\* A writer that reports success has put its data in place, at that moment,
\* unless the file it has put there was shared with an overlapping call of its
\* process.
SuccessIsInPlace ==
  [][\A w \in Writers : (writer[w].pc # "done" /\ writer'[w].pc = "done") =>
        inode'[path'] = Whole(w) \/ path' \in shared]_vars
===============================================================================
