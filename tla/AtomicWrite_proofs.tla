--------------------------- MODULE AtomicWrite_proofs ---------------------------
(***************************************************************************)
(* Proofs about AtomicWrite, for any number of writers, readers and        *)
(* processes, calls that overlap in any way and files of any size.         *)
(***************************************************************************)
EXTENDS AtomicWrite, TLAPS, SequenceTheorems

Writing(w) == writer[w].pc = "writing"

\* n chunks of w.
Copies(w, n) == [i \in 1..n |-> w]

\* Calls of one process that are under way together share their files.
SharedInv ==
  \A v, w \in Writers :
    (Writing(v) /\ Writing(w) /\ ProcessOf[v] = ProcessOf[w] /\ v # w) =>
      writer[v].fd \in shared

\* A file that only one writer has in hand holds nothing but its data, and
\* unless others came in between it has the temporary name.
WriterInv ==
  \A w \in Writers : Writing(w) =>
    /\ writer[w].fd \in shared \/ inode[writer[w].fd] = Copies(w, writer[w].at)
    /\ temp[ProcessOf[w]] \in {writer[w].fd, NoFile} \cup shared

\* Processes have no file in common.
OwnInv ==
  \A w \in Writers : Writing(w) =>
    /\ \A p \in Processes : temp[p] = writer[w].fd => p = ProcessOf[w]
    /\ \A v \in Writers : (Writing(v) /\ writer[v].fd = writer[w].fd) =>
         ProcessOf[v] = ProcessOf[w]

\* No inode has two names.
NameInv ==
  /\ \A p \in Processes : temp[p] # path
  /\ \A p, q \in Processes : temp[p] = temp[q] /\ temp[p] # NoFile => p = q

\* The inode a writer may create does not exist before.
FreshInv ==
  \A w \in Writers : writer[w].pc = "idle" =>
    /\ w # path
    /\ \A p \in Processes : temp[p] # w
    /\ \A v \in Writers : writer[v].fd # w
    /\ \A r \in Readers : reader[r].fd # w

\* What the path names is whole and nobody writes it, or it was shared.
PathInv ==
  \/ path \in shared
  \/ /\ \E w \in Inodes : inode[path] = Whole(w)
     /\ \A v \in Writers : Writing(v) => writer[v].fd # path

\* What w's data begins with.
Prefix(got, w) == got = [i \in 1..Len(got) |-> w] /\ Len(got) <= Size[w]

\* A file that is being read was given up by the temporary names; unless it was
\* shared it is whole and nobody writes it.
Reads(r) ==
  \/ reader[r].fd \in shared
  \/ /\ \E w \in Inodes : inode[reader[r].fd] = Whole(w) /\ Prefix(reader[r].got, w)
     /\ \A v \in Writers : Writing(v) => writer[v].fd # reader[r].fd
HasRead(r) ==
  reader[r].fd \in shared \/ \E w \in Inodes : reader[r].got = Whole(w)
ReaderInv ==
  \A r \in Readers :
    /\ reader[r].pc # "idle" => \A p \in Processes : temp[p] # reader[r].fd
    /\ reader[r].pc = "reading" => Reads(r)
    /\ reader[r].pc = "read" => HasRead(r)

FilesInv == SharedInv /\ WriterInv /\ OwnInv /\ NameInv /\ FreshInv /\ PathInv
IInv == TypeOK /\ FilesInv /\ ReaderInv

-----------------------------------------------------------------------------

\* A flush at the end of n chunks of w makes them n + 1.
LEMMA PutNext ==
  ASSUME NEW n \in Nat, NEW w
  PROVE  Put(Copies(w, n), n + 1, w) = Copies(w, n + 1)
<1> DEFINE s == [i \in 1..n |-> w]
<1>1. s \in Seq({w}) /\ Len(s) = n
  <2>1. s \in Seq({w})
    BY SMT
  <2> QED BY <2>1, LenProperties, SMT
<1>2. \A i \in 1..n : s[i] = w
  OBVIOUS
<1> HIDE DEF s
<1>3. Put(s, n + 1, w) = [i \in 1..(n + 1) |-> w]
  BY <1>1, <1>2 DEF Put
<1> QED BY <1>3 DEF s, Copies

\* Repetitions of one chunk are sequences of it.
LEMMA Repeated ==
  ASSUME NEW n \in Nat, NEW S, NEW w \in S
  PROVE  Copies(w, n) \in Seq(S) /\ Len(Copies(w, n)) = n
<1>1. Copies(w, n) \in Seq(S)
  BY SMT DEF Copies
<1> QED BY <1>1, LenProperties, SMT DEF Copies

\* Reading one more chunk of w's data.
LEMMA ReadNext ==
  ASSUME NEW w \in Inodes, NEW got \in Seq(Writers \cup {Original, Hole}),
         Prefix(got, w), Len(got) + 1 <= Size[w]
  PROVE  Prefix(Append(got, w), w)
<1> DEFINE more == Append(got, w)
<1>1. Len(more) = Len(got) + 1 /\ Len(got) \in Nat
  BY AppendProperties DEF Inodes
<1>2. more \in Seq(Writers \cup {Original, Hole})
  BY AppendProperties DEF Inodes
<1>3. \A i \in 1..Len(more) : more[i] = w
  <2> SUFFICES ASSUME NEW i \in 1..Len(more) PROVE more[i] = w
    OBVIOUS
  <2>1. CASE i = Len(got) + 1
    BY <2>1, AppendProperties DEF Inodes
  <2>2. CASE i # Len(got) + 1
    <3>1. i \in 1..Len(got)
      BY <1>1, <2>2
    <3>2. more[i] = got[i]
      BY <3>1, AppendProperties DEF Inodes
    <3> QED BY <3>1, <3>2 DEF Prefix
  <2> QED BY <2>1, <2>2
<1> HIDE DEF more
<1>4. more = [i \in 1..Len(more) |-> w]
  BY <1>2, <1>3, LenProperties
<1> QED BY <1>1, <1>4, WriterAssumption DEF Prefix, more, Inodes

\* Nothing is no longer than a file.
LEMMA SizeIs == \A w \in Inodes : Size[w] \in Nat /\ 0 <= Size[w]
<1> SUFFICES ASSUME NEW w \in Inodes PROVE Size[w] \in Nat /\ 0 <= Size[w]
  OBVIOUS
<1>1. Size[w] \in Nat \ {0}
  BY WriterAssumption DEF Inodes
<1> QED BY <1>1

\* Whole is as long as it should be.
LEMMA WholeIs ==
  ASSUME NEW w \in Inodes
  PROVE  /\ Whole(w) \in Seq(Writers \cup {Original, Hole})
         /\ Len(Whole(w)) = Size[w] /\ Size[w] \in Nat \ {0}
<1>1. Size[w] \in Nat \ {0}
  BY WriterAssumption DEF Inodes
<1> QED BY <1>1, Repeated DEF Whole, Copies, Inodes

\* The files of a state, and the rows of its writers and readers.
LEMMA Types ==
  ASSUME TypeOK
  PROVE  /\ NoFile \notin Inodes /\ Original \in Inodes /\ Writers \subseteq Inodes
         /\ \A w \in Writers : ProcessOf[w] \in Processes
         /\ \A w \in Writers : Writing(w) => writer[w].fd \in Inodes
         /\ \A r \in Readers : reader[r].pc = "reading" => reader[r].fd \in Inodes
BY WriterAssumption DEF TypeOK, NoFile, Inodes, Writing

\* A flush leaves a content.
LEMMA PutIs ==
  ASSUME NEW content \in Seq(Writers \cup {Original, Hole}), NEW at \in Nat, NEW w \in Writers
  PROVE  Put(content, at, w) \in Seq(Writers \cup {Original, Hole})
<1>1. PICK n : n = IF Len(content) > at THEN Len(content) ELSE at
  OBVIOUS
<1>2. Len(content) \in Nat /\ n \in Nat
  BY <1>1, LenProperties
<1>3. \A i \in 1..Len(content) : content[i] \in Writers \cup {Original, Hole}
  BY ElementOfSeq
<1>4. PICK D : D = Writers \cup {Original, Hole}
  OBVIOUS
<1>5. ASSUME NEW i \in 1..n
      PROVE  (IF i = at THEN w ELSE IF i <= Len(content) THEN content[i] ELSE Hole) \in D
  BY <1>2, <1>3, <1>4, <1>5
<1>6. [i \in 1..n |-> IF i = at THEN w ELSE IF i <= Len(content) THEN content[i] ELSE Hole]
        \in Seq(D)
  BY <1>2, <1>5, SMT
<1> QED BY <1>1, <1>4, <1>6 DEF Put

-----------------------------------------------------------------------------
(* Init and the steps.                                                     *)

LEMMA InitInv == Init => IInv
<1> SUFFICES ASSUME Init PROVE IInv
  OBVIOUS
<1> USE WriterAssumption DEF Init, Inodes, NoFile, Hole
<1>1. <<>> \in Seq(Writers \cup {Original, Hole})
  BY EmptySeq
<1>2. Original \in Inodes /\ Whole(Original) \in Seq(Writers \cup {Original, Hole})
  BY WholeIs
<1>3. TypeOK
  <2>1. inode \in [Inodes -> Seq(Writers \cup {Original, Hole})]
    BY <1>1, <1>2
  <2>2. \A w \in Writers : writer[w].at <= Size[w]
    BY SizeIs
  <2>3. reader \in [Readers -> [pc : {"idle", "reading", "read"}, fd : Inodes \cup {NoFile},
                               got : Seq(Writers \cup {Original, Hole})]]
    BY <1>1
  <2> QED BY <2>1, <2>2, <2>3 DEF TypeOK
<1>4. SharedInv /\ WriterInv /\ OwnInv
  BY DEF SharedInv, WriterInv, OwnInv, Writing
<1>5. NameInv /\ FreshInv
  BY DEF NameInv, FreshInv
<1>6. PathInv
  BY <1>2 DEF PathInv, Writing
<1>7. ReaderInv
  BY DEF ReaderInv
<1> QED BY <1>3, <1>4, <1>5, <1>6, <1>7 DEF IInv, FilesInv

\* The file a call creates or empties: it has the temporary name, nobody reads
\* it, and whoever writes it is of the same process.
LEMMA Created ==
  ASSUME IInv, NEW w \in Writers, writer[w].pc = "idle", NEW i,
         i = IF temp[ProcessOf[w]] = NoFile THEN w ELSE temp[ProcessOf[w]]
  PROVE  /\ i \in Inodes /\ i # path
         /\ \A q \in Processes : temp[q] = i => q = ProcessOf[w]
         /\ \A r \in Readers : reader[r].pc # "idle" => reader[r].fd # i
         /\ \A v \in Writers : (Writing(v) /\ writer[v].fd = i) => v \in Others(w)
         /\ \A v \in Writers : (writer[v].pc = "idle" /\ v # w) => v # i
<1>0. TypeOK /\ NameInv /\ FreshInv /\ OwnInv /\ ReaderInv
  BY DEF IInv, FilesInv
<1>1. ProcessOf[w] \in Processes /\ w \in Inodes /\ NoFile \notin Inodes
  BY <1>0, Types
<1>2. i \in Inodes /\ i # path
  BY <1>0, <1>1 DEF TypeOK, FreshInv, NameInv
<1>3. \A q \in Processes : temp[q] = i => q = ProcessOf[w]
  BY <1>0, <1>1 DEF NameInv, FreshInv
<1>4. \A r \in Readers : reader[r].pc # "idle" => reader[r].fd # i
  BY <1>0, <1>1 DEF FreshInv, ReaderInv
<1>5. ASSUME NEW v \in Writers, Writing(v), writer[v].fd = i
      PROVE  v \in Others(w)
  <2>1. i # w
    BY <1>0, <1>5 DEF FreshInv
  <2>2. temp[ProcessOf[w]] = writer[v].fd
    BY <1>5, <2>1
  <2>3. ProcessOf[w] = ProcessOf[v]
    BY <1>0, <1>1, <1>5, <2>2 DEF OwnInv
  <2> QED BY <1>5, <2>3 DEF Others, Writing
<1>6. \A v \in Writers : (writer[v].pc = "idle" /\ v # w) => v # i
  BY <1>0, <1>1 DEF FreshInv
<1> QED BY <1>2, <1>3, <1>4, <1>5, <1>6

LEMMA CreateInv ==
  ASSUME IInv, NEW w \in Writers, Create(w)
  PROVE  IInv'
<1>0. /\ TypeOK /\ SharedInv /\ WriterInv /\ OwnInv /\ NameInv /\ FreshInv /\ PathInv
      /\ ReaderInv /\ writer[w].pc = "idle" /\ w \in Inodes /\ ProcessOf[w] \in Processes
      /\ NoFile \notin Inodes
  BY Types DEF IInv, FilesInv, Create
<1>1. PICK i, p : /\ p = ProcessOf[w]
                  /\ i = IF temp[p] = NoFile THEN w ELSE temp[p]
  OBVIOUS
<1>2. /\ inode' = [inode EXCEPT ![i] = <<>>] /\ temp' = [temp EXCEPT ![p] = i]
      /\ writer' = [writer EXCEPT ![w] = [pc |-> "writing", fd |-> i, at |-> 0]]
      /\ path' = path /\ reader' = reader /\ Share(w, i)
  BY <1>1 DEF Create
<1>3. /\ i \in Inodes /\ i # path
      /\ \A q \in Processes : temp[q] = i => q = p
      /\ \A r \in Readers : reader[r].pc # "idle" => reader[r].fd # i
      /\ \A v \in Writers : (Writing(v) /\ writer[v].fd = i) => v \in Others(w)
      /\ \A v \in Writers : (writer[v].pc = "idle" /\ v # w) => v # i
  BY <1>0, <1>1, Created
<1>4. /\ \A j \in Inodes : j # i => (j \in shared => j \in shared')
      /\ Others(w) # {} => i \in shared' /\ \A v \in Others(w) : writer[v].fd \in shared'
      /\ Others(w) # {} => shared \subseteq shared'
      /\ Others(w) = {} => shared' = shared \ {i}
  BY <1>2 DEF Share
<1>5. /\ \A v \in Writers : v # w => writer'[v] = writer[v]
      /\ writer'[w] = [pc |-> "writing", fd |-> i, at |-> 0]
      /\ \A j \in Inodes : j # i => inode'[j] = inode[j]
      /\ inode'[i] = <<>>
      /\ \A q \in Processes : temp'[q] = IF q = p THEN i ELSE temp[q]
      /\ p \in Processes
  BY <1>0, <1>1, <1>2, <1>3 DEF TypeOK
<1>6. \A v \in Writers : /\ v # w => (Writing(v)' <=> Writing(v))
                         /\ (Writing(v) /\ v # w /\ ProcessOf[v] = p) => v \in Others(w)
  BY <1>1, <1>5 DEF Writing, Others
<1>7. \A v \in Writers : Writing(v) => writer[v].fd \in Inodes /\ ProcessOf[v] \in Processes
  BY <1>0, Types
<1>11. TypeOK'
  <2>1. inode' \in [Inodes -> Seq(Writers \cup {Original, Hole})]
    BY <1>0, <1>2, <1>3, EmptySeq DEF TypeOK
  <2>2. path' \in Inodes /\ temp' \in [Processes -> Inodes \cup {NoFile}]
    BY <1>0, <1>2, <1>3 DEF TypeOK
  <2>3. writer' \in [Writers -> [pc : {"idle", "writing"} \cup Ended,
                                 fd : Inodes \cup {NoFile}, at : Nat]]
    BY <1>0, <1>2, <1>3 DEF TypeOK
  <2>4. ASSUME NEW v \in Writers
        PROVE  /\ writer'[v].at <= Size[v]
               /\ writer'[v].pc = "writing" => writer'[v].fd # NoFile
    <3>1. CASE v = w
      BY <3>1, <1>0, <1>3, <1>5, SizeIs
    <3>2. CASE v # w
      BY <3>2, <1>0, <1>5 DEF TypeOK
    <3> QED BY <3>1, <3>2
  <2>5. shared' \subseteq Inodes
    <3>1. \A v \in Others(w) : writer[v].fd \in Inodes
      BY <1>7 DEF Others, Writing
    <3> QED BY <1>0, <1>2, <1>3, <3>1 DEF TypeOK, Share
  <2> QED BY <1>0, <1>2, <2>1, <2>2, <2>3, <2>4, <2>5 DEF TypeOK
<1>12. SharedInv'
  <2> SUFFICES ASSUME NEW u \in Writers, NEW v \in Writers, Writing(u)', Writing(v)',
                      ProcessOf[u] = ProcessOf[v], u # v
               PROVE  writer'[u].fd \in shared'
    BY DEF SharedInv
  <2>1. CASE u = w
    <3>1. v \in Others(w)
      BY <1>1, <1>6, <2>1
    <3> QED BY <1>4, <1>5, <2>1, <3>1
  <2>2. CASE u # w /\ v = w
    <3>1. u \in Others(w)
      BY <1>1, <1>6, <2>2
    <3> QED BY <1>4, <1>5, <2>2, <3>1
  <2>3. CASE u # w /\ v # w
    <3>1. Writing(u) /\ Writing(v) /\ writer[u].fd \in shared
      BY <1>0, <1>6, <2>3 DEF SharedInv
    <3>2. writer[u].fd # i \/ u \in Others(w)
      BY <1>3, <3>1
    <3> QED BY <1>4, <1>5, <1>7, <2>3, <3>1, <3>2
  <2> QED BY <2>1, <2>2, <2>3
<1>13. WriterInv'
  <2> SUFFICES ASSUME NEW v \in Writers, Writing(v)'
               PROVE  /\ writer'[v].fd \in shared' \/ inode'[writer'[v].fd] = Copies(v, writer'[v].at)
                      /\ temp'[ProcessOf[v]] \in {writer'[v].fd, NoFile} \cup shared'
    BY DEF WriterInv
  <2>1. CASE v = w
    <3>1. Copies(w, 0) = <<>>
      BY DEF Copies
    <3> QED BY <1>1, <1>5, <2>1, <3>1
  <2>2. CASE v \in Others(w)
    <3>1. ProcessOf[v] = p /\ v # w
      BY <1>1, <2>2 DEF Others
    <3> QED BY <1>4, <1>5, <2>2, <3>1
  <2>3. CASE v # w /\ v \notin Others(w)
    <3>1. Writing(v) /\ ProcessOf[v] # p /\ writer[v].fd # i /\ writer[v].fd \in Inodes
      BY <1>3, <1>6, <1>7, <2>3
    <3>2. /\ writer[v].fd \in shared \/ inode[writer[v].fd] = Copies(v, writer[v].at)
          /\ temp[ProcessOf[v]] \in {writer[v].fd, NoFile} \cup shared
      BY <1>0, <3>1 DEF WriterInv
    <3>3. temp[ProcessOf[v]] # i /\ temp[ProcessOf[v]] \in Inodes \cup {NoFile}
          /\ temp'[ProcessOf[v]] = temp[ProcessOf[v]]
      BY <1>0, <1>3, <1>5, <1>7, <3>1 DEF TypeOK
    <3>4. temp[ProcessOf[v]] \in shared => temp[ProcessOf[v]] \in shared'
      BY <1>0, <1>4, <3>3 DEF TypeOK
    <3>5. writer'[v] = writer[v] /\ inode'[writer[v].fd] = inode[writer[v].fd]
      BY <1>5, <2>3, <3>1
    <3> QED BY <1>4, <3>1, <3>2, <3>3, <3>4, <3>5
  <2> QED BY <2>1, <2>2, <2>3
<1>14. OwnInv'
  <2> SUFFICES ASSUME NEW v \in Writers, Writing(v)'
               PROVE  /\ \A q \in Processes : temp'[q] = writer'[v].fd => q = ProcessOf[v]
                      /\ \A u \in Writers : (Writing(u)' /\ writer'[u].fd = writer'[v].fd) =>
                           ProcessOf[u] = ProcessOf[v]
    BY DEF OwnInv
  <2>1. \A u \in Others(w) : ProcessOf[u] = p
    BY <1>1 DEF Others
  <2>2. CASE v = w
    BY <1>1, <1>3, <1>5, <1>6, <2>1, <2>2
  <2>3. CASE v # w
    <3>1. Writing(v) /\ writer'[v] = writer[v]
      BY <1>5, <1>6, <2>3
    <3>2. writer[v].fd = i => ProcessOf[v] = p
      BY <1>3, <2>1, <3>1
    <3> QED BY <1>0, <1>1, <1>5, <1>6, <3>1, <3>2 DEF OwnInv
  <2> QED BY <2>2, <2>3
<1>15. NameInv'
  BY <1>0, <1>2, <1>3, <1>5 DEF NameInv
<1>16. FreshInv'
  BY <1>0, <1>2, <1>3, <1>5 DEF FreshInv
<1>17. PathInv'
  <2>1. path \in Inodes /\ path # i
    BY <1>0, <1>3 DEF TypeOK
  <2>2. CASE path \in shared
    BY <1>2, <1>4, <2>1, <2>2 DEF PathInv
  <2>3. CASE path \notin shared
    <3>1. /\ \E u \in Inodes : inode[path] = Whole(u)
          /\ \A v \in Writers : Writing(v) => writer[v].fd # path
      BY <1>0, <2>3 DEF PathInv
    <3>2. \A v \in Writers : Writing(v)' => writer'[v].fd # path
      BY <1>5, <1>6, <2>1, <3>1
    <3> QED BY <1>2, <1>5, <2>1, <3>1, <3>2 DEF PathInv
  <2> QED BY <2>2, <2>3
<1>18. ReaderInv'
  <2> SUFFICES ASSUME NEW r \in Readers
               PROVE  /\ reader'[r].pc # "idle" => \A q \in Processes : temp'[q] # reader'[r].fd
                      /\ reader'[r].pc = "reading" => Reads(r)'
                      /\ reader'[r].pc = "read" => HasRead(r)'
    BY DEF ReaderInv
  <2>1. /\ reader[r].pc # "idle" => \A q \in Processes : temp[q] # reader[r].fd
        /\ reader[r].pc = "reading" => Reads(r)
        /\ reader[r].pc = "read" => HasRead(r)
        /\ reader'[r] = reader[r]
    BY <1>0, <1>2 DEF ReaderInv
  <2>2. reader[r].pc # "idle" =>
          /\ reader[r].fd # i /\ (reader[r].fd \in shared => reader[r].fd \in shared')
          /\ \A v \in Writers : (Writing(v)' /\ writer'[v].fd = reader[r].fd) =>
               Writing(v) /\ writer[v].fd = reader[r].fd
    BY <1>0, <1>3, <1>4, <1>5, <1>6 DEF TypeOK
  <2>3. ASSUME reader[r].pc = "reading" PROVE Reads(r)'
    <3>1. reader[r].fd \in Inodes /\ inode'[reader[r].fd] = inode[reader[r].fd]
      BY <1>0, <1>5, <2>2, <2>3, Types
    <3> QED BY <2>1, <2>2, <2>3, <3>1 DEF Reads, Prefix
  <2>4. reader[r].pc = "read" => HasRead(r)'
    BY <2>1, <2>2 DEF HasRead, Whole
  <2> QED BY <1>5, <2>1, <2>2, <2>3, <2>4
<1> QED BY <1>11, <1>12, <1>13, <1>14, <1>15, <1>16, <1>17, <1>18 DEF IInv, FilesInv

\* A flush: the file in hand grows by a chunk of w.
LEMMA WriteInv ==
  ASSUME IInv, NEW w \in Writers, WriteChunk(w)
  PROVE  IInv'
<1>0. /\ TypeOK /\ SharedInv /\ WriterInv /\ OwnInv /\ NameInv /\ FreshInv /\ PathInv
      /\ ReaderInv /\ Writing(w) /\ w \in Inodes
  BY Types DEF IInv, FilesInv, WriteChunk, Writing
<1>1. PICK f, n : f = writer[w].fd /\ n = writer[w].at
  OBVIOUS
<1>2. n \in Nat /\ n + 1 <= Size[w] /\ f \in Inodes
  <2>1. n \in Nat /\ n < Size[w] /\ f \in Inodes
    BY <1>0, <1>1, Types DEF WriteChunk, TypeOK
  <2> QED BY <1>0, <2>1, SizeIs
<1>3. /\ inode' = [inode EXCEPT ![f] = Put(@, n + 1, w)]
      /\ writer' = [writer EXCEPT ![w].at = n + 1]
      /\ path' = path /\ temp' = temp /\ reader' = reader /\ shared' = shared
  BY <1>1 DEF WriteChunk
<1>4. /\ inode'[f] = Put(inode[f], n + 1, w)
      /\ \A i \in Inodes : i # f => inode'[i] = inode[i]
  BY <1>0, <1>2, <1>3 DEF TypeOK
<1>5. /\ writer'[w].pc = "writing" /\ writer'[w].fd = f /\ writer'[w].at = n + 1
      /\ writer'[w] \in [pc : {"idle", "writing"} \cup Ended,
                         fd : Inodes \cup {NoFile}, at : Nat]
      /\ \A v \in Writers : v # w => writer'[v] = writer[v]
  <2>1. writer[w] = [pc |-> "writing", fd |-> f, at |-> n]
    BY <1>0, <1>1 DEF TypeOK, Writing
  <2>2. PICK m : m = n + 1 /\ m \in Nat
    BY <1>2
  <2>3. writer' = [writer EXCEPT ![w].at = m]
    BY <1>3, <2>2
  <2>4. writer'[w] = [pc |-> "writing", fd |-> f, at |-> m]
    BY <1>0, <2>1, <2>3 DEF TypeOK
  <2>5. \A v \in Writers : v # w => writer'[v] = writer[v]
    BY <1>0, <2>3 DEF TypeOK
  <2> QED BY <1>2, <2>2, <2>4, <2>5
<1>6. \A v \in Writers : writer'[v].pc = writer[v].pc /\ writer'[v].fd = writer[v].fd
                         /\ (Writing(v)' <=> Writing(v))
  BY <1>0, <1>1, <1>5 DEF Writing
<1>7. f \notin shared =>
        /\ \A v \in Writers : (Writing(v) /\ v # w) => writer[v].fd # f
        /\ inode'[f] = Copies(w, n + 1)
  <2>1. ASSUME f \notin shared, NEW v \in Writers, Writing(v), v # w, writer[v].fd = f
        PROVE  FALSE
    <3>1. ProcessOf[v] = ProcessOf[w]
      BY <1>0, <1>1, <2>1 DEF OwnInv
    <3> QED BY <1>0, <1>1, <2>1, <3>1 DEF SharedInv
  <2>2. f \notin shared => inode'[f] = Copies(w, n + 1)
    BY <1>0, <1>1, <1>2, <1>4, PutNext DEF WriterInv
  <2> QED BY <2>1, <2>2
<1>11. TypeOK'
  <2>1. inode' \in [Inodes -> Seq(Writers \cup {Original, Hole})]
    <3>1. Put(inode[f], n + 1, w) \in Seq(Writers \cup {Original, Hole})
      <4>1. inode[f] \in Seq(Writers \cup {Original, Hole}) /\ n + 1 \in Nat
        BY <1>0, <1>2 DEF TypeOK
      <4> QED BY ONLY <4>1, w \in Writers, PutIs
    <3> QED BY <1>0, <1>2, <1>3, <3>1 DEF TypeOK
  <2>2. writer' \in [Writers -> [pc : {"idle", "writing"} \cup Ended,
                                fd : Inodes \cup {NoFile}, at : Nat]]
    BY <1>0, <1>3, <1>5 DEF TypeOK
  <2>3. ASSUME NEW v \in Writers
        PROVE  /\ writer'[v].at <= Size[v]
               /\ writer'[v].pc = "writing" => writer'[v].fd # NoFile
    <3>1. CASE v = w
      BY <3>1, <1>0, <1>2, <1>5, <1>6 DEF TypeOK, Writing
    <3>2. CASE v # w
      BY <3>2, <1>0, <1>5 DEF TypeOK
    <3> QED BY <3>1, <3>2
  <2> QED BY <1>0, <1>3, <2>1, <2>2, <2>3 DEF TypeOK
<1>12. SharedInv' /\ OwnInv' /\ NameInv' /\ FreshInv'
  BY <1>0, <1>3, <1>6 DEF SharedInv, OwnInv, NameInv, FreshInv
<1>13. WriterInv'
  <2> SUFFICES ASSUME NEW v \in Writers, Writing(v)'
               PROVE  /\ writer'[v].fd \in shared' \/ inode'[writer'[v].fd] = Copies(v, writer'[v].at)
                      /\ temp'[ProcessOf[v]] \in {writer'[v].fd, NoFile} \cup shared'
    BY DEF WriterInv
  <2>1. Writing(v) /\ temp[ProcessOf[v]] \in {writer[v].fd, NoFile} \cup shared
        /\ (writer[v].fd \in shared \/ inode[writer[v].fd] = Copies(v, writer[v].at))
        /\ writer[v].fd \in Inodes
    BY <1>0, <1>6, Types DEF WriterInv
  <2>2. CASE v = w
    BY <1>1, <1>3, <1>5, <1>7, <2>1, <2>2
  <2>3. CASE v # w
    BY <1>3, <1>4, <1>5, <1>7, <2>1, <2>3
  <2> QED BY <2>2, <2>3
<1>14. PathInv'
  BY <1>0, <1>1, <1>3, <1>4, <1>6 DEF PathInv, TypeOK
<1>15. ReaderInv'
  <2> SUFFICES ASSUME NEW r \in Readers
               PROVE  /\ reader'[r].pc # "idle" => \A q \in Processes : temp'[q] # reader'[r].fd
                      /\ reader'[r].pc = "reading" => Reads(r)'
                      /\ reader'[r].pc = "read" => HasRead(r)'
    BY DEF ReaderInv
  <2>1. ASSUME reader[r].pc = "reading" PROVE Reads(r)'
    <3>1. Reads(r) /\ reader[r].fd \in Inodes
      BY <1>0, <2>1, Types DEF ReaderInv
    <3> QED BY <1>0, <1>1, <1>3, <1>4, <1>6, <3>1 DEF Reads, Prefix
  <2> QED BY <1>0, <1>3, <2>1 DEF ReaderInv, HasRead, Whole
<1> QED BY <1>11, <1>12, <1>13, <1>14, <1>15 DEF IInv, FilesInv

\* A writer stops: the temporary name is free, and what the path names by now
\* is as good as before or has just been put there.
LEMMA StopInv ==
  ASSUME IInv, NEW w \in Writers, NEW end \in Ended, writer[w].pc \in {"idle", "writing"},
         temp' = [temp EXCEPT ![ProcessOf[w]] = NoFile],
         writer' = [writer EXCEPT ![w].pc = end],
         inode' = inode, reader' = reader, shared' = shared,
         path' = path \/ path' = temp[ProcessOf[w]], path' \in Inodes, PathInv'
  PROVE  IInv'
<1>0. /\ TypeOK /\ SharedInv /\ WriterInv /\ OwnInv /\ NameInv /\ FreshInv
      /\ ReaderInv /\ ProcessOf[w] \in Processes /\ NoFile \notin Inodes
  BY Types DEF IInv, FilesInv
<1>1. PICK p : p = ProcessOf[w]
  OBVIOUS
<1>2. /\ writer'[w].pc = end /\ writer'[w].fd = writer[w].fd /\ writer'[w].at = writer[w].at
      /\ writer'[w] \in [pc : {"idle", "writing"} \cup Ended,
                         fd : Inodes \cup {NoFile}, at : Nat]
      /\ end # "idle" /\ end # "writing"
      /\ \A v \in Writers : v # w => writer'[v] = writer[v]
  BY <1>0 DEF TypeOK, Ended
<1>3. /\ \A q \in Processes : temp'[q] = IF q = p THEN NoFile ELSE temp[q]
      /\ p \in Processes
  BY <1>0, <1>1 DEF TypeOK
<1>4. \A v \in Writers : /\ writer'[v].fd = writer[v].fd
                         /\ writer'[v].pc \in {"idle", "writing"} => writer'[v] = writer[v]
                         /\ Writing(v)' => Writing(v)
  BY <1>2 DEF Writing
<1>11. TypeOK'
  <2>1. temp' \in [Processes -> Inodes \cup {NoFile}]
    BY <1>0 DEF TypeOK
  <2>2. writer' \in [Writers -> [pc : {"idle", "writing"} \cup Ended,
                                fd : Inodes \cup {NoFile}, at : Nat]]
    BY <1>0, <1>2 DEF TypeOK
  <2>3. ASSUME NEW v \in Writers
        PROVE  /\ writer'[v].at <= Size[v]
               /\ writer'[v].pc = "writing" => writer'[v].fd # NoFile
    <3>1. CASE v = w
      BY <3>1, <1>0, <1>2 DEF TypeOK
    <3>2. CASE v # w
      BY <3>2, <1>0, <1>2 DEF TypeOK
    <3> QED BY <3>1, <3>2
  <2> QED BY <1>0, <2>1, <2>2, <2>3 DEF TypeOK
<1>12. SharedInv'
  BY <1>0, <1>4 DEF SharedInv
<1>13. WriterInv'
  <2> SUFFICES ASSUME NEW v \in Writers, Writing(v)'
               PROVE  /\ writer'[v].fd \in shared' \/ inode'[writer'[v].fd] = Copies(v, writer'[v].at)
                      /\ temp'[ProcessOf[v]] \in {writer'[v].fd, NoFile} \cup shared'
    BY DEF WriterInv
  <2>1. Writing(v) /\ writer'[v] = writer[v] /\ ProcessOf[v] \in Processes
    BY <1>0, <1>4, Types DEF Writing
  <2> QED BY <1>0, <1>3, <2>1 DEF WriterInv
<1>14. OwnInv'
  <2> SUFFICES ASSUME NEW v \in Writers, Writing(v)'
               PROVE  /\ \A q \in Processes : temp'[q] = writer'[v].fd => q = ProcessOf[v]
                      /\ \A u \in Writers : (Writing(u)' /\ writer'[u].fd = writer'[v].fd) =>
                           ProcessOf[u] = ProcessOf[v]
    BY DEF OwnInv
  <2>1. Writing(v) /\ writer[v].fd # NoFile
    BY <1>0, <1>4 DEF Writing, TypeOK
  <2> QED BY <1>0, <1>3, <1>4, <2>1 DEF OwnInv
<1>15. NameInv'
  <2>1. ASSUME NEW q \in Processes PROVE temp'[q] # path'
    <3>1. CASE q = p
      BY <3>1, <1>0, <1>3
    <3>2. CASE q # p
      BY <3>2, <1>0, <1>1, <1>3 DEF NameInv
    <3> QED BY <3>1, <3>2
  <2>2. \A q, o \in Processes : temp'[q] = temp'[o] /\ temp'[q] # NoFile => q = o
    BY <1>0, <1>3 DEF NameInv
  <2> QED BY <2>1, <2>2 DEF NameInv
<1>16. FreshInv'
  <2> SUFFICES ASSUME NEW v \in Writers, writer'[v].pc = "idle"
               PROVE  /\ v # path' /\ \A q \in Processes : temp'[q] # v
                      /\ \A u \in Writers : writer'[u].fd # v
                      /\ \A r \in Readers : reader'[r].fd # v
    BY DEF FreshInv
  <2>1. writer[v].pc = "idle" /\ v \in Inodes
    BY <1>4, Types, <1>0
  <2> QED BY <2>1, <1>0, <1>1, <1>3, <1>4 DEF FreshInv
<1>17. ReaderInv'
  <2> SUFFICES ASSUME NEW r \in Readers
               PROVE  /\ reader'[r].pc # "idle" => \A q \in Processes : temp'[q] # reader'[r].fd
                      /\ reader'[r].pc = "reading" => Reads(r)'
                      /\ reader'[r].pc = "read" => HasRead(r)'
    BY DEF ReaderInv
  <2>1. ASSUME reader[r].pc # "idle", NEW q \in Processes PROVE temp'[q] # reader[r].fd
    <3>1. reader[r].fd # NoFile
      BY <1>0, <2>1 DEF TypeOK
    <3> QED BY <1>0, <1>3, <2>1, <3>1 DEF ReaderInv
  <2>2. reader[r].pc = "reading" => Reads(r)'
    BY <1>0, <1>4 DEF ReaderInv, Reads, Prefix
  <2> QED BY <1>0, <2>1, <2>2 DEF ReaderInv, HasRead, Whole
<1> QED BY <1>11, <1>12, <1>13, <1>14, <1>15, <1>16, <1>17 DEF IInv, FilesInv

\* What is renamed is the writer's own whole file, unless it was shared.
LEMMA RenameInv ==
  ASSUME IInv, NEW w \in Writers, Rename(w)
  PROVE  IInv' /\ (inode'[path'] = Whole(w) \/ path' \in shared')
<1>1. /\ TypeOK /\ SharedInv /\ WriterInv /\ OwnInv
      /\ Writing(w) /\ writer[w].at = Size[w] /\ w \in Inodes
      /\ path' = temp[ProcessOf[w]] /\ path' # NoFile /\ path' \in Inodes
  BY Types DEF IInv, FilesInv, Rename, Writing, TypeOK
<1>2. /\ inode' = inode /\ shared' = shared /\ "done" \in Ended
      /\ writer' = [writer EXCEPT ![w].pc = "done"]
  BY DEF Rename, Ended
<1>3. ASSUME path' \notin shared
      PROVE  /\ path' = writer[w].fd /\ inode[path'] = Whole(w)
             /\ \A v \in Writers : Writing(v)' => writer'[v].fd # path'
  <2>1. path' = writer[w].fd
    BY <1>1, <1>3 DEF WriterInv
  <2>2. inode[path'] = Whole(w)
    BY <1>1, <1>3, <2>1 DEF WriterInv, Whole, Copies
  <2>3. ASSUME NEW v \in Writers, Writing(v)', writer'[v].fd = path'
        PROVE  FALSE
    <3>1. v # w /\ writer'[v] = writer[v] /\ Writing(v)
      BY <1>1, <1>2, <2>3 DEF TypeOK, Writing
    <3>2. ProcessOf[v] = ProcessOf[w]
      BY <1>1, <2>1, <2>3, <3>1 DEF OwnInv
    <3> QED BY <1>1, <1>3, <2>1, <3>1, <3>2 DEF SharedInv
  <2> QED BY <2>1, <2>2, <2>3
<1>4. PathInv'
  BY <1>1, <1>2, <1>3 DEF PathInv, Whole
<1>5. IInv'
  BY <1>1, <1>2, <1>4, StopInv DEF Rename
<1> QED BY <1>2, <1>3, <1>5

LEMMA GiveUpInv ==
  ASSUME IInv, NEW w \in Writers, GiveUp(w)
  PROVE  IInv'
<1>1. TypeOK /\ PathInv
  BY DEF IInv, FilesInv
<1>2. "failed" \in Ended /\ path' = path /\ path' \in Inodes /\ inode' = inode
      /\ shared' = shared /\ writer' = [writer EXCEPT ![w].pc = "failed"]
  BY <1>1 DEF Ended, GiveUp, TypeOK
<1>3. \A v \in Writers : Writing(v)' => Writing(v) /\ writer'[v].fd = writer[v].fd
  BY <1>1, <1>2 DEF TypeOK, Writing
<1>4. PathInv'
  BY <1>1, <1>2, <1>3 DEF PathInv, Whole
<1> QED BY <1>2, <1>4, StopInv DEF GiveUp

\* A process dies: nothing else changes, its temporary file keeps its name.
LEMMA DieInv ==
  ASSUME IInv, NEW p \in Processes, Die(p)
  PROVE  IInv'
<1>0. /\ TypeOK /\ SharedInv /\ WriterInv /\ OwnInv /\ NameInv /\ FreshInv /\ PathInv
      /\ ReaderInv
  BY DEF IInv, FilesInv
<1>1. /\ inode' = inode /\ path' = path /\ temp' = temp /\ reader' = reader
      /\ shared' = shared
      /\ writer' = [w \in Writers |->
            IF ProcessOf[w] = p /\ writer[w].pc = "writing"
            THEN [writer[w] EXCEPT !.pc = "dead"] ELSE writer[w]]
  BY DEF Die
<1>2. ASSUME NEW w \in Writers
      PROVE  /\ \/ writer'[w] = writer[w]
                \/ /\ writer'[w] = [writer[w] EXCEPT !.pc = "dead"]
                   /\ writer[w].pc = "writing"
             /\ writer'[w] \in [pc : {"idle", "writing"} \cup Ended,
                                fd : Inodes \cup {NoFile}, at : Nat]
             /\ writer'[w].at = writer[w].at /\ writer'[w].fd = writer[w].fd
  BY <1>0, <1>1 DEF TypeOK, Ended
<1>3. \A w \in Writers : writer'[w].pc \in {"idle", "writing"} => writer'[w] = writer[w]
  BY <1>0, <1>2 DEF TypeOK
<1>4. \A w \in Writers : Writing(w)' => Writing(w)
  BY <1>3 DEF Writing
<1>11. TypeOK'
  <2>1. writer' \in [Writers -> [pc : {"idle", "writing"} \cup Ended,
                                fd : Inodes \cup {NoFile}, at : Nat]]
    BY <1>1, <1>2
  <2>2. \A w \in Writers : writer'[w].at <= Size[w]
    BY <1>0, <1>2 DEF TypeOK
  <2>3. \A w \in Writers : writer'[w].pc = "writing" => writer'[w].fd # NoFile
    BY <1>0, <1>3 DEF TypeOK
  <2> QED BY <1>0, <1>1, <2>1, <2>2, <2>3 DEF TypeOK
<1>12. SharedInv' /\ OwnInv'
  BY <1>0, <1>1, <1>2, <1>4 DEF SharedInv, OwnInv
<1>13. WriterInv'
  BY <1>0, <1>1, <1>2, <1>4 DEF WriterInv, Copies
<1>14. NameInv' /\ PathInv'
  BY <1>0, <1>1, <1>2, <1>4 DEF NameInv, PathInv, Whole
<1>15. FreshInv'
  BY <1>0, <1>1, <1>2, <1>3 DEF FreshInv
<1>16. ReaderInv'
  BY <1>0, <1>1, <1>2, <1>4 DEF ReaderInv, Reads, HasRead, Prefix, Whole
<1> QED BY <1>11, <1>12, <1>13, <1>14, <1>15, <1>16 DEF IInv, FilesInv

-----------------------------------------------------------------------------
(* Readers.                                                                *)

\* A step of a reader leaves the files as they are.
LEMMA ReaderStep ==
  ASSUME IInv, NEW r \in Readers, NEW row, reader' = [reader EXCEPT ![r] = row],
         UNCHANGED <<inode, path, temp, writer, shared>>,
         row \in [pc : {"idle", "reading", "read"}, fd : Inodes \cup {NoFile},
                  got : Seq(Writers \cup {Original, Hole})],
         row.pc # "idle", row.fd \in Inodes, \A w \in Writers : writer[w].pc = "idle" => row.fd # w,
         \A p \in Processes : temp[p] # row.fd,
         row.pc = "reading" =>
           \/ row.fd \in shared
           \/ /\ \E w \in Inodes : inode[row.fd] = Whole(w) /\ Prefix(row.got, w)
              /\ \A v \in Writers : Writing(v) => writer[v].fd # row.fd,
         row.pc = "read" =>
           row.fd \in shared \/ \E w \in Inodes : row.got = Whole(w)
  PROVE  IInv'
<1>0. /\ TypeOK /\ SharedInv /\ WriterInv /\ OwnInv /\ NameInv /\ FreshInv /\ PathInv
      /\ ReaderInv /\ NoFile \notin Inodes
  BY Types DEF IInv, FilesInv
<1>1. reader'[r] = row /\ \A x \in Readers : x # r => reader'[x] = reader[x]
  BY <1>0 DEF TypeOK
<1>2. TypeOK'
  <2>1. reader' \in [Readers -> [pc : {"idle", "reading", "read"},
                                fd : Inodes \cup {NoFile},
                                got : Seq(Writers \cup {Original, Hole})]]
    BY <1>0 DEF TypeOK
  <2>2. \A x \in Readers : reader'[x].pc # "idle" => reader'[x].fd # NoFile
    BY <1>0, <1>1 DEF TypeOK
  <2> QED BY <1>0, <2>1, <2>2 DEF TypeOK
<1>3. \A v \in Writers : Writing(v)' <=> Writing(v)
  BY DEF Writing
<1>4. SharedInv' /\ WriterInv' /\ OwnInv' /\ NameInv' /\ PathInv'
  BY <1>0, <1>3 DEF SharedInv, WriterInv, OwnInv, NameInv, PathInv, Copies, Whole
<1>5. FreshInv'
  BY <1>0, <1>1 DEF FreshInv
<1>6. ReaderInv'
  <2> SUFFICES ASSUME NEW x \in Readers
               PROVE  /\ reader'[x].pc # "idle" => \A q \in Processes : temp'[q] # reader'[x].fd
                      /\ reader'[x].pc = "reading" => Reads(x)'
                      /\ reader'[x].pc = "read" => HasRead(x)'
    BY DEF ReaderInv
  <2>1. CASE x = r
    <3>1. reader'[x] = row
      BY <1>1, <2>1
    <3>2. \A q \in Processes : temp'[q] # reader'[x].fd
      BY <3>1
    <3>3. ASSUME row.pc = "reading" PROVE Reads(x)'
      <4>1. CASE row.fd \in shared
        BY <4>1, <3>1 DEF Reads
      <4>2. CASE row.fd \notin shared
        <5>1. PICK w \in Inodes : inode[row.fd] = Whole(w) /\ Prefix(row.got, w)
          BY <3>3, <4>2
        <5>2. inode'[reader'[x].fd] = Whole(w) /\ Prefix(reader'[x].got, w)
          BY <3>1, <5>1
        <5>3. \A v \in Writers : Writing(v)' => writer'[v].fd # reader'[x].fd
          BY <1>3, <3>1, <3>3, <4>2
        <5> QED BY <5>2, <5>3 DEF Reads, Prefix, Whole
      <4> QED BY <4>1, <4>2
    <3>4. ASSUME row.pc = "read" PROVE HasRead(x)'
      <4>1. reader'[x].fd \in shared' \/ \E w \in Inodes : reader'[x].got = Whole(w)
        BY <3>1, <3>4
      <4> QED BY <4>1 DEF HasRead, Whole
    <3> QED BY <3>1, <3>2, <3>3, <3>4
  <2>2. CASE x # r
    BY <1>0, <1>1, <1>3, <2>2 DEF ReaderInv, Reads, HasRead, Prefix, Whole
  <2> QED BY <2>1, <2>2
<1> QED BY <1>2, <1>4, <1>5, <1>6 DEF IInv, FilesInv

\* What a reader opens is whole and out of every writer's reach, or shared.
LEMMA OpenInv ==
  ASSUME IInv, NEW r \in Readers, Open(r)
  PROVE  IInv'
<1>0. TypeOK /\ NameInv /\ FreshInv /\ PathInv
  BY DEF IInv, FilesInv
<1>1. PICK row : row = [pc |-> "reading", fd |-> path, got |-> <<>>]
  OBVIOUS
<1>2. /\ reader' = [reader EXCEPT ![r] = row]
      /\ UNCHANGED <<inode, path, temp, writer, shared>>
  BY <1>1 DEF Open
<1>3. /\ row \in [pc : {"idle", "reading", "read"}, fd : Inodes \cup {NoFile},
                  got : Seq(Writers \cup {Original, Hole})]
      /\ row.pc = "reading" /\ row.fd = path /\ path \in Inodes /\ row.got = <<>>
  BY <1>0, <1>1, EmptySeq DEF TypeOK
<1>4. \A w \in Inodes : Prefix(<<>>, w)
  BY SizeIs, EmptySeq DEF Prefix
<1>5. \/ path \in shared
      \/ /\ \E w \in Inodes : inode[path] = Whole(w) /\ Prefix(<<>>, w)
         /\ \A v \in Writers : Writing(v) => writer[v].fd # path
  BY <1>0, <1>4 DEF PathInv
<1>6. /\ \A p \in Processes : temp[p] # path
      /\ \A w \in Writers : writer[w].pc = "idle" => path # w
  BY <1>0 DEF NameInv, FreshInv
<1> QED BY <1>2, <1>3, <1>5, <1>6, ReaderStep

\* One more chunk of a whole file, or of whatever was shared.
LEMMA ReadInv ==
  ASSUME IInv, NEW r \in Readers, ReadChunk(r)
  PROVE  IInv'
<1>0. /\ TypeOK /\ FreshInv /\ ReaderInv /\ reader[r].pc = "reading"
      /\ reader[r].fd \in Inodes
  BY Types DEF IInv, FilesInv, ReadChunk
<1>1. PICK got, f : got = reader[r].got /\ f = reader[r].fd
  OBVIOUS
<1>2. /\ Len(got) + 1 <= Len(inode[f]) /\ got \in Seq(Writers \cup {Original, Hole})
      /\ f \in Inodes /\ inode[f] \in Seq(Writers \cup {Original, Hole})
  BY <1>0, <1>1 DEF TypeOK, ReadChunk
<1>3. PICK c : c = inode[f][Len(got) + 1]
  OBVIOUS
<1>4. c \in Writers \cup {Original, Hole}
  BY <1>2, <1>3, ElementOfSeq, LenProperties
<1>5. PICK row : row = [pc |-> "reading", fd |-> f, got |-> Append(got, c)]
  OBVIOUS
<1>6. reader[r] = [pc |-> "reading", fd |-> f, got |-> got]
  BY <1>0, <1>1 DEF TypeOK
<1>7. /\ reader' = [reader EXCEPT ![r] = row]
      /\ UNCHANGED <<inode, path, temp, writer, shared>>
  <2>1. PICK more : more = Append(got, c)
    OBVIOUS
  <2>2. reader' = [reader EXCEPT ![r].got = more]
    BY <1>1, <1>3, <2>1 DEF ReadChunk
  <2>3. reader' = [reader EXCEPT ![r] = [reader[r] EXCEPT !.got = more]]
    BY <2>2
  <2>4. [reader[r] EXCEPT !.got = more] = row
    <3>1. row = [pc |-> "reading", fd |-> f, got |-> more]
      BY <1>5, <2>1
    <3>2. PICK old : old = reader[r]
      OBVIOUS
    <3>3. old = [pc |-> "reading", fd |-> f, got |-> got]
      BY <1>6, <3>2
    <3>4. [old EXCEPT !.got = more] = [pc |-> "reading", fd |-> f, got |-> more]
      BY ONLY <3>3, SMT
    <3> QED BY ONLY <3>1, <3>2, <3>4
  <2> QED BY <2>3, <2>4 DEF ReadChunk
<1>8. Append(got, c) \in Seq(Writers \cup {Original, Hole})
  BY <1>2, <1>4, AppendProperties
<1>9. /\ row \in [pc : {"idle", "reading", "read"}, fd : Inodes \cup {NoFile},
                  got : Seq(Writers \cup {Original, Hole})]
      /\ row.pc = "reading" /\ row.fd = f /\ row.got = Append(got, c)
  BY <1>2, <1>5, <1>8
<1>10. \/ f \in shared
       \/ /\ \E w \in Inodes : inode[f] = Whole(w) /\ Prefix(Append(got, c), w)
          /\ \A v \in Writers : Writing(v) => writer[v].fd # f
  <2>1. SUFFICES ASSUME f \notin shared
                 PROVE  /\ \E w \in Inodes : inode[f] = Whole(w) /\ Prefix(Append(got, c), w)
                        /\ \A v \in Writers : Writing(v) => writer[v].fd # f
    OBVIOUS
  <2>2. /\ \E w \in Inodes : inode[f] = Whole(w) /\ Prefix(got, w)
        /\ \A v \in Writers : Writing(v) => writer[v].fd # f
    BY <1>0, <1>1, <2>1 DEF ReaderInv, Reads
  <2>3. PICK w \in Inodes : inode[f] = Whole(w) /\ Prefix(got, w)
    BY <2>2
  <2>4. Len(got) \in Nat /\ Len(got) + 1 <= Size[w]
    BY <1>2, <2>3, WholeIs, LenProperties
  <2>5. c = w
    BY <1>3, <2>3, <2>4, SizeIs DEF Whole
  <2> QED BY <1>2, <2>2, <2>3, <2>4, <2>5, ReadNext
<1>11. /\ \A p \in Processes : temp[p] # f
       /\ \A w \in Writers : writer[w].pc = "idle" => f # w
  BY <1>0, <1>1 DEF ReaderInv, FreshInv
<1> QED BY <1>2, <1>7, <1>9, <1>10, <1>11, ReaderStep

\* The end of a whole file: the reader has all of it.
LEMMA EndInv ==
  ASSUME IInv, NEW r \in Readers, EndOfFile(r)
  PROVE  IInv'
<1>0. /\ TypeOK /\ FreshInv /\ ReaderInv /\ reader[r].pc = "reading"
      /\ reader[r].fd \in Inodes
  BY Types DEF IInv, FilesInv, EndOfFile
<1>1. PICK got, f : got = reader[r].got /\ f = reader[r].fd
  OBVIOUS
<1>2. /\ Len(got) >= Len(inode[f]) /\ got \in Seq(Writers \cup {Original, Hole})
      /\ f \in Inodes
  BY <1>0, <1>1 DEF TypeOK, EndOfFile
<1>3. PICK row : row = [pc |-> "read", fd |-> f, got |-> got]
  OBVIOUS
<1>4. reader[r] = [pc |-> "reading", fd |-> f, got |-> got]
  BY <1>0, <1>1 DEF TypeOK
<1>5. /\ reader' = [reader EXCEPT ![r] = row]
      /\ UNCHANGED <<inode, path, temp, writer, shared>>
  <2>1. reader' = [reader EXCEPT ![r] = [reader[r] EXCEPT !.pc = "read"]]
    BY <1>0 DEF EndOfFile, TypeOK
  <2>2. [reader[r] EXCEPT !.pc = "read"] = row
    BY <1>3, <1>4
  <2> QED BY <2>1, <2>2 DEF EndOfFile
<1>6. /\ row \in [pc : {"idle", "reading", "read"}, fd : Inodes \cup {NoFile},
                  got : Seq(Writers \cup {Original, Hole})]
      /\ row.pc = "read" /\ row.fd = f /\ row.got = got
  BY <1>2, <1>3
<1>7. f \in shared \/ \E w \in Inodes : got = Whole(w)
  <2>1. SUFFICES ASSUME f \notin shared PROVE \E w \in Inodes : got = Whole(w)
    OBVIOUS
  <2>2. PICK w \in Inodes : inode[f] = Whole(w) /\ Prefix(got, w)
    BY <1>0, <1>1, <2>1 DEF ReaderInv, Reads
  <2>3. Len(got) = Size[w]
    <3>1. Len(Whole(w)) = Size[w] /\ Size[w] \in Nat
      BY WholeIs
    <3>2. Len(got) \in Nat /\ Len(got) <= Size[w] /\ Len(got) >= Size[w]
      BY <3>1, <1>2, <2>2, LenProperties DEF Prefix
    <3> QED BY <3>1, <3>2
  <2> QED BY <2>2, <2>3 DEF Prefix, Whole
<1>8. /\ \A p \in Processes : temp[p] # f
      /\ \A w \in Writers : writer[w].pc = "idle" => f # w
  BY <1>0, <1>1 DEF ReaderInv, FreshInv
<1> QED BY <1>2, <1>5, <1>6, <1>7, <1>8, ReaderStep

LEMMA StepInv ==
  ASSUME IInv, [Next]_vars
  PROVE  IInv'
<1>1. ASSUME NEW w \in Writers, Create(w) \/ WriteChunk(w) \/ Rename(w) \/ GiveUp(w)
      PROVE  IInv'
  BY <1>1, CreateInv, WriteInv, RenameInv, GiveUpInv
<1>2. ASSUME NEW p \in Processes, Die(p)
      PROVE  IInv'
  BY <1>2, DieInv
<1>3. ASSUME NEW r \in Readers, Open(r) \/ ReadChunk(r) \/ EndOfFile(r)
      PROVE  IInv'
  BY <1>3, OpenInv, ReadInv, EndInv
<1>4. CASE UNCHANGED vars
  <2>0. /\ inode' = inode /\ path' = path /\ temp' = temp /\ writer' = writer
        /\ reader' = reader /\ shared' = shared
    BY <1>4 DEF vars
  <2>1. TypeOK' = TypeOK
    BY <2>0 DEF TypeOK
  <2>2. \A w \in Writers : Writing(w)' = Writing(w)
    BY <2>0 DEF Writing
  <2>3. SharedInv' = SharedInv /\ OwnInv' = OwnInv /\ NameInv' = NameInv
    BY <2>0, <2>2 DEF SharedInv, OwnInv, NameInv
  <2>4. WriterInv' = WriterInv /\ FreshInv' = FreshInv /\ PathInv' = PathInv
    BY <2>0, <2>2 DEF WriterInv, FreshInv, PathInv, Copies, Whole
  <2>5. \A r \in Readers : Reads(r)' = Reads(r) /\ HasRead(r)' = HasRead(r)
    BY <2>0, <2>2 DEF Reads, HasRead, Prefix, Whole
  <2>6. ReaderInv' = ReaderInv
    BY <2>0, <2>5 DEF ReaderInv
  <2> QED BY <2>1, <2>3, <2>4, <2>6 DEF IInv, FilesInv
<1> QED BY <1>1, <1>2, <1>3, <1>4 DEF Next

-----------------------------------------------------------------------------

LEMMA Invariant == Spec => []IInv
<1>1. Init => IInv
  BY InitInv
<1>2. IInv /\ [Next]_vars => IInv'
  BY StepInv
<1> QED BY <1>1, <1>2, PTL DEF Spec

\* Whoever writes, fails or dies, and however calls overlap: the path names one
\* writer's whole data and a reader reads nothing else, but for the files that
\* overlapping calls of one process had in hand.
THEOREM WholeFiles == Spec => []ReadersSeeWholeFiles
<1>1. IInv => ReadersSeeWholeFiles
  BY DEF IInv, FilesInv, PathInv, ReaderInv, HasRead, ReadersSeeWholeFiles
<1> QED BY <1>1, Invariant, PTL

\* And a call that reports success has put its own data in place, but for these
\* files.
THEOREM SuccessfulWrite == Spec => SuccessIsInPlace
<1> DEFINE A == \A w \in Writers : (writer[w].pc # "done" /\ writer'[w].pc = "done") =>
                                     inode'[path'] = Whole(w) \/ path' \in shared
<1>1. IInv /\ [Next]_vars => [A]_vars
  <2> SUFFICES ASSUME IInv, Next, NEW w \in Writers, writer[w].pc # "done",
                      writer'[w].pc = "done"
               PROVE  inode'[path'] = Whole(w) \/ path' \in shared
    OBVIOUS
  <2>0. TypeOK
    BY DEF IInv
  <2>1. CASE \E v \in Writers : Create(v)
    BY <2>1, <2>0 DEF Create, TypeOK
  <2>2. CASE \E v \in Writers : WriteChunk(v)
    BY <2>2, <2>0 DEF WriteChunk, TypeOK
  <2>3. ASSUME NEW v \in Writers, Rename(v)
        PROVE  inode'[path'] = Whole(w) \/ path' \in shared
    <3>1. v = w /\ shared' = shared
      BY <2>3, <2>0 DEF Rename, TypeOK
    <3> QED BY <2>3, <3>1, RenameInv
  <2>4. CASE \E v \in Writers : GiveUp(v)
    BY <2>4, <2>0 DEF GiveUp, TypeOK
  <2>5. CASE \E p \in Processes : Die(p)
    BY <2>5, <2>0 DEF Die, TypeOK
  <2>6. CASE \E r \in Readers : Open(r) \/ ReadChunk(r) \/ EndOfFile(r)
    BY <2>6 DEF Open, ReadChunk, EndOfFile
  <2> QED BY <2>1, <2>2, <2>3, <2>4, <2>5, <2>6 DEF Next
<1>2. Spec => []IInv
  BY Invariant
<1> QED BY <1>1, <1>2, PTL DEF Spec, SuccessIsInPlace
===============================================================================
