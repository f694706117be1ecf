-------------------------- MODULE SnapshotReadProofs --------------------------
(***************************************************************************)
(* Proofs about SnapshotRead, for files of any length, any limit and any   *)
(* number of changes: the read made of many system calls implements one    *)
(* that sees the file at a single instant.                                 *)
(***************************************************************************)
EXTENDS SnapshotRead, SequenceTheorems, TLAPS

\* b is how d begins.
Prefix(b, d) == Len(b) <= Len(d) /\ \A k \in 1..Len(b) : b[k] = d[k]

\* The strengthening.  What was read of the file is how it begins as long as its
\* stamp is the first one: a change after the first look leaves a change time
\* that is later than the one in that stamp, when the clock had moved on.
Before ==
    /\ pc \in {"open", "compare", "read", "recheck", "finish"} =>
          before.regular /\ before.ino \in Inode /\ (settled => before.ctime < now)
    /\ pc \in {"compare", "read", "recheck", "finish"} => handle \in Inode
    /\ pc \in {"read", "recheck", "finish"} => handle = before.ino
    /\ pc \in {"start", "open", "compare", "done"} => buf = <<>>
Asked ==
    /\ pc # "done" <=> answer = Pending
    /\ pc = "start" => settled = TRUE
ReadSoFar ==
    pc \in {"read", "recheck", "finish"} /\ settled /\ Stamp(handle) = before =>
        Prefix(buf, inode[handle].data)

Inv == TypeOK /\ Before /\ Asked /\ ReadSoFar

-----------------------------------------------------------------------------
LEMMA FingerprintIsAnswer ==
    ASSUME NEW v \in Views, NEW h \in BOOLEAN
    PROVE  Fingerprint(v, h) # Pending
<1>1. Fingerprint(v, h).kind = v.kind /\ Pending.kind = "pending"
  BY DEF Fingerprint, Pending
<1>2. v.kind # "pending"
  BY DEF Views, Kinds
<1> QED
  BY <1>1, <1>2

LEMMA FailedIsAnswer == \A e : Failed(e) # Pending
<1> TAKE e
<1>1. Failed(e).kind = "error" /\ Pending.kind = "pending"
  BY DEF Failed, Pending
<1> QED
  BY <1>1

LEMMA StampType ==
    ASSUME TypeOK, NEW n \in Inode
    PROVE  /\ Stamp(n) \in Stamps
           /\ Stamp(n).ino = n /\ Stamp(n).ctime = inode[n].ctime
           /\ Stamp(n).size = Len(inode[n].data) /\ Stamp(n).modified = inode[n].mtime
           /\ Stamp(n).regular = (inode[n].kind = "file")
<1>1. inode[n] \in FileRecord
  BY DEF TypeOK
<1>2. Len(inode[n].data) \in Nat
  BY <1>1 DEF FileRecord
<1> QED
  BY <1>1, <1>2 DEF Stamp, Stamps, FileRecord

LEMMA ViewType == TypeOK => ViewOf(path) \in Views
<1> SUFFICES ASSUME TypeOK PROVE ViewOf(path) \in Views
  OBVIOUS
<1>1. CASE path = NoInode
  BY <1>1 DEF ViewOf, Views
<1>2. CASE path # NoInode
  <2>1. inode[path] \in FileRecord
    BY <1>2 DEF TypeOK
  <2> QED
    BY <1>2, <2>1 DEF ViewOf, Views, FileRecord
<1> QED
  BY <1>1, <1>2

LEMMA NoStampType == NoStamp \in Stamps
BY DEF NoStamp, Stamps

LEMMA FaultType ==
    ASSUME TypeOK, Fault \/ NoFault
    PROVE  faults' \in 0..MaxFaults
BY SnapshotAssumption DEF TypeOK, Fault, NoFault

\* A read that returns is done, with an answer.
LEMMA ReturnInv ==
    ASSUME Inv, NEW a, Return(a), a # Pending, UNCHANGED <<files, dirty>>, Fault \/ NoFault
    PROVE  Inv'
<1>1. TypeOK'
  <2>1. faults' \in 0..MaxFaults
    BY FaultType DEF Inv
  <2>2. <<>> \in Seq(Block)
    OBVIOUS
  <2> QED
    BY <2>1, <2>2, NoStampType DEF Inv, TypeOK, Return, files, PCs
<1>2. Before' /\ Asked' /\ ReadSoFar'
  BY DEF Return, Before, Asked, ReadSoFar
<1> QED
  BY <1>1, <1>2 DEF Inv

-----------------------------------------------------------------------------
(* The invariant *)

LEMMA ReaderInv == Inv /\ Reader => Inv'
<1> SUFFICES ASSUME Inv, Reader PROVE Inv'
  OBVIOUS
<1> USE DEF PCs
<1>c. /\ TypeOK /\ Before /\ Asked /\ ReadSoFar
      /\ \A e : Failed(e) # Pending
      /\ \A n \in Inode : inode[n] \in FileRecord
  BY FailedIsAnswer DEF Inv, TypeOK
<1>1. CASE StatPath
  <2>1. Fingerprint(ViewOf(path), FALSE) # Pending
    BY <1>c, ViewType, FingerprintIsAnswer
  <2>2. CASE \E a : a # Pending /\ Return(a)
    <3>1. UNCHANGED <<files, dirty>> /\ (Fault \/ NoFault)
      BY <1>1 DEF StatPath
    <3> QED
      BY <2>2, <3>1, ReturnInv
  <2>3. CASE /\ ToRead /\ before' = Stamp(path) /\ settled' = (inode[path].ctime < now)
             /\ pc' = "open" /\ NoFault
             /\ UNCHANGED <<content, handle, buf, after, answer, files, dirty>> /\ pc = "start"
    <3>1. path \in Inode /\ inode[path].kind = "file"
      BY <1>c, <2>3 DEF ToRead, TypeOK
    <3>2. /\ before' \in Stamps /\ before'.ino = path /\ before'.regular
          /\ before'.ctime = inode[path].ctime
      BY <1>c, <2>3, <3>1, StampType
    <3>3. settled' \in BOOLEAN /\ faults' \in 0..MaxFaults
      BY <1>c, <2>3, FaultType
    <3>4. TypeOK'
      BY <1>c, <2>3, <3>2, <3>3 DEF TypeOK, files
    <3>5. Before' /\ Asked' /\ ReadSoFar'
      BY <1>c, <2>3, <3>1, <3>2 DEF Before, Asked, ReadSoFar, files
    <3> QED
      BY <3>4, <3>5 DEF Inv
  <2> QED
    BY <1>c, <1>1, <2>1, <2>2, <2>3 DEF StatPath
<1>2. CASE Open
  <2>1. CASE \E a : a # Pending /\ Return(a)
    BY <1>2, <2>1, ReturnInv DEF Open
  <2>2. CASE /\ path # NoInode /\ handle' = path /\ pc' = "compare" /\ NoFault
             /\ UNCHANGED <<content, before, buf, after, settled, answer, files, dirty>>
             /\ pc = "open"
    <3>1. TypeOK'
      BY <1>c, <2>2, FaultType DEF TypeOK, files
    <3>2. Before' /\ Asked' /\ ReadSoFar'
      BY <1>c, <2>2 DEF Before, Asked, ReadSoFar, files, TypeOK
    <3> QED
      BY <3>1, <3>2 DEF Inv
  <2> QED
    BY <1>c, <1>2, <2>1, <2>2 DEF Open
<1>3. CASE CompareHandle
  <2>1. CASE \E a : a # Pending /\ Return(a)
    BY <1>3, <2>1, ReturnInv DEF CompareHandle
  <2>2. CASE /\ Stamp(handle) = before /\ pc' = "read" /\ NoFault
             /\ UNCHANGED <<content, before, handle, buf, after, settled, answer, files, dirty>>
             /\ pc = "compare"
    <3>1. TypeOK'
      BY <1>c, <2>2, FaultType DEF TypeOK, files
    <3>2. handle \in Inode /\ handle = before.ino /\ buf = <<>>
      BY <1>c, <2>2, StampType DEF Before
    <3>3. Prefix(buf, inode[handle].data)
      BY <1>c, <3>2 DEF Prefix, FileRecord
    <3>4. Before' /\ Asked' /\ ReadSoFar'
      BY <1>c, <2>2, <3>2, <3>3 DEF Before, Asked, ReadSoFar, files
    <3> QED
      BY <3>1, <3>4 DEF Inv
  <2> QED
    BY <1>c, <1>3, <2>1, <2>2 DEF CompareHandle
<1>4. CASE ReadBlock
  <2> DEFINE d == inode[handle].data
  <2>1. /\ handle \in Inode /\ d \in Seq(Block) /\ buf \in Seq(Block) /\ pc = "read"
        /\ Len(d) \in Nat /\ Len(buf) \in Nat
    BY <1>c, <1>4 DEF ReadBlock, Before, FileRecord, TypeOK
  <2>2. CASE \E a : a # Pending /\ Return(a)
    BY <1>4, <2>2, ReturnInv DEF ReadBlock
  <2>3. CASE /\ Len(buf) < Len(d) /\ buf' = Append(buf, d[Len(buf) + 1]) /\ NoFault
             /\ UNCHANGED <<pc, content, before, handle, after, settled, answer, files, dirty>>
    <3>1. Len(buf) + 1 \in 1..Len(d)
      BY <2>1, <2>3
    <3>2. d[Len(buf) + 1] \in Block
      BY <2>1, <3>1, ElementOfSeq
    <3>3. /\ buf' \in Seq(Block) /\ Len(buf') = Len(buf) + 1
          /\ \A k \in 1..Len(buf) : buf'[k] = buf[k]
          /\ buf'[Len(buf) + 1] = d[Len(buf) + 1]
      BY <2>1, <2>3, <3>2, AppendProperties
    <3>4. TypeOK'
      BY <1>c, <2>3, <3>3, FaultType DEF TypeOK, files
    <3>5. Before' /\ Asked'
      BY <1>c, <2>1, <2>3 DEF Before, Asked, files
    <3>6. Prefix(buf, d) => Prefix(buf', d)
      BY <2>1, <2>3, <3>3 DEF Prefix
    <3>7. ReadSoFar'
      BY <1>c, <2>1, <2>3, <3>6 DEF ReadSoFar, files, Stamp
    <3> QED
      BY <3>4, <3>5, <3>7 DEF Inv
  <2>4. CASE /\ pc' = "recheck" /\ NoFault
             /\ UNCHANGED <<content, before, handle, buf, after, settled, answer, files, dirty>>
    <3>1. TypeOK'
      BY <1>c, <2>4, FaultType DEF TypeOK, files
    <3>2. Before' /\ Asked' /\ ReadSoFar'
      BY <1>c, <2>1, <2>4 DEF Before, Asked, ReadSoFar, files, Stamp
    <3> QED
      BY <3>1, <3>2 DEF Inv
  <2> QED
    BY <1>c, <1>4, <2>2, <2>3, <2>4 DEF ReadBlock
<1>5. CASE RecheckPath
  <2>1. CASE \E a : a # Pending /\ Return(a)
    BY <1>5, <2>1, ReturnInv DEF RecheckPath
  <2>2. CASE /\ path # NoInode /\ after' = Stamp(path) /\ pc' = "finish" /\ NoFault
             /\ UNCHANGED <<content, before, handle, buf, settled, answer, files, dirty>>
             /\ pc = "recheck"
    <3>1. after' \in Stamps
      BY <1>c, <2>2, StampType DEF TypeOK
    <3>2. TypeOK'
      BY <1>c, <2>2, <3>1, FaultType DEF TypeOK, files
    <3>3. Before' /\ Asked' /\ ReadSoFar'
      BY <1>c, <2>2 DEF Before, Asked, ReadSoFar, files, Stamp
    <3> QED
      BY <3>2, <3>3 DEF Inv
  <2> QED
    BY <1>c, <1>5, <2>1, <2>2 DEF RecheckPath
<1>6. CASE Finish
  <2> DEFINE v == [kind |-> "file", mtime |-> before.modified, data |-> buf]
  <2>1. v \in Views
    BY <1>c DEF TypeOK, Views, Kinds, Stamps
  <2>2. Fingerprint(v, TRUE) # Pending
    BY <2>1, FingerprintIsAnswer
  <2>3. \E a : a # Pending /\ Return(a)
    BY <1>c, <1>6, <2>2 DEF Finish
  <2> QED
    BY <1>6, <2>3, ReturnInv DEF Finish
<1>7. CASE NextCall
  <2>1. TypeOK'
    BY <1>c, <1>7 DEF NextCall, TypeOK, files
  <2>2. buf = <<>> => Before' /\ Asked' /\ ReadSoFar'
    BY <1>7 DEF NextCall, Before, Asked, ReadSoFar, files
  <2> QED
    BY <1>c, <1>7, <2>1, <2>2 DEF Inv, Before, NextCall
<1> QED
  BY <1>1, <1>2, <1>3, <1>4, <1>5, <1>6, <1>7 DEF Reader

\* A change of any file keeps the invariant: the open file either keeps its stamp
\* and its data, or gets a change time later than the one first seen.
LEMMA ChangeInv ==
    ASSUME Inv, Changed, inode' \in [Inode -> FileRecord], path' \in Inode \cup {NoInode},
           \A n \in Inode : inode'[n] = inode[n] \/ inode'[n].ctime = now \/ n # handle
    PROVE  Inv'
<1> USE DEF Inv
<1>1. now \in Nat /\ now' \in Nat /\ now <= now'
  BY DEF Changed, TypeOK
<1>2. changes' \in 0..MaxChanges
  BY SnapshotAssumption DEF Changed, TypeOK
<1>3. TypeOK'
  BY <1>1, <1>2 DEF Changed, TypeOK
<1>4. Before' /\ Asked'
  <2>1. before \in Stamps
    BY DEF TypeOK
  <2>2. before.ctime \in Nat
    BY <2>1 DEF Stamps
  <2> QED
    BY <1>1, <2>2 DEF Before, Asked, Changed
<1>5. ReadSoFar'
  <2> SUFFICES ASSUME pc \in {"read", "recheck", "finish"}, settled, Stamp(handle)' = before
               PROVE  Prefix(buf, inode'[handle].data)
    BY DEF ReadSoFar, Changed
  <2>1. handle \in Inode /\ before.ctime < now
    BY DEF Before
  <2>2. Stamp(handle)'.ctime = inode'[handle].ctime
    BY DEF Stamp, Changed
  <2>3. inode'[handle].ctime = before.ctime
    BY <2>2
  <2>4. inode'[handle] = inode[handle]
    BY <1>1, <2>1, <2>3 DEF TypeOK, Stamps
  <2>5. Stamp(handle) = before
    BY <2>4 DEF Stamp, Changed
  <2> QED
    BY <2>4, <2>5 DEF ReadSoFar
<1> QED
  BY <1>3, <1>4, <1>5

\* Writing a file, or setting its times, leaves it a well-formed record.
LEMMA WriteInv ==
    ASSUME Inv, NEW n \in Inode, NEW r \in FileRecord, r.ctime = now, Changed, UNCHANGED path,
           inode' = [inode EXCEPT ![n] = r]
    PROVE  Inv'
<1>1. inode \in [Inode -> FileRecord] /\ path \in Inode \cup {NoInode}
  BY DEF Inv, TypeOK
<1> QED
  BY <1>1, ChangeInv

LEMMA OthersInv == Inv /\ Others => Inv'
<1> SUFFICES ASSUME Inv, Others PROVE Inv'
  OBVIOUS
<1>c. /\ inode \in [Inode -> FileRecord] /\ now \in Nat /\ path \in Inode \cup {NoInode}
      /\ \A n \in Inode : inode[n] \in FileRecord /\ inode[n].data \in Seq(Block)
                          /\ inode[n].mtime \in Nat
  BY DEF Inv, TypeOK, FileRecord
<1>1. CASE Unlink
  BY <1>c, <1>1, ChangeInv DEF Unlink
<1>2. ASSUME NEW n \in Inode, Rename(n) PROVE Inv'
  BY <1>c, <1>2, ChangeInv DEF Rename
<1>3. ASSUME NEW n \in Inode, NEW k \in Kinds, Create(n, k) PROVE Inv'
  <2> DEFINE r == [kind |-> k, data |-> <<>>, mtime |-> now, ctime |-> now]
  <2>1. r \in FileRecord
    BY <1>c DEF FileRecord
  <2>2. inode' = [inode EXCEPT ![n] = r] /\ n # handle /\ Changed /\ UNCHANGED path
    BY <1>3 DEF Create
  <2> HIDE DEF r
  <2> QED
    BY <1>c, <2>1, <2>2, ChangeInv
<1>4. ASSUME NEW n \in Inode, NEW d \in Seq(Block), WriteData(n, d) PROVE Inv'
  <2> DEFINE c == inode[n]
             r == [c EXCEPT !.data = d, !.mtime = now, !.ctime = now]
  <2>1. inode' = [inode EXCEPT ![n] = r] /\ Changed /\ UNCHANGED path /\ c \in FileRecord
    BY <1>c, <1>4 DEF WriteData
  <2> HIDE DEF c
  <2>2. r \in FileRecord /\ r.ctime = now
    BY <1>c, <1>4, <2>1 DEF FileRecord
  <2> HIDE DEF r
  <2> QED
    BY <2>1, <2>2, WriteInv
<1>5. ASSUME NEW n \in Inode, NEW b \in Block, Extend(n, b) PROVE Inv'
  BY <1>c, <1>4, <1>5, AppendProperties DEF Extend
<1>6. ASSUME NEW n \in Inode, NEW b \in Block, NEW k \in 1..Len(inode[n].data), Overwrite(n, k, b)
      PROVE Inv'
  BY <1>c, <1>4, <1>6, ExceptSeq DEF Overwrite
<1>7. ASSUME NEW n \in Inode, NEW k \in 0..(Len(inode[n].data) - 1), Truncate(n, k)
      PROVE Inv'
  <2>1. inode[n].data \in Seq(Block) /\ Len(inode[n].data) \in Nat
    BY <1>c
  <2>2. k \in Int /\ \A i \in 1..k : i \in 1..Len(inode[n].data)
    BY <2>1
  <2>3. \A i \in 1..k : inode[n].data[i] \in Block
    BY <2>1, <2>2, ElementOfSeq
  <2>4. SubSeq(inode[n].data, 1, k) \in Seq(Block)
    BY <2>2, <2>3, SubSeqProperties
  <2> QED
    BY <1>4, <1>7, <2>4 DEF Truncate
<1>8. ASSUME NEW n \in Inode, NEW t \in 0..now, SetTimes(n, t) PROVE Inv'
  <2> DEFINE c == inode[n]
             r == [c EXCEPT !.mtime = t, !.ctime = now]
  <2>1. inode' = [inode EXCEPT ![n] = r] /\ Changed /\ UNCHANGED path /\ c \in FileRecord
    BY <1>c, <1>8 DEF SetTimes
  <2>t. t \in Nat
    BY <1>c
  <2> HIDE DEF c
  <2>2. r \in FileRecord /\ r.ctime = now
    BY <1>c, <2>1, <2>t DEF FileRecord
  <2> HIDE DEF r
  <2> QED
    BY <2>1, <2>2, WriteInv
<1> QED
  BY <1>1, <1>2, <1>3, <1>5, <1>6, <1>7, <1>8 DEF Others

LEMMA InitInv == Init => Inv
<1> SUFFICES ASSUME Init PROVE Inv
  OBVIOUS
<1>1. inode \in [Inode -> FileRecord]
  <2>1. \A b \in Block : <<b>> \in Seq(Block) /\ <<b, b>> \in Seq(Block)
    OBVIOUS
  <2> DEFINE D == {<<b>> : b \in Block} \cup {<<b, b>> : b \in Block}
  <2>2. D \subseteq Seq(Block)
    BY <2>1
  <2> HIDE DEF D
  <2>3. \A d \in D : [kind |-> "file", data |-> d, mtime |-> 0, ctime |-> 0] \in FileRecord
    BY <2>2 DEF FileRecord, Kinds
  <2>4. inode \in [Inode -> {[kind |-> "file", data |-> d, mtime |-> 0, ctime |-> 0] : d \in D}]
    BY DEF Init, D
  <2> QED
    BY <2>3, <2>4
<1>2. 0 \in 0..MaxChanges /\ 0 \in 0..MaxFaults /\ <<>> \in Seq(Block)
  BY SnapshotAssumption
<1>3. /\ path \in Inode \cup {NoInode} /\ now \in Nat /\ changes = 0 /\ faults = 0
      /\ pc = "start" /\ content \in BOOLEAN /\ settled = TRUE /\ dirty = FALSE
      /\ before = NoStamp /\ handle = NoInode /\ buf = <<>> /\ after = NoStamp
  BY DEF Init
<1>4. TypeOK
  BY <1>1, <1>2, <1>3, NoStampType DEF TypeOK, PCs
<1>5. Before /\ Asked /\ ReadSoFar
  BY DEF Init, Before, Asked, ReadSoFar
<1> QED
  BY <1>4, <1>5 DEF Inv

LEMMA StutterInv == Inv /\ UNCHANGED vars => Inv'
<1> SUFFICES ASSUME Inv, UNCHANGED vars PROVE Inv'
  OBVIOUS
<1>1. TypeOK' /\ Before' /\ Asked'
  BY DEF Inv, TypeOK, Before, Asked, vars
<1>2. ReadSoFar'
  BY DEF Inv, ReadSoFar, Stamp, vars
<1> QED
  BY <1>1, <1>2 DEF Inv

LEMMA Invariance == Spec => []Inv
<1>1. Inv /\ [Next]_vars => Inv'
  BY ReaderInv, OthersInv, StutterInv DEF Next
<1> QED
  BY <1>1, InitInv, PTL DEF Spec

-----------------------------------------------------------------------------
(* The refinement *)

LEMMA NothingTaken == pc # "finish" => Taken = {}
BY DEF Taken

\* A read that returns an error, or the metadata of the path, replies.
LEMMA ReplyStep ==
    ASSUME Inv, pc # "done", NEW a, Return(a), UNCHANGED files,
           \/ a \in Failures
           \/ a = Fingerprint(ViewOf(path), FALSE)
           \/ \E v \in Taken : a = Fingerprint(v, TRUE)
           \/ ~settled
    PROVE  Atomic!Reply
<1>1. answer = Pending
  BY DEF Inv, Asked
<1>2. Taken' = {}
  BY DEF Taken, Return
<1>3. ViewOf(path)' = ViewOf(path) /\ settled' = settled /\ answer' = a
  BY DEF ViewOf, Return, files
<1> QED
  BY <1>1, <1>2, <1>3 DEF Atomic!Reply

\* A step of the reader that does not return changes nothing a caller can see.
LEMMA QuietStep ==
    ASSUME UNCHANGED <<files, settled, answer>>, pc # "finish", pc' # "finish"
    PROVE  UNCHANGED Atomic!vars
<1>1. Taken = {} /\ Taken' = {}
  BY DEF Taken
<1>2. ViewOf(path)' = ViewOf(path)
  BY DEF ViewOf, files
<1> QED
  BY <1>1, <1>2 DEF Atomic!vars

\* The path is examined again: what has been read is then what it shows.
LEMMA LookStep ==
    ASSUME Inv, pc = "recheck", path # NoInode, after' = Stamp(path), pc' = "finish",
           UNCHANGED <<content, before, handle, buf, settled, answer, files>>
    PROVE  Atomic!Look
<1> USE DEF Inv
<1>1. /\ answer = Pending /\ path \in Inode /\ handle = before.ino
      /\ before \in Stamps /\ buf \in Seq(Block) /\ inode[path] \in FileRecord
  BY DEF Asked, TypeOK, Before
<1>2. ViewOf(path)' = ViewOf(path) /\ answer' = answer /\ settled' = settled
  BY DEF ViewOf, files
<1>3. Taken' \in {{ViewOf(path)}, {}}
  <2>1. CASE Taken' = {}
    BY <2>1
  <2>2. CASE settled /\ Stamp(path) = before /\ Len(buf) = before.size
    <3>1. /\ path = handle /\ Len(buf) = Len(inode[path].data)
          /\ before.modified = inode[path].mtime /\ inode[path].kind = "file"
      BY <1>1, <2>2, StampType DEF Before
    <3>2. Prefix(buf, inode[path].data)
      BY <2>2, <3>1 DEF ReadSoFar
    <3>3. inode[path].data \in Seq(Block)
      BY <1>1 DEF FileRecord
    <3>4. \A k \in 1..Len(buf) : buf[k] = inode[path].data[k]
      BY <3>2 DEF Prefix
    <3>5. buf = inode[path].data
      BY <1>1, <3>1, <3>3, <3>4, SeqEqual
    <3>6. ViewOf(path) = [kind |-> "file", mtime |-> before.modified, data |-> buf]
      BY <3>1, <3>5 DEF ViewOf
    <3> QED
      BY <2>2, <3>6 DEF Taken
  <2> QED
    BY <2>1, <2>2 DEF Taken
<1> QED
  BY <1>1, <1>2, <1>3 DEF Atomic!Look

LEMMA ReaderSimulates == Inv /\ Reader => [Atomic!Next]_(Atomic!vars)
<1> SUFFICES ASSUME Inv, Reader PROVE [Atomic!Next]_(Atomic!vars)
  OBVIOUS
<1>f. \A e \in {"io", "limit", "changed"} : Failed(e) \in Failures
  BY DEF Failures
<1>1. CASE StatPath
  <2>1. CASE \/ Return(Fingerprint(ViewOf(path), FALSE))
             \/ \E e \in {"io", "limit"} : Return(Failed(e))
    <3>1. pc # "done" /\ UNCHANGED files
      BY <1>1 DEF StatPath
    <3>2. Atomic!Reply
      BY <1>f, <2>1, <3>1, ReplyStep
    <3> QED
      BY <3>2 DEF Atomic!Next
  <2>2. CASE /\ pc = "start" /\ pc' = "open" /\ settled' = (inode[path].ctime < now)
             /\ UNCHANGED <<answer, files>>
    <3>1. answer = Pending /\ settled = TRUE
      BY <2>2 DEF Inv, Asked
    <3>2. ViewOf(path)' = ViewOf(path) /\ Taken' = {}
      BY <2>2 DEF ViewOf, Taken, files
    <3>3. settled' \in {settled, FALSE}
      <4>1. CASE inode[path].ctime < now
        BY <2>2, <3>1, <4>1
      <4>2. CASE ~(inode[path].ctime < now)
        <5>1. (inode[path].ctime < now) = FALSE
          BY <4>2
        <5> QED
          BY <2>2, <5>1
      <4> QED
        BY <4>1, <4>2
    <3>4. Atomic!Look
      BY <2>2, <3>1, <3>2, <3>3 DEF Atomic!Look
    <3> QED
      BY <3>4 DEF Atomic!Next
  <2> QED
    BY <1>1, <2>1, <2>2 DEF StatPath
<1>2. CASE Open \/ CompareHandle \/ ReadBlock
  <2>1. pc # "done" /\ pc # "finish" /\ UNCHANGED files
    BY <1>2 DEF Open, CompareHandle, ReadBlock
  <2>2. CASE \E e \in {"io", "limit", "changed"} : Return(Failed(e))
    <3>1. Atomic!Reply
      BY <1>f, <2>1, <2>2, ReplyStep
    <3> QED
      BY <3>1 DEF Atomic!Next
  <2>3. CASE UNCHANGED <<settled, answer>> /\ pc' # "finish"
    BY <2>1, <2>3, QuietStep
  <2> QED
    BY <1>2, <2>2, <2>3 DEF Open, CompareHandle, ReadBlock
<1>3. CASE RecheckPath
  <2>1. CASE Return(Failed("changed"))
    <3>1. pc # "done" /\ UNCHANGED files
      BY <1>3 DEF RecheckPath
    <3>2. Atomic!Reply
      BY <1>f, <2>1, <3>1, ReplyStep
    <3> QED
      BY <3>2 DEF Atomic!Next
  <2>2. CASE ~Return(Failed("changed"))
    BY <1>3, <2>2, LookStep DEF RecheckPath, Atomic!Next
  <2> QED
    BY <2>1, <2>2
<1>4. CASE Finish
  <2> DEFINE v == [kind |-> "file", mtime |-> before.modified, data |-> buf]
  <2>1. pc # "done" /\ UNCHANGED files
    BY <1>4 DEF Finish
  <2>2. CASE \E e \in {"io", "changed"} : Return(Failed(e))
    <3>1. Atomic!Reply
      BY <1>f, <2>1, <2>2, ReplyStep
    <3> QED
      BY <3>1 DEF Atomic!Next
  <2>3. CASE after = before /\ Len(buf) = before.size /\ Return(Fingerprint(v, TRUE))
    <3>1. settled => v \in Taken
      BY <1>4, <2>3 DEF Taken, Finish
    <3>2. Atomic!Reply
      BY <2>1, <2>3, <3>1, ReplyStep
    <3> QED
      BY <3>2 DEF Atomic!Next
  <2> QED
    BY <1>4, <2>2, <2>3 DEF Finish
<1>5. CASE NextCall
  <2>1. answer # Pending /\ answer' = Pending /\ settled' = TRUE
    BY <1>5 DEF NextCall, Inv, Asked
  <2>2. ViewOf(path)' = ViewOf(path) /\ Taken' = {}
    BY <1>5 DEF ViewOf, Taken, NextCall, files
  <2>3. Atomic!Again
    BY <2>1, <2>2 DEF Atomic!Again
  <2> QED
    BY <2>3 DEF Atomic!Next
<1> QED
  BY <1>1, <1>2, <1>3, <1>4, <1>5 DEF Reader

LEMMA OthersSimulate == Inv /\ TypeOK' /\ Others => Atomic!Change
<1> SUFFICES ASSUME Inv, TypeOK', Others PROVE Atomic!Change
  OBVIOUS
<1>1. Changed
  BY DEF Others, Unlink, Rename, Create, Extend, Overwrite, Truncate, SetTimes, WriteData
<1>2. Taken' = Taken /\ settled' = settled /\ answer' = answer
  BY <1>1 DEF Changed, Taken
<1>3. ViewOf(path)' \in Views
  <2>1. CASE path' = NoInode
    BY <2>1 DEF ViewOf, Views
  <2>2. CASE path' # NoInode
    <3>1. inode'[path'] \in FileRecord
      BY <2>2 DEF TypeOK
    <3> QED
      BY <2>2, <3>1 DEF ViewOf, Views, FileRecord
  <2> QED
    BY <2>1, <2>2
<1> QED
  BY <1>2, <1>3 DEF Atomic!Change

\* Whatever is done to the files while they are read, an accepted snapshot is
\* what the path showed at one instant of the call, for any files and limits.
THEOREM ReadIsAtomic == Spec => ImplementsAtomicRead
<1>1. Init => Atomic!Init
  <2> SUFFICES ASSUME Init PROVE Atomic!Init
    OBVIOUS
  <2>1. ViewOf(path) \in Views
    BY InitInv, ViewType DEF Inv
  <2>2. Taken = {} /\ settled = TRUE /\ answer = Pending
    BY DEF Init, Taken
  <2> QED
    BY <2>1, <2>2 DEF Atomic!Init
<1>2. Inv /\ Inv' /\ [Next]_vars => [Atomic!Next]_(Atomic!vars)
  <2> SUFFICES ASSUME Inv, Inv', [Next]_vars PROVE [Atomic!Next]_(Atomic!vars)
    OBVIOUS
  <2>1. CASE Reader
    BY <2>1, ReaderSimulates
  <2>2. CASE Others
    BY <2>2, OthersSimulate DEF Inv, Atomic!Next
  <2>3. CASE UNCHANGED vars
    BY <2>3 DEF vars, Atomic!vars, ViewOf, Taken
  <2> QED
    BY <2>1, <2>2, <2>3 DEF Next
<1> QED
  BY <1>1, <1>2, Invariance, PTL DEF Spec, Atomic!Spec, ImplementsAtomicRead

-----------------------------------------------------------------------------
(* The limit, and what is called a change *)

\* The blocks kept in memory never exceed the limit, however the file grows after
\* its size was compared with it (the read loop of read_impl).
THEOREM RetainedIsBounded == Spec => []RetainedWithinLimit
<1>1. Init => RetainedWithinLimit
  BY SnapshotAssumption DEF Init, RetainedWithinLimit
<1>2. Inv /\ RetainedWithinLimit /\ [Next]_vars => RetainedWithinLimit'
  <2> SUFFICES ASSUME Inv, Len(buf) <= Limit, [Next]_vars PROVE Len(buf') <= Limit
    BY DEF RetainedWithinLimit
  <2>1. buf \in Seq(Block) /\ Len(<<>>) <= Limit
    BY SnapshotAssumption DEF Inv, TypeOK
  <2>2. CASE buf' = buf \/ buf' = <<>>
    BY <2>1, <2>2
  <2>3. CASE Len(buf) < Limit /\ \E b : buf' = Append(buf, b)
    BY <2>1, <2>3, SnapshotAssumption
  <2>4. CASE Reader
    <3>1. \/ buf' = buf \/ buf' = <<>>
          \/ Len(buf) < Limit /\ \E b : buf' = Append(buf, b)
      BY <2>4 DEF Reader, StatPath, Open, CompareHandle, ReadBlock, RecheckPath, Finish, NextCall, Return
    <3> QED
      BY <2>2, <2>3, <3>1
  <2>5. CASE Others
    BY <2>2, <2>5 DEF Others, Unlink, Rename, Create, Extend, Overwrite, Truncate, SetTimes, WriteData, Changed
  <2> QED
    BY <2>2, <2>4, <2>5 DEF Next, vars
<1> QED
  BY <1>1, <1>2, Invariance, PTL DEF Spec

\* As long as nothing has changed since the call began, the path, the handle and
\* both stamps are those of one file, and a whole read is as long as it was.
Undisturbed ==
    ~dirty =>
        /\ pc \in {"open", "compare", "read", "recheck", "finish"} => path # NoInode /\ before = Stamp(path)
        /\ pc \in {"compare", "read", "recheck", "finish"} => handle = path
        /\ pc = "read" => Len(buf) <= before.size
        /\ pc \in {"recheck", "finish"} => Len(buf) = before.size
        /\ pc = "finish" => after = before

LEMMA ReturnUndisturbed ==
    ASSUME NEW a, Return(a)
    PROVE  Undisturbed'
BY DEF Return, Undisturbed

LEMMA UndisturbedStep == Inv /\ Undisturbed /\ [Next]_vars => Undisturbed'
<1> SUFFICES ASSUME Inv, Undisturbed, [Next]_vars PROVE Undisturbed'
  OBVIOUS
<1>1. CASE \E a : Return(a)
  BY <1>1, ReturnUndisturbed
<1>2. CASE Reader /\ ~\E a : Return(a)
  <2>0. (dirty' = dirty /\ UNCHANGED files) \/ NextCall
    BY <1>2 DEF Reader, StatPath, Open, CompareHandle, ReadBlock, RecheckPath, Finish
  <2>1. \A n \in Inode : inode[n] \in FileRecord
    BY DEF Inv, TypeOK
  <2>2. UNCHANGED files => Stamp(path)' = Stamp(path)
    BY DEF files, Stamp
  <2>3. CASE StatPath
    BY <1>2, <2>0, <2>2, <2>3 DEF StatPath, ToRead, Undisturbed, files, NextCall
  <2>4. CASE Open
    BY <1>2, <2>0, <2>2, <2>4 DEF Open, Undisturbed, files, NextCall
  <2>5. CASE CompareHandle
    <3>1. buf = <<>> /\ (~dirty => before.size \in Nat)
      <4>1. before \in Stamps /\ buf = <<>>
        BY <2>5 DEF CompareHandle, Inv, Before, TypeOK
      <4> QED
        BY <4>1 DEF Stamps
    <3> QED
      BY <1>2, <2>0, <2>2, <2>5, <3>1 DEF CompareHandle, Undisturbed, files, NextCall
  <2>6. CASE ReadBlock
    <3>1. pc = "read" /\ buf \in Seq(Block) /\ handle \in Inode
      BY <2>6 DEF ReadBlock, Inv, Before, TypeOK
    <3>2. ~dirty => /\ path # NoInode /\ before = Stamp(path) /\ handle = path
                    /\ Len(buf) <= before.size /\ before.size = Len(inode[handle].data)
                    /\ Len(inode[handle].data) \in Nat
      BY <2>1, <3>1 DEF Undisturbed, Stamp, FileRecord
    <3>3. CASE /\ Len(buf) < Len(inode[handle].data) /\ \E b : buf' = Append(buf, b)
               /\ UNCHANGED <<pc, before, handle>>
      <4>1. Len(buf') = Len(buf) + 1
        BY <3>1, <3>3
      <4>2. ~dirty => Len(buf') <= before.size
        BY <3>1, <3>2, <3>3, <4>1
      <4> QED
        BY <2>0, <2>2, <2>6, <3>1, <3>2, <3>3, <4>2 DEF ReadBlock, Undisturbed, files
    <3>4. CASE /\ Len(buf) >= Len(inode[handle].data) /\ pc' = "recheck"
               /\ UNCHANGED <<before, handle, buf>>
      <4>1. ~dirty => Len(buf) = before.size
        BY <3>1, <3>2, <3>4
      <4> QED
        BY <2>0, <2>2, <2>6, <3>1, <3>2, <3>4, <4>1 DEF ReadBlock, Undisturbed, files
    <3> QED
      BY <1>2, <2>6, <3>3, <3>4 DEF ReadBlock
  <2>7. CASE RecheckPath
    BY <1>2, <2>0, <2>2, <2>7 DEF RecheckPath, Undisturbed, files, NextCall
  <2>8. CASE Finish
    BY <1>2, <2>8 DEF Finish
  <2>9. CASE NextCall
    BY <2>9 DEF NextCall, Undisturbed
  <2> QED
    BY <1>2, <2>3, <2>4, <2>5, <2>6, <2>7, <2>8, <2>9 DEF Reader
<1>3. CASE Others
  <2>1. dirty'
    BY <1>3 DEF Others, Unlink, Rename, Create, Extend, Overwrite, Truncate, SetTimes, WriteData, Changed
  <2> QED
    BY <2>1 DEF Undisturbed
<1>4. CASE UNCHANGED vars
  BY <1>4 DEF vars, Undisturbed, Stamp
<1> QED
  BY <1>1, <1>2, <1>3, <1>4 DEF Next

\* A read says that its input changed only if something has changed since it began,
\* or the path could not be examined at its end.
THEOREM ChangesAreReal == Spec => ChangedIsReal
<1>1. Init => Undisturbed
  BY DEF Init, Undisturbed
<1>2. Inv /\ Undisturbed /\ [Next]_vars =>
          [answer = Pending /\ answer' = Failed("changed")
             => dirty \/ (pc = "recheck" /\ faults' # faults)]_vars
  <2> SUFFICES ASSUME Inv, Undisturbed, Next, answer = Pending, answer' = Failed("changed"), ~dirty
               PROVE  pc = "recheck" /\ faults' # faults
    OBVIOUS
  <2>1. /\ Failed("changed") # Failed("limit") /\ Failed("changed") # Failed("io")
        /\ Failed("changed") # Pending
        /\ \A v, h : Failed("changed") # Fingerprint(v, h) \/ v.kind = "error"
    BY FailedIsAnswer DEF Failed, Fingerprint
  <2>2. faults \in Nat
    BY SnapshotAssumption DEF Inv, TypeOK
  <2>3. Fault => faults' # faults
    BY <2>2 DEF Fault
  <2>4. ViewOf(path).kind # "error"
    BY ViewType DEF Inv, Views, Kinds
  <2>5. CASE StatPath
    BY <2>1, <2>4, <2>5 DEF StatPath, Return
  <2>6. CASE Open \/ ReadBlock
    BY <2>1, <2>6 DEF Open, ReadBlock, Return
  <2>7. CASE CompareHandle
    BY <2>1, <2>7 DEF CompareHandle, Return, Undisturbed
  <2>8. CASE RecheckPath
    BY <2>1, <2>3, <2>8 DEF RecheckPath, Return, Undisturbed
  <2>9. CASE Finish
    <3>1. Stamp(handle) = before /\ after = before /\ Len(buf) = before.size
      BY <2>9 DEF Finish, Undisturbed
    <3>2. [kind |-> "file", mtime |-> before.modified, data |-> buf].kind # "error"
      OBVIOUS
    <3> QED
      BY <2>1, <2>9, <3>1, <3>2 DEF Finish, Return
  <2>10. CASE NextCall
    BY <2>1, <2>10 DEF NextCall
  <2>11. CASE Others
    BY <2>1, <2>11 DEF Others, Unlink, Rename, Create, Extend, Overwrite, Truncate, SetTimes, WriteData, Changed
  <2> QED
    BY <2>5, <2>6, <2>7, <2>8, <2>9, <2>10, <2>11 DEF Next, Reader
<1> QED
  BY <1>1, <1>2, UndisturbedStep, Invariance, PTL DEF Spec, ChangedIsReal
=============================================================================
