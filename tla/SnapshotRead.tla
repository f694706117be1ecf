----------------------------- MODULE SnapshotRead -----------------------------
(***************************************************************************)
(* read_impl of snapshot.rs: one input is examined, opened and read block  *)
(* by block while other programs write it in place, truncate it, restore   *)
(* its modification time, move another file over it or remove it.          *)
(*                                                                         *)
(* Modelled for the unix build, whose stamps hold the inode and its change *)
(* time.  The digest is represented by the contents it is computed from.   *)
(* A write and the stamps it leaves are one step, under the file system's  *)
(* clock, which may stand still between two changes but never goes back.   *)
(***************************************************************************)
EXTENDS Integers, Sequences

CONSTANTS
    Inode,          \* files that exist or can be created
    NoInode,        \* a path that names none, a handle that is not open
    Block,          \* contents of one read buffer (64 KiB)
    Limit,          \* max_bytes, in blocks
    MaxLen,         \* bound: blocks of a file
    MaxChanges,     \* bound: changes of the file system
    MaxFaults       \* bound: failing system calls

ASSUME SnapshotAssumption ==
    /\ NoInode \notin Inode
    /\ Limit \in Nat \ {0} /\ MaxLen \in Nat /\ MaxChanges \in Nat /\ MaxFaults \in Nat

VARIABLES
    inode,      \* every file: its kind, data, modification and change time
    path,       \* the file the path names
    now,        \* the clock that stamps changes
    changes,    \* changes of the file system so far
    faults,     \* failing system calls so far
    pc,         \* where read_impl stands
    content,    \* its policy argument: read the contents or examine the metadata
    before,     \* the stamp of the first metadata call
    handle,     \* the open file
    buf,        \* the blocks read so far
    after,      \* the stamp of the path after the read
    settled,    \* history: had the clock moved on since the file's last change?
    dirty,      \* history: has the file system changed during the call?
    answer      \* the value or error returned

vars == <<inode, path, now, changes, faults, pc, content, before, handle, buf, after,
          settled, dirty, answer>>
files == <<inode, path, now, changes>>

-----------------------------------------------------------------------------
Kinds == {"file", "directory"}
FileRecord == [kind : Kinds, data : Seq(Block), mtime : Nat, ctime : Nat]
PCs == {"start", "open", "compare", "read", "recheck", "finish", "done"}

\* struct Stamp: equal stamps stand for an unchanged file.
Stamp(n) ==
    [size |-> Len(inode[n].data), modified |-> inode[n].mtime,
     regular |-> inode[n].kind = "file", ino |-> n, ctime |-> inode[n].ctime]
NoStamp == [size |-> 0, modified |-> 0, regular |-> FALSE, ino |-> NoInode, ctime |-> 0]

\* What the path shows to a reader.
ViewOf(n) ==
    IF n = NoInode THEN [kind |-> "missing", mtime |-> 0, data |-> <<>>]
    ELSE [kind |-> inode[n].kind, mtime |-> inode[n].mtime, data |-> inode[n].data]

\* struct Fingerprint; sha256 is there only when the contents of a file were read.
Fingerprint(v, hashed) ==
    [kind |-> v.kind, size |-> Len(v.data), mtime |-> v.mtime,
     sha256 |-> IF hashed THEN {v.data} ELSE {}]

Pending == [kind |-> "pending"]
Failed(e) == [kind |-> "error", error |-> e]

Fault == faults < MaxFaults /\ faults' = faults + 1
NoFault == UNCHANGED faults

Return(a) ==
    /\ answer' = a /\ pc' = "done"
    /\ handle' = NoInode /\ buf' = <<>> /\ after' = NoStamp /\ before' = NoStamp
    /\ UNCHANGED <<content, settled>>

-----------------------------------------------------------------------------
Init ==
    /\ inode \in [Inode -> {[kind |-> "file", data |-> d, mtime |-> 0, ctime |-> 0] :
                                d \in {<<b>> : b \in Block} \cup {<<b, b>> : b \in Block}}]
    /\ path \in Inode \cup {NoInode}
    /\ now \in {0, 1} /\ changes = 0 /\ faults = 0
    /\ pc = "start" /\ content \in BOOLEAN
    /\ before = NoStamp /\ handle = NoInode /\ buf = <<>> /\ after = NoStamp
    /\ settled = TRUE /\ dirty = FALSE /\ answer = Pending

\* Only the contents of a regular file are read.
ToRead == content /\ path # NoInode /\ inode[path].kind = "file"

\* fs::metadata: a missing path, a directory and a metadata check are answered
\* at once, a file that is too large is refused.
StatPath ==
    /\ pc = "start"
    /\ \/ /\ ~ToRead /\ Return(Fingerprint(ViewOf(path), FALSE)) /\ NoFault
       \/ /\ ToRead /\ Len(inode[path].data) > Limit
          /\ Return(Failed("limit")) /\ NoFault
       \/ /\ ToRead /\ Len(inode[path].data) <= Limit
          /\ before' = Stamp(path) /\ settled' = (inode[path].ctime < now)
          /\ pc' = "open" /\ NoFault
          /\ UNCHANGED <<content, handle, buf, after, answer>>
       \/ Return(Failed("io")) /\ Fault
    /\ UNCHANGED <<files, dirty>>

\* File::open.
Open ==
    /\ pc = "open"
    /\ \/ /\ path # NoInode
          /\ handle' = path /\ pc' = "compare" /\ NoFault
          /\ UNCHANGED <<content, before, buf, after, settled, answer>>
       \/ path = NoInode /\ Return(Failed("io")) /\ NoFault
       \/ Return(Failed("io")) /\ Fault
    /\ UNCHANGED <<files, dirty>>

\* The opened file must be the one examined.
CompareHandle ==
    /\ pc = "compare"
    /\ \/ /\ Stamp(handle) = before
          /\ pc' = "read" /\ NoFault
          /\ UNCHANGED <<content, before, handle, buf, after, settled, answer>>
       \/ Stamp(handle) # before /\ Return(Failed("changed")) /\ NoFault
       \/ Return(Failed("io")) /\ Fault
    /\ UNCHANGED <<files, dirty>>

\* Mutants of ReadBlock: a file that grows is read on, because its size was checked
\* before; a read shorter than the buffer is taken for the end of the file.
ReadUnbounded ==
    /\ pc = "read"
    /\ IF Len(buf) < Len(inode[handle].data)
       THEN /\ buf' = Append(buf, inode[handle].data[Len(buf) + 1])
            /\ UNCHANGED <<pc, content, before, handle, after, settled, answer>>
       ELSE /\ pc' = "recheck"
            /\ UNCHANGED <<content, before, handle, buf, after, settled, answer>>
    /\ UNCHANGED <<files, dirty, faults>>

ReadShort ==
    /\ pc = "read"
    /\ \/ /\ Len(buf) < Len(inode[handle].data)
          /\ buf' = Append(buf, inode[handle].data[Len(buf) + 1])
       \/ UNCHANGED buf
    /\ pc' = "recheck"
    /\ UNCHANGED <<files, dirty, faults, content, before, handle, after, settled, answer>>

\* One turn of the read loop: a block, or the end of the file.
ReadBlock ==
    /\ pc = "read"
    /\ \/ /\ Len(buf) < Len(inode[handle].data) /\ Len(buf) < Limit
          /\ buf' = Append(buf, inode[handle].data[Len(buf) + 1])
          /\ NoFault
          /\ UNCHANGED <<pc, content, before, handle, after, settled, answer>>
       \/ /\ Len(buf) < Len(inode[handle].data) /\ Len(buf) = Limit
          /\ Return(Failed("limit")) /\ NoFault
       \/ /\ Len(buf) >= Len(inode[handle].data)
          /\ pc' = "recheck" /\ NoFault
          /\ UNCHANGED <<content, before, handle, buf, after, settled, answer>>
       \/ Return(Failed("io")) /\ Fault
    /\ UNCHANGED <<files, dirty>>

\* fs::metadata of the path again.  Every error of it is reported as a change.
RecheckPath ==
    /\ pc = "recheck"
    /\ \/ /\ path # NoInode
          /\ after' = Stamp(path) /\ pc' = "finish" /\ NoFault
          /\ UNCHANGED <<content, before, handle, buf, settled, answer>>
       \/ path = NoInode /\ Return(Failed("changed")) /\ NoFault
       \/ Return(Failed("changed")) /\ Fault
    /\ UNCHANGED <<files, dirty>>

\* Mutant of Finish: a file of the same length is the same file.
FinishSizeOnly ==
    /\ pc = "finish"
    /\ IF Len(buf) = before.size
       THEN Return(Fingerprint([kind |-> "file", mtime |-> before.modified, data |-> buf], TRUE))
       ELSE Return(Failed("changed"))
    /\ UNCHANGED <<files, dirty, faults>>

\* The handle and the path must still be the file first examined, and as long.
Finish ==
    /\ pc = "finish"
    /\ \/ /\ Stamp(handle) = before /\ after = before /\ Len(buf) = before.size
          /\ Return(Fingerprint([kind |-> "file", mtime |-> before.modified, data |-> buf],
                                TRUE))
          /\ NoFault
       \/ /\ Stamp(handle) # before \/ after # before \/ Len(buf) # before.size
          /\ Return(Failed("changed")) /\ NoFault
       \/ Return(Failed("io")) /\ Fault
    /\ UNCHANGED <<files, dirty>>

\* The caller asks for the next snapshot.
NextCall ==
    /\ pc = "done"
    /\ pc' = "start" /\ content' \in BOOLEAN
    /\ settled' = TRUE /\ dirty' = FALSE /\ answer' = Pending
    /\ UNCHANGED <<files, faults, before, handle, buf, after>>

-----------------------------------------------------------------------------
(* Other programs *)

\* A change takes effect at the clock's present tick.
Changed ==
    /\ changes < MaxChanges
    /\ changes' = changes + 1 /\ dirty' = TRUE
    /\ now' \in {now, now + 1}
    /\ UNCHANGED <<faults, pc, content, before, handle, buf, after, settled, answer>>

\* write, ftruncate: new data under a new modification and change time.
WriteData(n, d) ==
    /\ inode[n].kind = "file"
    /\ inode' = [inode EXCEPT ![n] = [@ EXCEPT !.data = d, !.mtime = now, !.ctime = now]]
    /\ Changed /\ UNCHANGED path

Overwrite(n, k, b) == WriteData(n, [inode[n].data EXCEPT ![k] = b])
Extend(n, b) == Len(inode[n].data) < MaxLen /\ WriteData(n, Append(inode[n].data, b))
Truncate(n, k) == WriteData(n, SubSeq(inode[n].data, 1, k))

\* utimensat restores any modification time; the change time cannot be chosen.
SetTimes(n, t) ==
    /\ inode' = [inode EXCEPT ![n] = [@ EXCEPT !.mtime = t, !.ctime = now]]
    /\ Changed /\ UNCHANGED path

\* rename of another file over the path, and removal of the path.
Rename(n) == n # path /\ path' = n /\ Changed /\ UNCHANGED inode
Unlink == path # NoInode /\ path' = NoInode /\ Changed /\ UNCHANGED inode

\* A file or directory is created, perhaps under an inode number that was free.
Create(n, k) ==
    /\ n # path /\ n # handle
    /\ inode' = [inode EXCEPT ![n] = [kind |-> k, data |-> <<>>, mtime |-> now, ctime |-> now]]
    /\ Changed /\ UNCHANGED path

-----------------------------------------------------------------------------
Reader == \/ StatPath \/ Open \/ CompareHandle \/ ReadBlock \/ RecheckPath \/ Finish \/ NextCall

Others ==
    \/ Unlink
    \/ \E n \in Inode :
          \/ Rename(n)
          \/ \E k \in Kinds : Create(n, k)
          \/ \E b \in Block : Extend(n, b) \/ \E k \in 1..Len(inode[n].data) : Overwrite(n, k, b)
          \/ \E k \in 0..(Len(inode[n].data) - 1) : Truncate(n, k)
          \/ \E t \in 0..now : SetTimes(n, t)

Next == Reader \/ Others

Spec == Init /\ [][Next]_vars

-----------------------------------------------------------------------------
(* Properties *)

Stamps ==
    [size : Nat, modified : Nat, regular : BOOLEAN, ino : Inode \cup {NoInode}, ctime : Nat]
Views == [kind : Kinds \cup {"missing"}, mtime : Nat, data : Seq(Block)]
Failures == {Failed(e) : e \in {"io", "limit", "changed"}}

TypeOK ==
    /\ inode \in [Inode -> FileRecord] /\ path \in Inode \cup {NoInode}
    /\ now \in Nat /\ changes \in 0..MaxChanges /\ faults \in 0..MaxFaults
    /\ pc \in PCs /\ content \in BOOLEAN
    /\ before \in Stamps /\ after \in Stamps
    /\ handle \in Inode \cup {NoInode} /\ buf \in Seq(Block)
    /\ settled \in BOOLEAN /\ dirty \in BOOLEAN

\* The view an accepted read answers with: it is the path's at the moment the
\* path is examined again.
Taken ==
    IF pc = "finish" /\ settled /\ after = before /\ Len(buf) = before.size
    THEN {[kind |-> "file", mtime |-> before.modified, data |-> buf]}
    ELSE {}

Atomic == INSTANCE AtomicRead WITH
    View <- Views, shown <- ViewOf(path), trusted <- settled, taken <- Taken

\* The block-by-block read answers like one that sees the file at one instant:
\* an accepted snapshot never mixes two versions, although the file is written,
\* replaced or has its modification time restored meanwhile (the comment before
\* the last comparison of read_impl; docs/PRD.md, "Mixed-snapshot cache").
ImplementsAtomicRead == Atomic!Spec

\* A read that reports a change met one, or its last look at the path failed
\* (fs::metadata after the read loop): an unchanged input that can be read is never
\* refused as changed, and neither is one whose open, fstat or read fails.
ChangedIsReal ==
    [][answer = Pending /\ answer' = Failed("changed")
          => dirty \/ (pc = "recheck" /\ faults' # faults)]_vars

\* The blocks retained never exceed max_bytes, while the file grows.
RetainedWithinLimit == Len(buf) <= Limit
=============================================================================
