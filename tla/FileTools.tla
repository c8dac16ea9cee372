---- MODULE FileTools ----
(***************************************************************************)
(* Read, Write and Edit on one file that the user or another process may    *)
(* change at any time.  A conversation may write only what it has read: its *)
(* engine's readFileState_ holds the file's time and hash as of the read.   *)
(* A read may show a range of the lines only, the one it asks for or what    *)
(* fits, and is recorded as any other (Tool.h:101).  The Read tool itself,   *)
(* shared by all conversations, remembers the time of the last read of each *)
(* range to answer a repeated one with a stub, and maps the file through a  *)
(* cache that is shared too.                                               *)
(*                                                                         *)
(* The file's content is a version number, 0 for an empty file.  Its        *)
(* modification time is in milliseconds: a change may leave it as it was,    *)
(* and a file moved over this one may bring an older one.                   *)
(***************************************************************************)
EXTENDS Integers, FiniteSets

CONSTANTS
    Conversations,      \* engines: the user's and the sub-agents'
    Lanes,              \* threads on which an engine runs its safe calls
    NoRecord,
    Ranges,             \* offsets and limits of reads
    MaxVersion,         \* bound: contents
    MaxStamp            \* bound: modification times

Threads == Conversations \X Lanes
Conv(t) == t[1]

VARIABLES
    version, stamp,     \* the file
    mapped,             \* MmapCache has a view of the file
    dedup,              \* readState_ of the Read tool, by range
    state,              \* readFileState_ of each engine
    pc,                 \* what each thread is doing
    range,              \* the range it reads
    copy,               \* the content it has copied, 0 while idle
    moved,              \* history: the file changed under it, by another's hand
    seen,               \* history: the content a conversation last opened to read,
                        \* or wrote, if the file stayed as it was until the record
    blind,              \* history: one wrote over content it had not opened
    fault               \* a thread read a view that was unmapped

vars == <<version, stamp, mapped, dedup, state, pc, range, copy, moved, seen, blind, fault>>
file == <<version, stamp>>
ghosts == <<moved, seen, blind>>

Init ==
    /\ version \in {0, 1} /\ stamp = 0
    /\ mapped = FALSE /\ dedup = [r \in Ranges |-> NoRecord]
    /\ state = [c \in Conversations |-> NoRecord]
    /\ pc = [t \in Threads |-> "idle"]
    /\ range = [t \in Threads |-> NoRecord]
    /\ copy = [t \in Threads |-> 0]
    /\ moved = [t \in Threads |-> FALSE]
    /\ seen = [c \in Conversations |-> NoRecord]
    /\ blind = FALSE
    /\ fault = FALSE

Now == [stamp |-> stamp, version |-> version]
Go(t, step) == pc' = [pc EXCEPT ![t] = step]
Ends(t) == Go(t, "idle") /\ moved' = [moved EXCEPT ![t] = FALSE]
ThreadsOf(c) == {t \in Threads : Conv(t) = c}
Reading == {"map", "copy", "unmap", "dedup", "record"}

---------------------------------------------------------------------------
\* Read of a text file.

\* A batch's reads run side by side, but never beside a write of the same
\* conversation.  A path that is refused (a device, a directory, denied, binary,
\* not there) changes nothing.
MayRead(t) ==
    /\ pc[t] = "idle"
    /\ \A u \in ThreadsOf(Conv(t)) : pc[u] \in Reading \cup {"idle"}

\* A repeated read of the same range of an unchanged text is answered at once,
\* to whichever conversation, and recorded nowhere.
BeginRead(t, r) ==
    /\ MayRead(t)
    /\ IF dedup[r] = stamp
       THEN UNCHANGED <<dedup, pc, range>>
       ELSE /\ dedup' = [dedup EXCEPT ![r] = NoRecord]
            /\ range' = [range EXCEPT ![t] = r]
            /\ Go(t, "map")
    /\ UNCHANGED <<file, mapped, state, copy, ghosts, fault>>

\* MmapCache::get or map; an empty file has no view, and one that cannot be
\* mapped is read from a stream instead.
MapView(t) ==
    /\ pc[t] = "map"
    /\ IF version = 0 THEN Go(t, "unmap") /\ copy' = [copy EXCEPT ![t] = 0] /\ UNCHANGED mapped
       ELSE \/ mapped' = TRUE /\ Go(t, "copy") /\ UNCHANGED copy
            \/ copy' = [copy EXCEPT ![t] = version] /\ Go(t, "unmap") /\ UNCHANGED mapped
    /\ UNCHANGED <<file, dedup, state, range, ghosts, fault>>

\* The lines of the range, or as many as fit, are copied out of the view, without
\* the cache's mutex.
CopyLines(t) ==
    /\ pc[t] = "copy"
    /\ copy' = [copy EXCEPT ![t] = version]
    /\ fault' = (fault \/ ~mapped)
    /\ Go(t, "unmap")
    /\ UNCHANGED <<file, mapped, dedup, state, range, ghosts>>

\* mmapCache.invalidate(path), whoever else uses the view.
Unmap(t) ==
    /\ pc[t] = "unmap"
    /\ mapped' = FALSE
    /\ Go(t, "dedup")
    /\ UNCHANGED <<file, dedup, state, range, copy, ghosts, fault>>

StoreDedup(t) ==
    /\ pc[t] = "dedup"
    /\ dedup' = [dedup EXCEPT ![range[t]] = stamp]
    /\ range' = [range EXCEPT ![t] = NoRecord]
    /\ Go(t, "record")
    /\ UNCHANGED <<file, mapped, state, copy, ghosts, fault>>

\* The time and the hash are those of the whole file now, and never marked as
\* partial; the text shown is from what was copied, be it one line of it.
Record(t) ==
    /\ pc[t] = "record"
    /\ state' = [state EXCEPT ![Conv(t)] = Now]
    /\ seen' = [seen EXCEPT ![Conv(t)] = IF moved[t] THEN NoRecord ELSE copy[t]]
    /\ copy' = [copy EXCEPT ![t] = 0]
    /\ Ends(t)
    /\ UNCHANGED <<file, mapped, dedup, range, blind, fault>>

\* PDFs and images are read without a view and without a stub.
ReadWhole(t) ==
    /\ MayRead(t)
    /\ copy' = [copy EXCEPT ![t] = version]
    /\ Go(t, "record")
    /\ UNCHANGED <<file, mapped, dedup, state, range, ghosts, fault>>

---------------------------------------------------------------------------
\* Write and Edit.

OnlyRead(c) == state[c] # NoRecord

\* Read before, and not modified since; a newer time with the same hash and a
\* size above zero does not count as a modification.
MayWrite(c) ==
    /\ state[c] # NoRecord
    /\ stamp > state[c].stamp => state[c].version = version /\ version # 0

\* The checks of either tool; Edit then works on the content it reads now.
BeginWrite(t) ==
    /\ \A u \in ThreadsOf(Conv(t)) : pc[u] = "idle"
    /\ MayWrite(Conv(t))
    /\ Go(t, "write")
    /\ UNCHANGED <<file, mapped, dedup, state, range, copy, ghosts, fault>>

\* A change, in the same millisecond as the last one perhaps, meets the calls that
\* are under way but the writer's own.
Change(own) ==
    /\ version' \in 0..MaxVersion
    /\ stamp' \in 0..MaxStamp
    /\ moved' = [t \in Threads |-> t \notin own /\ (moved[t] \/ pc[t] # "idle")]

\* The file is not what was recorded, and its time is not past the recorded one.
Hidden(c) ==
    state[c] # NoRecord /\ stamp <= state[c].stamp /\ version # state[c].version

WritesBlind(t) ==
    /\ ~moved[t] /\ ~Hidden(Conv(t))
    /\ state[Conv(t)] = NoRecord \/ seen[Conv(t)] \notin {NoRecord, version}

\* The file is truncated and written.  A write that fails on the way leaves what it
\* wrote, and no record.
WriteFile(t) ==
    /\ pc[t] = "write"
    /\ Change({t})
    /\ blind' = (blind \/ WritesBlind(t))
    /\ \/ Go(t, "wrote") /\ seen' = [seen EXCEPT ![Conv(t)] = version']
       \/ Go(t, "idle") /\ UNCHANGED seen
    /\ UNCHANGED <<mapped, dedup, state, range, copy, fault>>

\* FileStateCache is told, which holds nothing, and readFileState_ is updated.
RecordWrite(t) ==
    /\ pc[t] = "wrote"
    /\ state' = [state EXCEPT ![Conv(t)] = Now]
    /\ seen' = [seen EXCEPT ![Conv(t)] = IF moved[t] THEN NoRecord ELSE @]
    /\ Ends(t)
    /\ UNCHANGED <<file, mapped, dedup, range, copy, blind, fault>>

\* The file cannot be opened for writing, or old_string is not in it once.
WriteFails(t) ==
    /\ pc[t] = "write"
    /\ Ends(t)
    /\ UNCHANGED <<file, mapped, dedup, state, range, copy, seen, blind, fault>>

---------------------------------------------------------------------------
\* Somebody else changes the file, or only its time.
Outside ==
    /\ Change({})
    /\ UNCHANGED <<mapped, dedup, state, pc, range, copy, seen, blind, fault>>

\* A fault is the end of the process.
Next ==
    /\ ~fault
    /\ \/ \E t \in Threads :
            \/ \E r \in Ranges : BeginRead(t, r)
            \/ MapView(t) \/ CopyLines(t) \/ Unmap(t) \/ StoreDedup(t) \/ Record(t)
            \/ ReadWhole(t) \/ BeginWrite(t) \/ WriteFile(t) \/ RecordWrite(t) \/ WriteFails(t)
       \/ Outside

Spec == Init /\ [][Next]_vars

---------------------------------------------------------------------------
\* A conversation does not write over a version of the file that it has not opened
\* to read, in whole or in part, whoever changed the file since.  Two cases are
\* not noticed by the checks and are left out: a change inside one of its own calls,
\* between a read and its record or between the check and the write, and a change
\* that does not move the file's time past the recorded one (FileWriteTool.h:56).
NoBlindWrites == ~blind

\* Reads of a batch run on threads of their own and do not disturb each other: no view
\* is unmapped under a reader that copies the lines out of it.
ViewsStayMapped == ~fault
====
