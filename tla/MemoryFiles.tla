---------------------------- MODULE MemoryFiles ------------------------------
(***************************************************************************)
(* The memories of a project: one file each in .crab/memory, and the index *)
(* MEMORY.md that goes into the system prompt.  When a longer conversation *)
(* with a remote model ends, the model is asked what to remember; /memory  *)
(* deletes.  The index is searched for the text of a file's name, which    *)
(* may be part of another name.  The file and the index are written one    *)
(* after the other; a write may fail, which nobody notices, and the        *)
(* program may die between the two.  What a save that failed leaves of a   *)
(* memory has the negative of its number.  A second program in the same    *)
(* directory is left out, and of a line of the index that is cut short     *)
(* nothing counts.                                                         *)
(***************************************************************************)
EXTENDS Integers, Sequences, SequencesExt, FiniteSets

CONSTANTS
  Names,         \* the names the model may give, with their types
  PartOf,        \* the pairs of names of which the first is part of the second
  MinMessages,   \* the 6 messages a conversation must have
  MaxVersion,    \* bound: memories saved
  MaxMessages    \* bound: messages of a conversation

VARIABLES
  pc,        \* the program is down, at its prompt or at what it has extracted
  isLocal,   \* the model runs here
  messages,  \* how many the history has
  files,     \* the memory files, by what was saved into them; 0: there is none
  index,     \* the lines of MEMORY.md
  cache,     \* cachedMemIndex, once a prompt has loaded it
  version,   \* how many memories have been saved
  latest,    \* the one that was saved last, if it is whole, until it is deleted
  unindexed, \* the save or the removal whose index is still to be written
  damaged    \* the names whose file or line was not written as it should be

directory == <<files, index, version, latest, unindexed, damaged>>
vars == <<pc, isLocal, messages, files, index, cache, version, latest, unindexed, damaged>>

Missing == 0
Line(name, number) == [name |-> name, version |-> number]

Init ==
  /\ pc = "down" /\ isLocal = FALSE /\ messages = 0
  /\ files = [n \in Names |-> Missing] /\ index = <<>> /\ cache = <<>>
  /\ version = 0 /\ latest = {} /\ unindexed = {} /\ damaged = {}

-----------------------------------------------------------------------------
(* updateIndex: every line in which the name is found becomes the entry;   *)
(* if there is none, it is added.                                          *)
Mentions(line, name) == line.name = name \/ <<name, line.name>> \in PartOf

(* Mutant: what is found is left as it is.                                 *)
AddLine(lines, entry) ==
  IF \E i \in DOMAIN lines : Mentions(lines[i], entry.name)
  THEN lines ELSE Append(lines, entry)

UpdateIndex(lines, entry) ==
  IF \E i \in DOMAIN lines : Mentions(lines[i], entry.name)
  THEN [i \in DOMAIN lines |-> IF Mentions(lines[i], entry.name) THEN entry ELSE lines[i]]
  ELSE Append(lines, entry)

(* loadAll reads the files in the order of the directory.                  *)
LoadMemoryFile(dir, name) == Line(name, dir[name])
LoadAll(dir) ==
  [i \in 1..Cardinality({n \in Names : dir[n] # Missing}) |->
     LET order == SetToSeq({n \in Names : dir[n] # Missing})
     IN  LoadMemoryFile(dir, order[i])]

(* saveMemory.  A file that cannot be opened leaves everything as it was;  *)
(* a full disk or a death leaves a part of it.                             *)
SaveMemory(name, whole) ==
  LET number == IF whole THEN version + 1 ELSE -(version + 1)
      entry == Line(name, version + 1)
  IN  /\ version' = version + 1
      /\ latest' = IF whole THEN {entry} ELSE {}
      /\ files' = [files EXCEPT ![name] = number]
      /\ unindexed' = {[line |-> entry, whole |-> whole]}
      /\ damaged' = damaged \cup {name}
      /\ UNCHANGED index

(* The index that is written; a full disk keeps what comes first.  Nothing *)
(* is written where MEMORY.md cannot be opened, and an index that cannot   *)
(* be read is taken for an empty one.                                      *)
Written(lines, n) == SubSeq(lines, 1, n)
UpdateTheIndex ==
  \E save \in unindexed :
    /\ save.line.version # Missing /\ unindexed' = {}
    /\ \/ UNCHANGED <<index, damaged>>
       \/ \E found \in {index, <<>>} :
            LET lines == UpdateIndex(found, save.line) IN
            \E n \in 0..Len(lines) :
              /\ index' = Written(lines, n)
              /\ damaged' = IF n = Len(lines) /\ save.whole THEN damaged \ {save.line.name}
                            ELSE damaged
    /\ UNCHANGED <<pc, isLocal, messages, cache, files, version, latest>>

(* rebuildIndex.                                                           *)
RebuildIndex ==
  \E removal \in unindexed :
    /\ removal.line.version = Missing /\ unindexed' = {}
    /\ \/ UNCHANGED <<index, damaged>>
       \/ LET lines == LoadAll(files) IN
          \E n \in 0..Len(lines) :
            /\ index' = Written(lines, n)
            /\ damaged' = {lines[i].name : i \in (n + 1)..Len(lines)}
    /\ UNCHANGED <<pc, isLocal, messages, cache, files, version, latest>>

(* The user leaves.                                                        *)
Exit ==
  /\ pc = "prompt" /\ unindexed = {} /\ messages >= MinMessages /\ ~isLocal
  /\ pc' = "extracting" /\ UNCHANGED <<isLocal, messages, cache, directory>>

(* extractAndSave saves what the model answers, line by line; a line it    *)
(* cannot read, a memory without a name or a content and a failed call     *)
(* save nothing.                                                           *)
Extract(name, whole) ==
  /\ pc = "extracting" /\ unindexed = {} /\ version < MaxVersion
  /\ SaveMemory(name, whole)
  /\ UNCHANGED <<pc, isLocal, messages, cache>>

(* The program ends, or dies.                                              *)
End ==
  /\ pc # "down" /\ pc' = "down" /\ messages' = 0 /\ cache' = <<>>
  /\ unindexed' = {}
  /\ UNCHANGED <<isLocal, files, index, version, latest, damaged>>

Start(local) ==
  /\ pc = "down" /\ pc' = "prompt" /\ isLocal' = local
  /\ UNCHANGED <<messages, cache, directory>>

(* The first prompt of a process reads the index; all others show that.    *)
Prompt ==
  /\ pc = "prompt" /\ unindexed = {} /\ messages + 2 <= MaxMessages /\ messages' = messages + 2
  /\ cache' = IF cache = <<>> THEN <<index>> ELSE cache
  /\ UNCHANGED <<pc, isLocal, directory>>

(* /memory delete: the file goes first.                                    *)
Delete(name) ==
  /\ pc = "prompt" /\ unindexed = {} /\ files[name] # Missing
  /\ files' = [files EXCEPT ![name] = Missing]
  /\ latest' = {line \in latest : line.name # name}
  /\ unindexed' = {[line |-> Line(name, Missing), whole |-> TRUE]}
  /\ damaged' = damaged \cup {name}
  /\ UNCHANGED <<pc, isLocal, messages, cache, index, version>>

Next ==
  \/ Prompt \/ Exit \/ End \/ UpdateTheIndex \/ RebuildIndex
  \/ \E local \in BOOLEAN : Start(local)
  \/ \E name \in Names : Delete(name) \/ \E whole \in BOOLEAN : Extract(name, whole)

Spec == Init /\ [][Next]_vars

-----------------------------------------------------------------------------
TypeOK ==
  /\ pc \in {"down", "prompt", "extracting"} /\ isLocal \in BOOLEAN /\ messages \in 0..MaxMessages
  /\ files \in [Names -> -MaxVersion..MaxVersion] /\ version \in 0..MaxVersion
  /\ damaged \subseteq Names

(* QueryEngine.cpp puts the index before the model in place of the files.  *)
(* Whatever was extracted, overwritten and deleted before, with writes     *)
(* that failed and deaths between file and index: what is damaged is the   *)
(* name that was being written and what a full disk cut off the index, and *)
(* only until the next save of that name or the next rebuild succeeds.     *)
(* Every other line stands for a file there is, with what was saved there  *)
(* last, and the latest memory has one.  (An older one may have lost its   *)
(* line to a name that is part of its own.)                                *)
IndexDescribesFiles ==
  /\ \A i \in DOMAIN index : index[i].name \notin damaged =>
       files[index[i].name] = index[i].version /\ index[i].version # Missing
  /\ \A line \in latest : line.name \notin damaged => \E i \in DOMAIN index : index[i] = line
=============================================================================
