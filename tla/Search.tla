------------------------------- MODULE Search -------------------------------
(***************************************************************************)
(* The Glob and Grep tools: tools/GlobTool/GlobTool.h and                  *)
(* tools/GrepTool/GrepTool.h.  A call walks a tree in the order the        *)
(* directory gives; Glob keeps the paths that match, Grep searches the     *)
(* files it kept on the threads of a pool, or asks ripgrep.  Files are     *)
(* numbers in the order of their names.  A path and a pattern are          *)
(* sequences of letters; brackets and braces of a pattern are left out.    *)
(***************************************************************************)
EXTENDS Integers, Sequences, FiniteSets, SequencesExt

CONSTANTS
  Files,         \* the regular files of the tree
  Path,          \* the path of each file, from the directory searched
  Lines,         \* the lines of each file, each the one word it holds
  Upper,         \* the words that differ from a pattern in their case only
  Extensions,    \* typeToExts: the extensions of the types it knows
  Troubles,      \* see trouble
  Calls,         \* the inputs of a call
  MaxResults,    \* maxResults
  MaxFiles,      \* the walk of Grep stops behind this many files
  MaxFileLines,  \* a file with more lines is not searched
  PoolSize       \* the threads of the pool

VARIABLES
  call,      \* the input
  rg,        \* isRgAvailable()
  trouble,   \* the entries whose status cannot be read, the files regex_search gives up on
  ahead,     \* the entries the walk has not reached
  kept,      \* matches, or files
  task,      \* of each kept file: "queued", "merging" (its block is read), "done", "threw"
  results,   \* the files with a block in results
  total,     \* totalLines
  answer,    \* the lines of the result
  pc

vars == <<call, rg, trouble, ahead, kept, task, results, total, answer, pc>>

-----------------------------------------------------------------------------
(* globToRegex and globToRe: a letter, or what a wildcard became.          *)
AnyPath == "any path"
InSegment == "any letters of a segment"
OneLetter == "one letter of a segment"
AnyLetter == "any letter"

StarsAt(glob, i) == glob[i] = "*" /\ i < Len(glob) /\ glob[i + 1] = "*"
BehindStars(glob, i) == IF i + 2 <= Len(glob) /\ glob[i + 2] = "/" THEN i + 3 ELSE i + 2

(* Two stars swallow a slash behind them, and then match half a name too.  *)
globToRegex(glob) ==
  LET One(c) == CASE c = "*" -> InSegment [] c = "?" -> OneLetter [] OTHER -> c
      r[i \in 1..(Len(glob) + 3)] ==
        IF i > Len(glob) THEN <<>>
        ELSE IF StarsAt(glob, i) THEN <<AnyPath>> \o r[BehindStars(glob, i)]
        ELSE <<One(glob[i])>> \o r[i + 1]
  IN r[1]

globToRe(glob) ==
  [i \in DOMAIN glob |->
     CASE glob[i] = "*" -> AnyPath [] glob[i] = "?" -> AnyLetter [] OTHER -> glob[i]]

(* std::regex_match *)
FullMatch(text, re) ==
  LET Takes(e, c) == \/ e = c \/ e \in {AnyPath, AnyLetter}
                     \/ e \in {InSegment, OneLetter} /\ c # "/"
      m[i \in 1..(Len(text) + 1), j \in 1..(Len(re) + 1)] ==
        IF j > Len(re) THEN i > Len(text)
        ELSE \/ re[j] \in {AnyPath, InSegment} /\ m[i, j + 1]
             \/ /\ i <= Len(text) /\ Takes(re[j], text[i])
                /\ m[i + 1, IF re[j] \in {AnyPath, InSegment} THEN j ELSE j + 1]
  IN m[1, 1]

LastAt(path, c) ==
  LET at == {i \in DOMAIN path : path[i] = c}
  IN IF at = {} THEN 0 ELSE CHOOSE i \in at : \A k \in at : k <= i
NameOf(path) == SubSeq(path, LastAt(path, "/") + 1, Len(path))
ExtensionOf(path) == LET name == NameOf(path) IN SubSeq(name, LastAt(name, ".") + 1, Len(name))

typeToExts(type) == IF type \in DOMAIN Extensions THEN Extensions[type] ELSE {<<type>>}

GlobKeeps(f) == FullMatch(Path[f], globToRegex(call.glob))
GrepKeeps(f) ==
  /\ call.type = "" \/ ExtensionOf(Path[f]) \in typeToExts(call.type)
  /\ call.glob = <<>> \/ FullMatch(NameOf(Path[f]), globToRe(call.glob))

-----------------------------------------------------------------------------
(* grepFile: what one file adds to the output.  A line is its file and its *)
(* number; number 0 stands for the whole file, and a gap belongs to none.  *)
Gap == <<0, 0>>
Matches(word, pattern) == word = pattern \/ (call.icase /\ word \in Upper[pattern])
Hits(f, pattern) == {i \in DOMAIN Lines[f] : Matches(Lines[f][i], pattern)}
Around(f, hits) ==
  {i \in DOMAIN Lines[f] : \E h \in hits : h - call.before <= i /\ i <= h + call.after}

Block(f, pattern) ==
  LET hits == Hits(f, pattern)
      Show(out, i) == IF out # <<>> /\ i > Last(out)[2] + 1 THEN out \o <<Gap, <<f, i>>>>
                      ELSE Append(out, <<f, i>>)
  IN IF hits = {} \/ Len(Lines[f]) > MaxFileLines THEN <<>>
     ELSE IF call.mode # "content" THEN <<<<f, 0>>>>
     ELSE FoldLeft(Show, <<>>, SetToSortSeq(Around(f, hits), <))

limitLines(lines, max) == SubSeq(lines, 1, IF max < Len(lines) THEN max ELSE Len(lines))
Limited(lines) == IF call.limit > 0 THEN limitLines(lines, call.limit) ELSE lines
BlocksOf(fs, pattern) == FlattenSeq([i \in DOMAIN fs |-> Block(fs[i], pattern)])

-----------------------------------------------------------------------------
Init ==
  /\ call \in Calls /\ rg \in BOOLEAN /\ trouble \in Troubles
  /\ ahead \in {s \in [1..Cardinality(Files) -> Files] : \A f \in Files : \E i \in DOMAIN s : s[i] = f}
  /\ kept = <<>> /\ task = [f \in Files |-> "queued"] /\ results = {} /\ total = 0
  /\ answer = <<>> /\ pc = "called"

Walked == <<call, rg, trouble, task, results, total>>
Answers(lines) == answer' = lines /\ pc' = "answered"
Fails == answer' = <<>> /\ pc' = "failed"
NoMatches == Answers(<<>>)

(* A directory is walked; a file is searched alone, its filters unread.    *)
Begin ==
  /\ pc = "called" /\ (call.tool = "Glob" \/ ~rg)
  /\ \/ call.where = "directory" /\ pc' = "walking" /\ UNCHANGED <<kept, answer>>
     \/ /\ call.where = "file" /\ call.tool = "Grep"
        /\ kept' = <<Head(ahead)>> /\ pc' = "searching" /\ UNCHANGED answer
     \/ /\ call.where = "nothing" \/ (call.where = "file" /\ call.tool = "Glob")
        /\ Fails /\ UNCHANGED kept
  /\ UNCHANGED <<Walked, ahead>>

(* An entry whose status cannot be read ends the walk of Glob, with what   *)
(* it has; Grep asks with an error code and goes on.                       *)
Ends ==
  IF ahead = <<>> THEN TRUE
  ELSE IF call.tool = "Glob"
  THEN Len(kept) >= MaxResults \/ Head(ahead) \in trouble.unreadable
  ELSE Len(kept) > MaxFiles

Walk ==
  /\ pc = "walking" /\ ~Ends
  /\ LET f == Head(ahead)
         Keeps == IF call.tool = "Glob" THEN GlobKeeps(f) ELSE GrepKeeps(f)
     IN kept' = IF f \notin trouble.unreadable /\ Keeps THEN Append(kept, f) ELSE kept
  /\ ahead' = Tail(ahead) /\ UNCHANGED <<Walked, answer, pc>>

EndWalk ==
  /\ pc = "walking" /\ Ends
  /\ \/ /\ call.tool = "Glob"
        /\ LET sorted == SetToSortSeq(ToSet(kept), <)
           IN Answers([i \in DOMAIN sorted |-> <<sorted[i], 0>>])
     \/ /\ call.tool = "Grep"
        /\ IF kept = <<>> THEN NoMatches ELSE pc' = "searching" /\ UNCHANGED answer
  /\ UNCHANGED <<Walked, ahead, kept>>

(* Mutant: a result that just fills the limit does not fit.                *)
FitsBelow(n) == call.limit <= 0 \/ n < call.limit
Fits(n) == call.limit <= 0 \/ n <= call.limit


-----------------------------------------------------------------------------
(* A thread of the pool takes the next file and reads it; what it found it *)
(* adds under the mutex.                                                   *)
Searching == <<call, rg, trouble, ahead, kept, answer, pc>>
InPool == {f \in Files : task[f] = "merging"}

Take(k) ==
  /\ pc = "searching" /\ task[kept[k]] = "queued" /\ Cardinality(InPool) < PoolSize
  /\ \A j \in 1..(k - 1) : task[kept[j]] # "queued"
  /\ task' = [task EXCEPT ![kept[k]] =
       IF kept[k] \in trouble.hard THEN "threw"
       ELSE IF Block(kept[k], call.pattern) = <<>> THEN "done" ELSE "merging"]
  /\ UNCHANGED <<Searching, results, total>>

Merge(f) ==
  /\ pc = "searching" /\ task[f] = "merging"
  /\ total' = total + Len(Block(f, call.pattern))
  /\ results' = IF Fits(total') THEN results \cup {f} ELSE results
  /\ task' = [task EXCEPT ![f] = "done"]
  /\ UNCHANGED Searching

(* The futures are waited for in order.                                    *)
Join ==
  /\ pc = "searching" /\ \A f \in ToSet(kept) : task[f] = "done"
  /\ Answers(Limited(BlocksOf(SetToSortSeq(results, <), call.pattern)))
  /\ UNCHANGED <<Walked, ahead, kept>>

(* The first future that threw ends the call, with tasks still running on  *)
(* its locals: what they do from then on is undefined.                     *)
Rethrow ==
  /\ pc = "searching"
  /\ \E k \in DOMAIN kept :
       task[kept[k]] = "threw" /\ \A j \in 1..(k - 1) : task[kept[j]] = "done"
  /\ Fails /\ UNCHANGED <<Walked, ahead, kept>>

(* ripgrep, which is external, prints blocks of some files in some order;  *)
(* a double quote in the pattern has become a single one.                  *)
PatternSent(pattern) == IF pattern = "\"" THEN "'" ELSE pattern
CallWithRg ==
  /\ pc = "called" /\ call.tool = "Grep" /\ rg
  /\ \E fs \in {s \in UNION {[1..n -> Files] : n \in 0..Cardinality(Files)} : IsInjective(s)} :
       Answers(Limited(BlocksOf(fs, PatternSent(call.pattern))))
  /\ UNCHANGED <<Walked, ahead, kept>>

Next ==
  \/ Begin \/ Walk \/ EndWalk
  \/ (\E k \in DOMAIN kept : Take(k)) \/ (\E f \in Files : Merge(f)) \/ Join \/ Rethrow
  \/ CallWithRg

Spec == Init /\ [][Next]_vars

-----------------------------------------------------------------------------
(* What a call should find, whatever the directory's order was.            *)
Wanted ==
  IF call.where = "file" THEN kept
  ELSE SetToSortSeq({f \in Files \ trouble.unreadable :
                       IF call.tool = "Glob" THEN GlobKeeps(f) ELSE GrepKeeps(f)}, <)
Whole == IF call.tool = "Glob" THEN [i \in DOMAIN Wanted |-> <<Wanted[i], 0>>]
         ELSE BlocksOf(Wanted, call.pattern)
Cut == \/ call.tool = "Glob" /\ (Len(answer) >= MaxResults \/ trouble.unreadable # {})
       \/ call.tool = "Grep" /\ (Len(Wanted) > MaxFiles + 1 \/ (call.limit > 0 /\ Len(Whole) > call.limit))

(* A search whose matches fit its limits gives all of them in the order of *)
(* the names, in whatever order the directory and the threads came; one    *)
(* that is cut gives lines of them, in their order and not too many.       *)
SearchIsComplete ==
  (pc = "answered" /\ ~(call.tool = "Grep" /\ rg)) =>
    /\ ~Cut => answer = Whole
    /\ \A i \in DOMAIN answer : answer[i] \in ToSet(Whole)
    /\ \A i, j \in DOMAIN answer :
         (i < j /\ Gap \notin {answer[i], answer[j]}) =>
           \/ answer[i][1] < answer[j][1]
           \/ (answer[i][1] = answer[j][1] /\ answer[i][2] < answer[j][2])
    /\ call.tool = "Glob" => Len(answer) <= MaxResults
    /\ (call.tool = "Grep" /\ call.limit > 0) => Len(answer) <= call.limit

(* GrepTool.h on head_limit: "Max output lines (default 250)": a search    *)
(* that has matches shows some of them.                                    *)
MatchesAreNotDenied ==
  (pc = "answered" /\ call.tool = "Grep" /\ ~rg /\ Len(Wanted) <= MaxFiles + 1 /\ Whole # <<>>)
    => answer # <<>>
=============================================================================
