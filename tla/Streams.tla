---- MODULE Streams ----
(***************************************************************************)
(* The readers of event streams: StreamParser under RemoteAPIClient and     *)
(* OpenAICompatClient, and the read loop of the MCP client's SSE transport.  *)
(*                                                                         *)
(* The network hands a stream over in pieces that end anywhere.  A byte is a *)
(* field name with its colon and the blank behind it, an end of line, or     *)
(* anything else: this is all that the readers tell apart.                  *)
(***************************************************************************)
EXTENDS Integers, Sequences, FiniteSets, SequencesExt, FiniteSetsExt

CONSTANTS
    LineKinds,      \* the lines a server writes, each with its end
    MaxLines,       \* bound: complete lines of the first transfer
    MaxAgain,       \* bound: complete lines of a transfer that is repeated
    MaxAttempts     \* bound: transfers of one call

\* The value of an event field by which a server names the URL for requests.
Endpoint == <<"x">>

VARIABLES
    reader,             \* "remote", "compat" or "mcp"
    attempt,
    sent,               \* the bytes of this transfer that have come
    buffer, event, data,    \* buffer_, currentEvent_ and currentData_
    given,              \* the events handed on in this transfer
    postPath,           \* where the MCP client sends its requests
    carried,            \* the reader held something when the transfer began
    ended

parser == <<buffer, event, data>>
vars == <<reader, attempt, sent, parser, given, postPath, carried, ended>>

Init ==
    /\ reader \in {"remote", "compat", "mcp"}
    /\ attempt = 1 /\ sent = <<>>
    /\ buffer = <<>> /\ event = <<>> /\ data = <<>>
    /\ given = <<>> /\ postPath = <<>>
    /\ carried = FALSE /\ ended = FALSE

---------------------------------------------------------------------------
\* Reading.  A parse is the fields that a line changes.

Parse == [event |-> event, data |-> data, given |-> given, postPath |-> postPath]

WithoutCr(line) == IF line # <<>> /\ Last(line) = "cr" THEN Front(line) ELSE line

\* A mutant: lines of data are put together whoever reads them.
PutTogether(d, value) == d \o value

\* StreamParser puts a line break between two lines of data, unless the first
\* is empty; the MCP client puts them together.
Joined(d, value) == IF reader # "mcp" /\ d # <<>> THEN d \o <<"nl">> \o value ELSE d \o value

\* An event without data is an event for StreamParser and nothing for MCP.
Empty(p) == p.data = <<>> /\ (reader = "mcp" \/ p.event = <<>>)

Dispatched(p) ==
    LET named == reader = "mcp" /\ p.event = Endpoint
    IN  [event |-> <<>>, data |-> <<>>,
         given |-> IF Empty(p) \/ named THEN p.given
                   ELSE Append(p.given, [event |-> p.event, data |-> p.data]),
         postPath |-> IF ~Empty(p) /\ named THEN p.data ELSE p.postPath]

\* processLine, and a turn of readLoop's loop: an empty line ends the event, and a
\* line that begins with anything but the two fields is a comment.
Line(p, line) ==
    CASE line = <<>> -> Dispatched(p)
      [] line # <<>> /\ Head(line) = "event:" -> [p EXCEPT !.event = Tail(line)]
      [] line # <<>> /\ Head(line) = "data:" -> [p EXCEPT !.data = Joined(@, Tail(line))]
      [] OTHER -> p

\* The complete lines of a text, and what is left behind the last of them.
EndsOfLines(bytes) == {i \in DOMAIN bytes : bytes[i] = "nl"}

Lines(bytes) ==
    LET ends == SetToSortSeq(EndsOfLines(bytes), <)
    IN  [k \in DOMAIN ends |->
           SubSeq(bytes, IF k = 1 THEN 1 ELSE ends[k - 1] + 1, ends[k] - 1)]

LeftOver(bytes) == SubSeq(bytes, Max(EndsOfLines(bytes) \cup {0}) + 1, Len(bytes))

\* The pieces that may come next: up to two lines, cut anywhere.
Continues(line) == IsPrefix(LeftOver(sent), line)
Pieces ==
    LET from == Len(LeftOver(sent)) + 1
    IN  UNION {{SubSeq(a \o b, from, n) : n \in from..Len(a \o b)} :
                 a \in {l \in LineKinds : Continues(l)}, b \in LineKinds}

TrimmedLine(p, raw) == Line(p, WithoutCr(raw))

Become(p) ==
    /\ event' = p.event /\ data' = p.data
    /\ given' = p.given /\ postPath' = p.postPath

\* feed, and the sink of readLoop: the lines that the piece completes.
Feed(piece) ==
    /\ ~ended
    /\ Cardinality(EndsOfLines(sent \o piece)) <= IF attempt = 1 THEN MaxLines ELSE MaxAgain
    /\ sent' = sent \o piece
    /\ buffer' = LeftOver(buffer \o piece)
    /\ Become(FoldLeft(TrimmedLine, Parse, Lines(buffer \o piece)))
    /\ UNCHANGED <<reader, attempt, carried, ended>>

\* The transfer ends well.  finish takes a last line without its end, carriage
\* return and all, and hands on an event that has data; the MCP client forgets both.
Finish ==
    /\ ~ended
    /\ ended' = TRUE
    /\ IF reader = "mcp"
       THEN UNCHANGED <<parser, given, postPath>>
       ELSE LET last == IF buffer = <<>> THEN Parse ELSE Line(Parse, buffer)
            IN  /\ Become(IF last.data = <<>> THEN last ELSE Dispatched(last))
                /\ buffer' = <<>>
    /\ UNCHANGED <<reader, attempt, sent, carried>>

ResetsParser == reader # "compat"

\* The transfer breaks and is repeated.  RemoteAPIClient and the MCP client make a new
\* parser, OpenAICompatClient goes on with the one it has.
Break ==
    /\ ~ended /\ attempt < MaxAttempts
    /\ attempt' = attempt + 1
    /\ sent' = <<>> /\ given' = <<>> /\ postPath' = <<>>
    /\ IF ResetsParser
       THEN buffer' = <<>> /\ event' = <<>> /\ data' = <<>>
       ELSE UNCHANGED parser
    /\ carried' = (parser' # <<<<>>, <<>>, <<>>>>)
    /\ UNCHANGED <<reader, ended>>

Next == (\E piece \in Pieces : Feed(piece)) \/ Finish \/ Break

Spec == Init /\ [][Next]_vars

---------------------------------------------------------------------------
\* What a stream says, read as a whole: an event for each empty line, made of
\* the lines between it and the empty line before.

Block(lines, k) == {j \in 1..(k - 1) : \A i \in j..(k - 1) : lines[i] # <<>>}

ValuesOf(lines, block, field) ==
    LET js == SetToSortSeq({j \in block : Head(lines[j]) = field}, <)
    IN  [i \in DOMAIN js |-> Tail(lines[js[i]])]

DataOf(values) ==
    LET said == {i \in DOMAIN values : values[i] # <<>>}
    IN  IF reader = "mcp" THEN FlattenSeq(values)
        ELSE IF said = {} THEN <<>>
        ELSE Tail(FlattenSeq([i \in 1..(Len(values) - Min(said) + 1) |->
                                <<"nl">> \o values[i + Min(said) - 1]]))

Said(lines, k) ==
    LET names == ValuesOf(lines, Block(lines, k), "event:")
    IN  [event |-> IF names = <<>> THEN <<>> ELSE Last(names),
         data |-> DataOf(ValuesOf(lines, Block(lines, k), "data:"))]

IsEvent(e) == e.data # <<>> \/ (reader # "mcp" /\ e.event # <<>>)
IsMessage(e) == IsEvent(e) /\ ~(reader = "mcp" /\ e.event = Endpoint)

AllSaid(lines) ==
    LET ks == SetToSortSeq({k \in DOMAIN lines : lines[k] = <<>>}, <)
    IN  [i \in DOMAIN ks |-> Said(lines, ks[i])]

WholeLines == [k \in DOMAIN Lines(sent) |-> WithoutCr(Lines(sent)[k])]

\* A clean end of the transfer is an end of the last line and of an event with data.
LastEvent ==
    LET lines == IF LeftOver(sent) = <<>> THEN WholeLines ELSE Append(WholeLines, LeftOver(sent))
        open == Said(Append(lines, <<>>), Len(lines) + 1)
    IN  IF ended /\ reader # "mcp" /\ open.data # <<>> THEN <<open>> ELSE <<>>

\* However the network cuts a stream up and wherever a transfer before it broke, the
\* events handed on are those that the bytes so far say, in their order and each
\* once, and requests go to the URL named last.  The compatible client keeps a
\* broken transfer's half line, and then the first event is not what was sent.
EventsAreOfTheStream ==
    ~carried =>
      /\ given = SelectSeq(AllSaid(WholeLines) \o LastEvent, IsMessage)
      /\ reader = "mcp" =>
           LET named == SelectSeq(AllSaid(WholeLines), LAMBDA e : e.event = Endpoint /\ IsEvent(e))
           IN  postPath = IF named = <<>> THEN <<>> ELSE Last(named).data

\* Only the compatible client carries anything from one transfer to the next.
TransfersAreSeparate == carried => reader = "compat"

\* What is read of a stream is what its server wrote in it.
StreamsAreRead == EventsAreOfTheStream /\ TransfersAreSeparate
====
