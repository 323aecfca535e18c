------------------------------- MODULE SseStream -------------------------------
(***************************************************************************)
(* Event streams from the gateway to the UI: what                           *)
(* gateway/gateway/routes/streaming.py sends, the reading loop of           *)
(* frontend/src/api/client.ts with the parser of sse.ts, and the view of    *)
(* App.tsx that shows the events.                                          *)
(*                                                                         *)
(* Bytes arrive in chunks that end anywhere: in an event, a delimiter, a    *)
(* character.  A byte is a line feed, a carriage return, a space, other      *)
(* white space, one of the two bytes High and Low of some character, the    *)
(* name of a field with or without its colon, or anything else.            *)
(***************************************************************************)
EXTENDS Naturals, SequencesExt

CONSTANTS
    Streams,    \* clicks on "Start stream demo", each of which opens a stream
    MaxPieces   \* how long a route's text may be

ASSUME StreamAssumption == MaxPieces \in Nat

VARIABLES
    text,       \* the bytes the route sends
    phase,      \* where each stream is in streamGatewaySse
    count,      \* the number of bytes read of it
    carry,      \* the TextDecoder: the first byte of a character, or nothing
    pending,    \* the decoded text without the frames taken from it
    delivered,  \* history: the chunks given to onChunk
    output,     \* streamOutput: what the view shows, each line with its stream
    newest      \* history: the stream of the last click

streamVars == <<text, phase, count, carry, pending, delivered, output, newest>>

LF == "LF"
CR == "CR"
Space == " "
Tab == "Tab"
High == "High"
Low == "Low"
Event == "event:"
Data == "data:"
EventName == "event"
DataName == "data"
Char == "High Low"
Replacement == "U+FFFD"

White == {Space, Tab}

-------------------------------------------------------------------------------
(* What the routes send. *)
(* Mutant: the blank line after the event is forgotten. *)
FormatWithoutBlankLine(event, data) ==
    <<Event, Space, event, LF, Data, Space, data, LF>>

FormatSseEvent(event, data) ==
    <<Event, Space, event, LF, Data, Space, data, LF, LF>>

DemoEvents == << <<"chunk", "chunk-1">>, <<"chunk", "chunk-2">>, <<"chunk", "chunk-3">>,
                 <<"complete", "done">> >>

StreamDemoEvents ==
    FlattenSeq([i \in DOMAIN DemoEvents |-> FormatSseEvent(DemoEvents[i][1], DemoEvents[i][2])])

(* The text of any other route, which may be cut off inside a character, or  *)
(* a block of two lines with white space at the ends of their values.       *)
Pieces == {<<LF>>, <<CR, LF>>, <<CR>>, <<Event, "e">>, <<Data, "d">>, <<High, Low>>}
Written == {<<>>, <<Space>>, <<Space, "v">>, <<Space, Space, "v">>, <<Tab, "v">>, <<"v", Space>>}
Labels == {Event, Data, EventName, DataName}
Block(p, v, q, w) == <<p>> \o v \o <<LF, q>> \o w \o <<LF, LF>>
CutOff == {FlattenSeq(pieces) \o end : pieces \in BoundedSeq(Pieces, MaxPieces), end \in {<<>>, <<High>>}}
Texts == CutOff \cup {Block(p, v, q, w) : p, q \in Labels, v, w \in Written}

-------------------------------------------------------------------------------
(* FoldLeft in linear time. *)
Fold(op(_, _), base, string) ==
    LET upTo[n \in 0 .. Len(string)] ==
            IF n = 0 THEN base ELSE op(upTo[n - 1], string[n])
    IN  upTo[Len(string)]

(* TextDecoder.decode; without "stream" it ends the text.                   *)
DecodeByte(state, byte) ==
    IF byte = Low /\ state.carry # <<>>
    THEN [carry |-> <<>>, out |-> Append(state.out, Char)]
    ELSE LET broken == IF state.carry = <<>> THEN <<>> ELSE <<Replacement>>
             added == IF byte = High THEN <<>>
                      ELSE IF byte = Low THEN <<Replacement>> ELSE <<byte>>
         IN  [carry |-> IF byte = High THEN <<High>> ELSE <<>>,
              out |-> state.out \o broken \o added]

DecodeBytes(first, bytes) == Fold(DecodeByte, [carry |-> first, out |-> <<>>], bytes)

Flushed(state) ==
    IF state.carry = <<>> THEN state
    ELSE [carry |-> <<>>, out |-> Append(state.out, Replacement)]

(* Mutant: every chunk is decoded for itself. *)
DecodeAlone(first, bytes, stream) == Flushed(DecodeBytes(<<>>, bytes))

Decode(first, bytes, stream) ==
    IF stream THEN DecodeBytes(first, bytes) ELSE Flushed(DecodeBytes(first, bytes))

(* findNextSseFrameBoundary *)
At(delimiter, string) ==
    {i \in 1 .. Len(string) - Len(delimiter) + 1 :
        \A k \in DOMAIN delimiter : string[i + k - 1] = delimiter[k]}

(* Mutant: only line feeds delimit frames. *)
LFBoundaries(string) == {[index |-> i, length |-> 2] : i \in At(<<LF, LF>>, string)}

Boundaries(string) ==
    UNION {{[index |-> i, length |-> Len(delimiter)] : i \in At(delimiter, string)} :
              delimiter \in {<<LF, LF>>, <<CR, LF, CR, LF>>}}

FindNextBoundary(found) == CHOOSE b \in found : \A c \in found : b.index <= c.index

(* parseSseFrame: one chunk, or none if the frame has no data.              *)
Normalized(frame) ==
    LET Follows(i) == frame[i] = LF /\ i > 1 /\ frame[i - 1] = CR
    IN  Fold(LAMBDA out, i : IF Follows(i) THEN out
                             ELSE Append(out, IF frame[i] = CR THEN LF ELSE frame[i]),
             <<>>, [i \in DOMAIN frame |-> i])

Lines(string) ==
    Fold(LAMBDA lines, c : IF c = LF THEN Append(lines, <<>>)
                           ELSE [lines EXCEPT ![Len(lines)] = Append(@, c)],
         <<<<>>>>, string)

(* String.prototype.trimStart and trim, and what parseSseFrame makes of the   *)
(* rest of a line: all white space around an event, and in front of data.   *)
TrimStart(string) ==
    LET black == {i \in DOMAIN string : string[i] \notin White}
    IN  IF black = {} THEN <<>> ELSE SubSeq(string, Min(black), Len(string))

TrimEnd(string) ==
    LET black == {i \in DOMAIN string : string[i] \notin White}
    IN  IF black = {} THEN <<>> ELSE SubSeq(string, 1, Max(black))

Trimmed(field, string) ==
    IF field = Event THEN TrimEnd(TrimStart(string)) ELSE TrimStart(string)

ValuesOf(field, lines) ==
    Fold(LAMBDA values, line : IF line # <<>> /\ Head(line) = field
                               THEN Append(values, Trimmed(field, Tail(line))) ELSE values,
         <<>>, lines)

Parse(frame) ==
    LET lines == Lines(Normalized(frame))
        events == ValuesOf(Event, lines)
        data == ValuesOf(Data, lines)
    IN  IF data = <<>> THEN <<>>
        ELSE << [event |-> IF events = <<>> THEN <<"message">> ELSE Last(events), data |-> data] >>

(* Mutant: at most one frame is taken from what has been read.              *)
ExtractOne(string) ==
    LET found == Boundaries(string)
        b == FindNextBoundary(found)
    IN  IF found = {} THEN [chunks |-> <<>>, rest |-> string]
        ELSE [chunks |-> Parse(SubSeq(string, 1, b.index - 1)),
              rest |-> SubSeq(string, b.index + b.length, Len(string))]

(* The inner loop: the chunks of the complete frames, and what is left.     *)
Extract(string) ==
    LET all == Boundaries(string)
        from[n \in 1 .. Len(string) + 1] ==
            LET found == {b \in all : b.index >= n}
                b == FindNextBoundary(found)
                others == from[b.index + b.length]
            IN  IF found = {} THEN [chunks |-> <<>>, rest |-> SubSeq(string, n, Len(string))]
                ELSE [chunks |-> Parse(SubSeq(string, n, b.index - 1)) \o others.chunks,
                      rest |-> others.rest]
    IN  from[1]

(* What is left when the stream ends is a frame too, if it is not blank.    *)
Final(rest) ==
    IF \A i \in DOMAIN rest : rest[i] \in White \cup {LF, CR} THEN <<>> ELSE Parse(rest)

-------------------------------------------------------------------------------
StreamInit ==
    /\ text \in Texts \cup {StreamDemoEvents}
    /\ phase = [s \in Streams |-> "idle"]
    /\ count = [s \in Streams |-> 0]
    /\ carry = [s \in Streams |-> <<>>]
    /\ pending = [s \in Streams |-> <<>>]
    /\ delivered = [s \in Streams |-> <<>>]
    /\ output = <<>>
    /\ newest \in Streams

(* Mutant: the line is put after the text of the last rendering. *)
ShowAfterStale(s, lines) ==
    output' = IF lines = <<>> THEN output ELSE << <<s, Last(lines)>> >>

(* setStreamOutput, once for each line. *)
Show(s, lines) == output' = output \o [i \in DOMAIN lines |-> <<s, lines[i]>>]

(* handleStreamDemo.  The bound: only the demo is streamed more than once.  *)
Click(s) ==
    /\ phase[s] = "idle"
    /\ text = StreamDemoEvents \/ \A q \in Streams : phase[q] = "idle"
    /\ phase' = [phase EXCEPT ![s] = "opening"]
    /\ output' = <<>>
    /\ newest' = s
    /\ UNCHANGED <<text, count, carry, pending, delivered>>

Open(s) ==
    /\ phase[s] = "opening"
    /\ phase' = [phase EXCEPT ![s] = "reading"]
    /\ UNCHANGED <<text, count, carry, pending, delivered, output, newest>>

(* One turn of the loop, without and with "done". *)
Read(s) ==
    /\ phase[s] = "reading"
    /\ \E end \in count[s] + 1 .. Len(text) :
          LET decoded == Decode(carry[s], SubSeq(text, count[s] + 1, end), TRUE)
              frames == Extract(pending[s] \o decoded.out)
          IN  /\ count' = [count EXCEPT ![s] = end]
              /\ carry' = [carry EXCEPT ![s] = decoded.carry]
              /\ pending' = [pending EXCEPT ![s] = frames.rest]
              /\ delivered' = [delivered EXCEPT ![s] = @ \o frames.chunks]
              /\ Show(s, frames.chunks)
    /\ UNCHANGED <<text, phase, newest>>

Finish(s) ==
    /\ phase[s] = "reading" /\ count[s] = Len(text)
    /\ LET decoded == Decode(carry[s], <<>>, FALSE)
           frames == Extract(pending[s] \o decoded.out)
           chunks == frames.chunks \o Final(frames.rest)
       IN  /\ carry' = [carry EXCEPT ![s] = decoded.carry]
           /\ pending' = [pending EXCEPT ![s] = frames.rest]
           /\ delivered' = [delivered EXCEPT ![s] = @ \o chunks]
           /\ Show(s, chunks)
    /\ phase' = [phase EXCEPT ![s] = "done"]
    /\ UNCHANGED <<text, count, newest>>

(* The gateway refuses, or the connection breaks. *)
BreakOff(s) ==
    /\ phase[s] \in {"opening", "reading"}
    /\ phase' = [phase EXCEPT ![s] = "failed"]
    /\ Show(s, <<"error">>)
    /\ UNCHANGED <<text, count, carry, pending, delivered, newest>>

StreamNext == \E s \in Streams : Click(s) \/ Open(s) \/ Read(s) \/ Finish(s) \/ BreakOff(s)

StreamSpec == StreamInit /\ [][StreamNext]_streamVars

-------------------------------------------------------------------------------
(* The type invariant; no complete frame waits for the next chunk.          *)
StreamTypeOK ==
    /\ phase \in [Streams -> {"idle", "opening", "reading", "done", "failed"}]
    /\ count \in [Streams -> 0 .. Len(text)]
    /\ carry \in [Streams -> {<<>>, <<High>>}]
    /\ \A s \in Streams : Boundaries(pending[s]) = {}
    /\ newest \in Streams

(* Where the chunks end makes no difference: at every moment the events     *)
(* delivered are those of all bytes read so far, taken as one chunk.        *)
ChunkingInvisible ==
    \A s \in Streams :
        LET ended == phase[s] = "done"
            frames == Extract(Decode(<<>>, SubSeq(text, 1, count[s]), ~ ended).out)
        IN  delivered[s] = frames.chunks \o (IF ended THEN Final(frames.rest) ELSE <<>>)

(* The standard of event streams, one character at a time.  A line ends with *)
(* LF, CR LF or CR, so that a CR is known to be one when the next character   *)
(* is; a blank line dispatches what was collected.  A line is a field with   *)
(* its value, from which one space is removed, or without colon a field with *)
(* no value, or it is ignored.  Only, the standard drops what the end of the *)
(* stream cuts off, and here it is dispatched ("ended").                    *)
NewBlock == [line |-> <<>>, event |-> <<>>, data |-> <<>>]

WithoutSpace(value) == IF value # <<>> /\ Head(value) = Space THEN Tail(value) ELSE value

IsField(line, field, name) == line = <<name>> \/ (line # <<>> /\ Head(line) = field)

FieldValue(line) == WithoutSpace(Tail(line))

Field(block) ==
    [line  |-> <<>>,
     event |-> IF IsField(block.line, Event, EventName) THEN FieldValue(block.line)
               ELSE block.event,
     data  |-> IF IsField(block.line, Data, DataName)
               THEN Append(block.data, FieldValue(block.line)) ELSE block.data]

Dispatched(block) ==
    IF block.data = <<>> THEN <<>>
    ELSE << [event |-> IF block.event = <<>> THEN <<"message">> ELSE block.event,
             data |-> block.data] >>

LineEnds(state) ==
    IF state.block.line # <<>>
    THEN [block |-> Field(state.block), out |-> state.out, cr |-> FALSE]
    ELSE [block |-> NewBlock, out |-> state.out \o Dispatched(state.block), cr |-> FALSE]

Take(state, c) ==
    LET known == IF state.cr /\ c # LF THEN LineEnds(state) ELSE state
    IN  IF c = LF THEN LineEnds(known)
        ELSE IF c = CR THEN [block |-> known.block, out |-> known.out, cr |-> TRUE]
        ELSE [block |-> [known.block EXCEPT !.line = Append(@, c)], out |-> known.out, cr |-> FALSE]

Reading(string) == Fold(Take, [block |-> NewBlock, out |-> <<>>, cr |-> FALSE], string)

Standard(string, ended) ==
    LET end == Reading(string)
        last == IF end.cr THEN LineEnds(end) ELSE end
    IN  IF ended THEN last.out \o Dispatched(Field(last.block)) ELSE end.out

(* The lines it reads. *)
LinesRead(string, ended) ==
    {Reading(SubSeq(string, 1, n - 1)).block.line :
        n \in {i \in DOMAIN string : string[i] \in {LF, CR}}
                 \cup (IF ended THEN {Len(string) + 1} ELSE {})}

(* The parser agrees with it on texts whose lines all end with LF or all     *)
(* with CR LF, whose data does not begin with white space and whose event    *)
(* names have none at their ends and are not empty, and whose fields have    *)
(* colons: it takes off all white space, keeps an empty event name, ignores  *)
(* a name without colon, and a CR alone delimits no frame.                   *)
Uniform(bytes) ==
    \/ \A i \in DOMAIN bytes : bytes[i] # CR
    \/ \A i \in DOMAIN bytes : /\ bytes[i] = LF => i > 1 /\ bytes[i - 1] = CR
                               /\ bytes[i] = CR => i < Len(bytes) /\ bytes[i + 1] = LF

Conventional(line) ==
    LET value == FieldValue(line)
    IN  line # <<>> =>
          /\ line \notin {<<EventName>>, <<DataName>>}
          /\ Head(line) = Data /\ value # <<>> => Head(value) \notin White
          /\ Head(line) = Event => value # <<>> /\ {Head(value), Last(value)} \cap White = {}

(* Such a text is read as the standard says, and at every moment: an event   *)
(* is delivered as soon as the blank line after it has been read.           *)
ReadsConventionalText ==
    Uniform(text) =>
        \A s \in Streams :
            LET ended == phase[s] = "done"
                read == Decode(<<>>, SubSeq(text, 1, count[s]), ~ ended).out
            IN  \/ delivered[s] = Standard(read, ended)
                \/ \E line \in LinesRead(read, ended) : ~ Conventional(line)

(* The UI and the gateway agree on the format: the demo's events arrive as  *)
(* they are, in their order, and all of them if the stream does not fail.   *)
DemoArrives ==
    text = StreamDemoEvents =>
        \A s \in Streams :
            LET sent == [i \in DOMAIN DemoEvents |-> [event |-> <<DemoEvents[i][1]>>,
                                                      data |-> << <<DemoEvents[i][2]>> >>]]
            IN  /\ IsPrefix(delivered[s], sent)
                /\ phase[s] = "done" => delivered[s] = sent

(* The lines of one stream among those the view shows.                     *)
Shown(s) == Fold(LAMBDA lines, line : IF line[1] = s THEN Append(lines, line[2]) ELSE lines,
                 <<>>, output)

(* However many streams run at once, the view shows all that the newest has *)
(* delivered, in its order, and of an older one no more than its end.       *)
OutputInOrder ==
    \A s \in Streams :
        LET all == delivered[s] \o (IF phase[s] = "failed" THEN <<"error">> ELSE <<>>)
        IN  IsSuffix(Shown(s), all) /\ (s = newest => Shown(s) = all)
===============================================================================
