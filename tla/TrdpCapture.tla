---------------------------- MODULE TrdpCapture ----------------------------
(***************************************************************************)
(* The capture side of the TRDP plugin (plugins/trdp/capture.rs).          *)
(*                                                                         *)
(* TrdpStreamDecoder reassembles message data telegrams from the TCP       *)
(* segments a capture shows: frames may be missing, repeated, overlapping  *)
(* or late, a connection may be opened again or reset in the middle, and   *)
(* the decoder forgets flows when it has too many. A byte of a connection  *)
(* is its position in the stream; telegrams of Whole bytes follow one      *)
(* another, a telegram is recognised by its first HeadSize bytes, and only a   *)
(* position where a telegram starts looks like one.                        *)
(*                                                                         *)
(* A live capture keeps the last FrameLimit frames and counts, per flow,   *)
(* what it saw and what the sequence counters say it missed; the counter   *)
(* wraps at SeqMod. Saving an opened capture over itself writes a          *)
(* temporary file and swaps it in with two renames.                        *)
(***************************************************************************)
EXTENDS Integers, Sequences, FiniteSets

CONSTANTS Link,         \* connections the capture shows
          Length,       \* bytes of a connection
          HeadSize, Whole,  \* bytes a telegram is recognised by, and its size
          MaxSegment,   \* bytes of a segment
          Cap,          \* TCP_BUFFER_CAP
          FlowLimit,    \* TCP_FLOW_LIMIT
          FrameLimit,   \* LIVE_FRAME_LIMIT
          SeqMod,       \* values of a sequence counter
          MaxFrames     \* frames of a capture

VARIABLES flows,        \* reassembly state of each connection; known: in the decoder's table
          sent,         \* bytes each sender has put on the wire
          clean,        \* ghost: the flow has followed its stream from the first byte
          capture,      \* frames kept and dropped, and the statistics of one flow
          sender,       \* ghost: the counter of the first telegram seen, and telegrams sent since
          file          \* the files of a save in place, and its step

cpvars == <<flows, sent, clean, capture, sender, file>>

StartsAt(p) == (p - 1) % Whole = 0
Positions(from, n) == [i \in 1..n |-> from + i - 1]

NoFlow == [known |-> FALSE, expected |-> 0, buffer |-> <<>>, out |-> <<>>]
NoStats == [count |-> 0, missed |-> 0, previous |-> -1]

Init ==
    /\ flows = [l \in Link |-> NoFlow]
    /\ sent = [l \in Link |-> 0]
    /\ clean = [l \in Link |-> FALSE]
    /\ capture = [frames |-> <<>>, dropped |-> 0, seen |-> 0, stats |-> NoStats]
    /\ sender \in [base : 0..(SeqMod - 1), count : {0}]
    /\ file = [at |-> "idle", destination |-> "original", temporary |-> "none",
               backup |-> "none"]

(***************************************************************************)
(* TrdpStreamDecoder::feed_tcp.                                            *)
(***************************************************************************)
\* Bytes of a payload the flow has already taken.
Trim_None(flow, from, n) == 0

Trim(flow, from, n) ==
    IF from >= flow.expected THEN 0
    ELSE IF flow.expected - from >= n THEN n ELSE flow.expected - from

\* A hole throws the unfinished telegram away; what was seen before is cut off.
Appended(flow, from, n) ==
    LET skipped == from > flow.expected
        trim == Trim(flow, from, n)
        kept == IF skipped \/ Len(flow.buffer) + n - trim > Cap THEN <<>> ELSE flow.buffer
        room == Cap - Len(kept)
        bytes == Positions(from + trim, n - trim)
        taken == IF Len(bytes) > room THEN SubSeq(bytes, Len(bytes) - room + 1, Len(bytes))
                 ELSE bytes
    IN IF n = 0 \/ trim = n THEN flow
       ELSE [flow EXCEPT !.buffer = kept \o taken,
                         !.expected = (IF skipped THEN from ELSE @) + Len(taken)]

\* Offsets at which the buffer holds the recognisable head of a telegram.
Heads(buffer) == {i \in 1..Len(buffer) : StartsAt(buffer[i]) /\ Len(buffer) - i + 1 >= HeadSize}

\* One turn of the decoding loop: find a head, drop what stands before it,
\* and take the telegram when it is complete.
Turn(flow) ==
    LET heads == Heads(flow.buffer)
        first == CHOOSE i \in heads : \A j \in heads : i <= j
        rest == SubSeq(flow.buffer, first, Len(flow.buffer))
    IN IF heads = {}
       THEN [flow EXCEPT !.buffer =
               IF Len(@) > HeadSize - 1 THEN SubSeq(@, Len(@) - HeadSize + 2, Len(@)) ELSE @]
       ELSE IF Len(rest) < Whole THEN [flow EXCEPT !.buffer = rest]
       ELSE [flow EXCEPT !.buffer = SubSeq(rest, Whole + 1, Len(rest)),
                         !.out = Append(@, SubSeq(rest, 1, Whole))]

\* The loop runs until nothing is left to take; a buffer holds at most Cap bytes.
Decoded(flow) ==
    LET turns[i \in 0..(Cap \div Whole + 1)] == IF i = 0 THEN flow ELSE Turn(turns[i - 1])
    IN turns[Cap \div Whole + 1]

\* The flow a frame belongs to: a known one, or a new one in place of any other
\* when there are too many. SYN and RST start a flow over, RST and FIN end it.
Fresh(from) == [NoFlow EXCEPT !.known = TRUE, !.expected = from]

Table == {l \in Link : flows[l].known}

FeedTcp(l, flag, from, n) ==
    LET begins == l \notin Table \/ flag \in {"syn", "rst"}
        start == IF begins THEN Fresh(from) ELSE flows[l]
        after == [Decoded(Appended(start, from, n)) EXCEPT !.known = flag \notin {"rst", "fin"}]
    IN /\ \/ /\ l \in Table \/ Cardinality(Table) < FlowLimit
             /\ flows' = [flows EXCEPT ![l] = after]
          \/ /\ l \notin Table /\ Cardinality(Table) >= FlowLimit
             /\ \E victim \in Table :
                   flows' = [flows EXCEPT ![l] = after, ![victim].known = FALSE]
       /\ clean' = [clean EXCEPT ![l] = IF begins THEN from = 1
                                        ELSE @ /\ from <= start.expected]

\* append_live_capture: the frame is stored, its packets are counted, and the
\* oldest frames over the limit are dropped.
Stored(frame) ==
    LET frames == Append(capture.frames, frame)
        over == IF Len(frames) > FrameLimit THEN Len(frames) - FrameLimit ELSE 0
    IN [capture EXCEPT !.frames = SubSeq(frames, over + 1, Len(frames)),
                       !.dropped = @ + over, !.seen = @ + 1]

\* A segment of a connection: the next bytes, or any seen before once more;
\* the capture may not show it.
Segment(l, from, n, flag, shown) ==
    /\ capture.seen < MaxFrames
    /\ from <= sent[l] + 1 /\ from + n - 1 <= Length
    /\ flag = "syn" => from = 1
    /\ sent' = [sent EXCEPT ![l] = IF from + n - 1 > @ THEN from + n - 1 ELSE @]
    /\ IF shown
       THEN FeedTcp(l, flag, from, n) /\ capture' = Stored("tcp")
       ELSE UNCHANGED <<flows, clean, capture>>
    /\ UNCHANGED <<sender, file>>

(***************************************************************************)
(* FlowAccumulator::observe, for process data with a sequence counter. The *)
(* sender counts up by one; telegrams may be lost before the capture.      *)
(***************************************************************************)
Missed_Raw(previous, counter) == IF counter - previous > 1 THEN counter - previous - 1 ELSE 0

Missed(previous, counter) ==
    LET distance == (counter - previous) % SeqMod
    IN IF distance > 1 /\ distance < SeqMod \div 2 THEN distance - 1 ELSE 0

Observe(lost) ==
    /\ capture.seen < MaxFrames
    /\ lost + 1 < SeqMod \div 2
    /\ LET stats == capture.stats
           first == stats.previous = -1
           gap == IF first THEN 0 ELSE lost
           counter == (sender.base + sender.count + gap) % SeqMod
       IN /\ capture' = [Stored("udp") EXCEPT !.stats =
                           [count |-> stats.count + 1,
                            missed |-> stats.missed + IF first THEN 0
                                                      ELSE Missed(stats.previous, counter),
                            previous |-> counter]]
          /\ sender' = [sender EXCEPT !.count = @ + gap + 1]
    /\ UNCHANGED <<flows, sent, clean, file>>

(***************************************************************************)
(* trdp_save_capture over the opened file itself.                          *)
(***************************************************************************)
SaveStep(from, to, change) ==
    /\ file.at = from
    /\ file' = [change EXCEPT !.at = to]
    /\ UNCHANGED <<flows, sent, clean, capture, sender>>

Convert ==
    \/ SaveStep("idle", "written", [file EXCEPT !.temporary = "converted"])
    \/ SaveStep("idle", "failed", [file EXCEPT !.temporary = "partial"])

SetAside_Removed == [file EXCEPT !.destination = "none"]

SetAside == [file EXCEPT !.backup = file.destination, !.destination = "none"]

Replace ==
    \/ SaveStep("written", "aside", SetAside)
    \/ SaveStep("written", "failed", file)
    \/ SaveStep("aside", "swapped", [file EXCEPT !.destination = file.temporary,
                                                 !.temporary = "none"])
    \/ SaveStep("aside", "restoring", file)
    \/ SaveStep("restoring", "restored", [file EXCEPT !.destination = file.backup,
                                                      !.backup = "none"])
    \/ SaveStep("restoring", "stranded", file)
    \/ SaveStep("swapped", "saved", [file EXCEPT !.backup = "none"])
    \/ SaveStep("swapped", "saved", file)
    \/ SaveStep("restored", "failed", [file EXCEPT !.temporary = "none"])

\* The decoder, the statistics and a save do not touch one another.
Decodes ==
    \E l \in Link, from \in 1..Length, n \in 1..MaxSegment,
       flag \in {"none", "syn", "fin", "rst"}, shown \in BOOLEAN :
          Segment(l, from, n, flag, shown)

Counts == \E lost \in 0..(SeqMod \div 2) : Observe(lost)

Saves == Convert \/ Replace

Next == Decodes \/ Counts \/ Saves

Spec == Init /\ [][Next]_cpvars

(***************************************************************************)
(* Properties.                                                             *)
(***************************************************************************)
\* What a flow decoded since it was opened are whole telegrams of the stream,
\* in the order of the stream and each once; and a flow that followed its
\* connection from the first byte has decoded every telegram it has seen the
\* end of (feed_tcp under lost, repeated, overlapping and late segments).
TelegramsExact ==
    \A l \in Link :
        LET out == flows[l].out
        IN /\ \A i \in 1..Len(out) : /\ StartsAt(out[i][1])
                                     /\ out[i] = Positions(out[i][1], Whole)
                                     /\ i > 1 => out[i][1] > out[i - 1][1]
           /\ clean[l] => Len(out) = (flows[l].expected - 1) \div Whole

\* Telegrams seen and telegrams counted as missed add up to what was sent,
\* also when the counter wraps (FlowAccumulator::observe).
MissedIsExact == capture.stats.count + capture.stats.missed = sender.count

\* Whatever step of a save in place fails, and wherever the program stops, the
\* frames of the opened capture are in one of the files (trdp_save_capture).
SourceSurvives ==
    {"original", "converted"} \intersect {file.destination, file.backup} # {}
=============================================================================
