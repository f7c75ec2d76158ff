----------------------------- MODULE RttStream ------------------------------
(***************************************************************************)
(* The bytes of one RTT up channel, from the poll of the worker to the     *)
(* events of a SystemView decoder: RttShared::record_rx, the bounded       *)
(* history (plugins/rtt/runtime.rs), the fan-out to subscribers            *)
(* (embedded_debug/observation.rs), and run_decoder with its streaming     *)
(* decoder (plugins/rtt/systemview.rs).                                    *)
(* The target sends symbols: sync markers and packets of two symbols each. *)
(* A symbol is its position, which also says what it is.  Sequence numbers *)
(* grow with the position, so the end of a chunk stands for its sequence.  *)
(***************************************************************************)
EXTENDS Naturals, Sequences, FiniteSetsExt

CONSTANTS Length,        \* symbols the target sends (bound of the model)
          HistoryLimit,  \* HISTORY_PER_CHANNEL_BYTES, in symbols
          Capacity,      \* RAW_OBSERVATION_SUBSCRIPTION_CAPACITY, in chunks
          MaxAttach      \* observers attached one after the other (bound of the model)

(* A marker, two packets, a marker, ...                                    *)
Sync(i) == i % 5 = 0
Opens(i) == i % 5 \in {1, 3}
Closes(i) == i % 5 \in {2, 4}

VARIABLES sent,       \* symbols read from the target so far
          chunk,      \* the chunk record_rx works on, and how far it got
          history,    \* ChannelHistory.chunks
          queue,      \* the subscription of the observer, or <<>>
          drops,      \* decoder_dropped_chunks
          observer,   \* "none", "subscribed", "booted", "running"; how often attached
          decoder,    \* expected offset, replayed sequence, synchronised, buffer
          events,     \* packets decoded since the attach
          gaps        \* calls of mark_input_gap since the attach

rsvars == <<sent, chunk, history, queue, drops, observer, decoder, events, gaps>>
acquired == <<sent, chunk, history>>
Nothing == [pc |-> "idle", from |-> 0, to |-> 0]
NewDecoder == [expected |-> Length + 1, replay |-> 0, sync |-> FALSE, buffer |-> <<>>]

Init ==
    /\ sent = 0 /\ chunk = Nothing /\ history = <<>>
    /\ queue = <<>> /\ drops = 0
    /\ observer = [pc |-> "none", boot |-> <<>>, attached |-> 0]
    /\ decoder = NewDecoder /\ events = <<>> /\ gaps = 0

------------------------------------------------------------------------------
(* The worker *)

(* record_rx: the sequence number and the offset of a chunk just read      *)
Read ==
    /\ chunk.pc = "idle" /\ sent < Length
    /\ \E n \in 1..2 :
           /\ sent + n <= Length
           /\ chunk' = [pc |-> "stamped", from |-> sent, to |-> sent + n]
           /\ sent' = sent + n
    /\ UNCHANGED <<history, queue, drops, observer, decoder, events, gaps>>

Size(h) == IF h = <<>> THEN 0 ELSE h[Len(h)].to - h[1].from
(* HistoryStore::push: the front goes while the channel holds too much.    *)
Push ==
    /\ chunk.pc = "stamped"
    /\ LET h == Append(history, [from |-> chunk.from, to |-> chunk.to])
           first == Min({i \in 1..(Len(h) + 1) : Size(SubSeq(h, i, Len(h))) <= HistoryLimit})
       IN history' = SubSeq(h, first, Len(h))
    /\ chunk' = [chunk EXCEPT !.pc = "pushed"]
    /\ UNCHANGED <<sent, queue, drops, observer, decoder, events, gaps>>
(* A chunk of another channel makes the session hold too much, and the     *)
(* oldest chunk of the session was one of this channel.                    *)
PushOther ==
    /\ chunk.pc = "idle" /\ history # <<>> /\ history' = Tail(history)
    /\ UNCHANGED <<sent, chunk, queue, drops, observer, decoder, events, gaps>>

(* ObservationSource::publish: a full queue loses the new chunk, and the   *)
(* loss is counted.                                                        *)
Publish ==
    /\ chunk.pc = "pushed" /\ chunk' = Nothing
    /\ IF observer.pc = "none" THEN UNCHANGED <<queue, drops>>
       ELSE IF Len(queue) >= Capacity THEN drops' = drops + 1 /\ UNCHANGED queue
       ELSE queue' = Append(queue, [from |-> chunk.from, to |-> chunk.to]) /\ UNCHANGED drops
    /\ UNCHANGED <<sent, history, observer, decoder, events, gaps>>

------------------------------------------------------------------------------
(* start_systemview_observer: subscribe, then copy the history.            *)
Subscribe ==
    /\ observer.pc = "none" /\ observer.attached < MaxAttach
    /\ observer' = [observer EXCEPT !.pc = "subscribed", !.attached = @ + 1]
    /\ queue' = <<>> /\ drops' = 0 /\ decoder' = NewDecoder /\ events' = <<>> /\ gaps' = 0
    /\ UNCHANGED acquired
Bootstrap ==
    /\ observer.pc = "subscribed"
    /\ observer' = [observer EXCEPT !.pc = "booted", !.boot = history]
    /\ UNCHANGED <<acquired, queue, drops, decoder, events, gaps>>

------------------------------------------------------------------------------
(* run_decoder *)

(* SystemViewDecoder::push, one symbol at a time: nothing counts before a  *)
(* marker, a marker is never inside a packet, a symbol that cannot start   *)
(* one is passed over.                                                     *)
Push1(dec, i) ==
    CASE ~dec.sync -> [d |-> [dec EXCEPT !.sync = Sync(i)], e |-> <<>>]
      [] dec.sync /\ Sync(i) /\ dec.buffer = <<>> -> [d |-> dec, e |-> <<>>]
      [] dec.sync /\ dec.buffer # <<>> -> [d |-> [dec EXCEPT !.buffer = <<>>], e |-> <<<<dec.buffer[1], i>>>>]
      [] OTHER -> [d |-> [dec EXCEPT !.buffer = IF Opens(i) THEN <<i>> ELSE <<>>], e |-> <<>>]
PushAll(dec, from, to) ==
    LET pushed[i \in from..to] ==
            IF i = from THEN [d |-> dec, e |-> <<>>]
            ELSE LET s == Push1(pushed[i - 1].d, i - 1)
                 IN [d |-> s.d, e |-> pushed[i - 1].e \o s.e]
    IN pushed[to]

(* mark_input_gap: the decoder starts over with the next marker.           *)
AfterGap_Unnoticed(c) == decoder
AfterGap(c) == IF decoder.expected <= Length /\ c.from # decoder.expected
               THEN [decoder EXCEPT !.sync = FALSE, !.buffer = <<>>] ELSE decoder
Ingest(c) ==
    LET r == PushAll(AfterGap(c), c.from, c.to)
    IN /\ decoder' = [r.d EXCEPT !.expected = c.to, !.replay = IF observer.pc = "booted" THEN c.to ELSE @]
       /\ events' = events \o r.e
       /\ gaps' = IF decoder.expected <= Length /\ c.from # decoder.expected THEN gaps + 1 ELSE gaps

Replay ==
    /\ observer.pc = "booted"
    /\ IF observer.boot = <<>>
       THEN observer' = [observer EXCEPT !.pc = "running"] /\ UNCHANGED <<decoder, events, gaps>>
       ELSE Ingest(Head(observer.boot)) /\ observer' = [observer EXCEPT !.boot = Tail(@)]
    /\ UNCHANGED <<acquired, queue, drops>>
(* chunks that were in the history as well are passed over                 *)
Replayed_Never(c) == FALSE
Replayed(c) == c.to <= decoder.replay
Receive ==
    /\ observer.pc = "running" /\ queue # <<>>
    /\ queue' = Tail(queue)
    /\ IF Replayed(Head(queue)) THEN UNCHANGED <<decoder, events, gaps>> ELSE Ingest(Head(queue))
    /\ UNCHANGED <<acquired, drops, observer>>

(* stop_systemview_observer: the subscription is dropped with the decoder. *)
Detach ==
    /\ observer.pc = "running"
    /\ observer' = [observer EXCEPT !.pc = "none"] /\ queue' = <<>>
    /\ UNCHANGED <<acquired, drops, decoder, events, gaps>>

Acquires == Read \/ Push \/ Publish
Observes == Bootstrap \/ Replay \/ Receive
Next == Acquires \/ PushOther \/ Subscribe \/ Observes \/ Detach
Spec == Init /\ [][Next]_rsvars /\ WF_rsvars(Acquires) /\ WF_rsvars(Observes)

------------------------------------------------------------------------------
(* The decoder makes up no events and repeats none: what it decodes are    *)
(* packets of the target, whole and in order, whatever the history evicted,*)
(* whatever its queue lost and wherever chunks were cut (run_decoder,      *)
(* SystemViewDecoder::push).                                               *)
NoFalseEvents ==
    /\ \A k \in 1..Len(events) : Opens(events[k][1]) /\ events[k][2] = events[k][1] + 1
    /\ \A k \in 1..(Len(events) - 1) : events[k][2] < events[k + 1][1]

(* "no canonical bytes can fall into an attach-time gap": the input of a   *)
(* decoder has a gap only where its queue was full, and only after one.    *)
GapsAreDrops == gaps <= drops
=============================================================================
