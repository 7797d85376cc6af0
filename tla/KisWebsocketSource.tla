--------------------------- MODULE KisWebsocketSource ---------------------------
(***************************************************************************)
(* The read-only market data source over the broker's websocket, its frame  *)
(* parser, and the bounded smoke run that drives it.  The server may send   *)
(* any frame at any time, drop the connection or fail a send; the consumer  *)
(* may close the iterator, and the task may be cancelled wherever it waits. *)
(*                                                                         *)
(* args   the command line and configuration of the smoke run               *)
(* main   where the smoke run is: "args", "run", or its exit code           *)
(* conn   the connection: "none", "open", "closing" or "closed"             *)
(* src    the source of this epoch                                          *)
(* seqs   the parser's last sequence of every channel                       *)
(* epoch  how many sources were made                                        *)
(* acks   subscriptions the server acknowledged on this connection          *)
(* got    the events delivered in this epoch                                *)
(* tally  what the run counted for its summary                              *)
(***************************************************************************)
EXTENDS Integers, Sequences, SequencesExt, TLC

CONSTANTS
    None,
    Arguments,      \* command lines with their configuration
    Frames,         \* what the server may send
    MaxEpochs,      \* bound on the sources made
    MaxCancels,     \* bound on cancellations
    MaxFrames       \* bound on the frames of an epoch

VARIABLES args, main, conn, src, seqs, epoch, acks, got, tally, cancels

vars == <<args, main, conn, src, seqs, epoch, acks, got, tally, cancels>>

-----------------------------------------------------------------------------
(* The smoke run's arguments.                                                *)

TrIds == <<"trade", "quote">>
ResolveSymbols(symbols) == IF symbols = <<>> THEN <<"s1">> ELSE SelectSeq(symbols, LAMBDA s : s # None)

(* Both channels of each symbol, each once. *)
BuildSubscriptions(symbols) ==
    FoldLeft(LAMBDA acc, s : IF Contains(acc, <<TrIds[1], s>>) THEN acc ELSE acc \o <<<<TrIds[1], s>>, <<TrIds[2], s>>>>, <<>>, symbols)

Subscriptions == BuildSubscriptions(ResolveSymbols(args.symbols))
Subscribed == {Subscriptions[i] : i \in 1 .. Len(Subscriptions)}

BoundsOk(a) ==
    /\ a.maxEvents # None \/ a.duration # None
    /\ a.maxEvents # None => a.maxEvents >= 1
    /\ a.duration # None => a.duration > 0

ConfirmationOk(a) == a.environ = a.phrase
EvidencePathOk(a) == a.evidence \in {None, "runtime"}

PlanRefused(a) ==
    \/ a.run /\ a.validateOnly
    \/ \E i \in DOMAIN a.symbols : a.symbols[i] = None
    \/ Len(BuildSubscriptions(ResolveSymbols(a.symbols))) > a.maxSubscriptions

RunRefused(a) == ~a.enabled \/ ~ConfirmationOk(a) \/ ~BoundsOk(a) \/ ~EvidencePathOk(a)

NoTally == [all |-> 0, quotes |-> 0, trades |-> 0, beats |-> 0, disconnects |-> 0, lastMarketEvent |-> FALSE]

Main ==
    /\ main = "args"
    /\ main' \in IF PlanRefused(args) THEN {"1"}
                 ELSE IF ~args.run THEN {"0"}
                 ELSE IF RunRefused(args) THEN {"1"}
                 ELSE {"run", "1"}      \* the approval key may not be issued
    /\ UNCHANGED <<args, conn, src, seqs, epoch, acks, got, tally, cancels>>

-----------------------------------------------------------------------------
(* The frame parser.  A data frame was built of count records of len fields, *)
(* followed by extra fields, blank or not.                                   *)

RecordLens(tr) == IF tr = "quote" THEN <<59, 62>> ELSE <<46>>

(* The record length a frame is read with, or None. *)
MatchRecordLen(f) ==
    LET lens == RecordLens(f.tr)
        observed == f.len * f.count + f.extra
        exact == {i \in DOMAIN lens : observed = lens[i] * f.count}
        trimmed == {i \in DOMAIN lens : lens[i] * f.count < observed /\ f.blank /\ f.len <= lens[i]}
    IN  IF exact # {} THEN lens[CHOOSE i \in exact : \A j \in exact : i <= j]
        ELSE IF trimmed # {} THEN lens[CHOOSE i \in trimmed : \A j \in trimmed : i >= j]
        ELSE None

(* Whether every record is read from where it was written. *)
Aligned(f) == f.count = 1 \/ MatchRecordLen(f) = f.len

(* A record the parser builds an event of, or the stage that refuses it. *)
BuildRecord(record) ==
    CASE record = "good" -> None [] record = "missing" -> "required_field"
      [] record \in {"future", "bad_time"} -> "control" [] record = "crossed" -> "model"

(* None, or the stages at which the frame may be refused. *)
ParseStages(f) ==
    IF ~f.layout \/ f.flag = "1" THEN {"layout"}
    ELSE IF f.tr \notin {"quote", "trade"} THEN {"unsupported"}
    ELSE IF f.count < 1 THEN {"count"}
    ELSE IF MatchRecordLen(f) = None THEN {"field_count"}
    ELSE IF ~Aligned(f) THEN {"required_field", "control", "model"}
    ELSE {BuildRecord(f.record)}

(* The events of a frame, numbered in the order received. *)
ParsedEvents(f) == [i \in 1 .. f.count |-> [channel |-> <<f.tr, f.symbol>>, seq |-> seqs[<<f.tr, f.symbol>>] + i]]

MalformedAfterAck(stage, tr) ==
    CASE stage = "layout" -> "MalformedLayout" [] stage = "count" -> "MalformedCount"
      [] stage = "field_count" -> IF tr = "quote" THEN "MalformedQuoteFieldCount" ELSE "MalformedTradeFieldCount"
      [] stage = "control" -> "MalformedControl" [] OTHER -> "MalformedRequiredField"

Typed == {"MalformedLayout", "MalformedCount", "MalformedQuoteFieldCount", "MalformedTradeFieldCount", "MalformedControl",
          "MalformedRequiredField", "UnsupportedTrId", "WebSocketProtocolError", "WebSocketClosed", "ReceiveTimeout",
          "SourceIteratorUnknown"}
-----------------------------------------------------------------------------
(* The source: one connection, subscriptions, acknowledgements, events.      *)

Channels == {<<f.tr, f.symbol>> : f \in {g \in Frames : g.kind = "data"}} \cup Subscribed
NoSource == [pc |-> "none"]
Waiting == {"connect", "subscribe", "recv", "unsubscribe", "close"}


(* The monitor asks the factory for a source: a new parser, nothing acked. *)
MakeSource ==
    /\ main = "run" /\ src.pc \in {"none", "ended"} /\ epoch < MaxEpochs
    /\ epoch' = epoch + 1 /\ conn' = "none" /\ acks' = {} /\ got' = <<>>
    /\ seqs' = [c \in Channels |-> 0]
    /\ src' = [pc |-> "connect", i |-> 1, pending |-> Subscribed,
               queue |-> <<>>, frame |-> None, frames |-> 0, result |-> None, struck |-> FALSE]
    /\ UNCHANGED <<args, main, tally, cancels>>

(* The source stops with a result and begins to clean up. *)
Stopping(s, result) == [s EXCEPT !.pc = "unsubscribe", !.i = 1, !.queue = <<>>, !.result = result]

Connect ==
    /\ src.pc = "connect"
    /\ \/ conn' = "open" /\ src' = [src EXCEPT !.pc = "subscribe"]
       \/ conn' = conn /\ src' = [src EXCEPT !.pc = "ended", !.result = "raw"]
    /\ UNCHANGED <<args, main, seqs, epoch, acks, got, tally, cancels>>

Subscribe ==
    /\ src.pc = "subscribe"
    /\ src' \in {IF src.i = Len(Subscriptions) THEN [src EXCEPT !.pc = "recv"] ELSE [src EXCEPT !.i = @ + 1],
                 Stopping(src, "raw")}
    /\ UNCHANGED <<args, main, conn, seqs, epoch, acks, got, tally, cancels>>

Full(events) == args.maxEvents # None /\ Len(events) >= args.maxEvents

(* Nothing came in time, or the connection was lost. *)
RecvFails ==
    /\ src.pc = "recv"
    /\ src' \in {Stopping(src, IF src.pending = {} THEN r ELSE "raw") : r \in {"ReceiveTimeout", "WebSocketClosed"}}
    /\ UNCHANGED <<args, main, conn, seqs, epoch, acks, got, tally, cancels>>

Receiving == src.pc = "recv" /\ src.frames < MaxFrames
Took(f) == [src EXCEPT !.frames = @ + 1]

(* A market frame: refused before every subscription is acknowledged. *)
RecvData(f) ==
    /\ Receiving /\ f.kind = "data"
    /\ IF src.pending # {} THEN src' = Stopping(Took(f), "raw") /\ UNCHANGED seqs
       ELSE \E stage \in ParseStages(f) :
            IF stage = "unsupported" THEN src' = Stopping(Took(f), "UnsupportedTrId") /\ UNCHANGED seqs
            ELSE IF stage # None THEN src' = [Stopping(Took(f), MalformedAfterAck(stage, f.tr)) EXCEPT !.frame = f] /\ UNCHANGED seqs
            ELSE /\ seqs' = [seqs EXCEPT ![<<f.tr, f.symbol>>] = @ + f.count]
                 /\ src' = IF <<f.tr, f.symbol>> \notin Subscribed THEN Stopping(Took(f), "WebSocketProtocolError")
                           ELSE [Took(f) EXCEPT !.pc = "deliver", !.queue = ParsedEvents(f)]
    /\ UNCHANGED <<args, main, conn, epoch, acks, got, tally, cancels>>

(* An acknowledgement, good only for a subscription asked for, once. *)
HandleAck(f) == f.rt = "0" /\ <<f.tr, f.symbol>> \in src.pending

RecvAck(f) ==
    /\ Receiving /\ f.kind = "ack"
    /\ LET key == <<f.tr, f.symbol>>
       IN  IF ~HandleAck(f)
           THEN /\ src' = Stopping(Took(f), IF src.pending = {} THEN "WebSocketProtocolError" ELSE "raw")
                /\ UNCHANGED <<acks, tally>>
           ELSE /\ src' = [Took(f) EXCEPT !.pending = @ \ {key}]
                /\ acks' = acks \cup {key}
                /\ tally' = IF src.pending = {key} THEN [tally EXCEPT !.all = @ + 1] ELSE tally
    /\ UNCHANGED <<args, main, conn, seqs, epoch, got, cancels>>

(* A control frame that is no JSON object. *)
RecvText(f) ==
    /\ Receiving /\ f.kind = "text"
    /\ src' = Stopping(Took(f), IF src.pending = {} THEN "WebSocketProtocolError" ELSE "raw")
    /\ UNCHANGED <<args, main, conn, seqs, epoch, acks, got, tally, cancels>>

Heartbeat == [channel |-> <<"ping", None>>, seq |-> 0]

(* A ping is answered and passed on as a heartbeat, acknowledged or not; the *)
(* answer may fail.                                                          *)
RecvPing(f) ==
    /\ Receiving /\ f.kind = "ping"
    /\ src' \in {[Took(f) EXCEPT !.pc = "deliver", !.queue = <<Heartbeat>>],
                 Stopping(Took(f), IF src.pending = {} THEN "SourceIteratorUnknown" ELSE "raw")}
    /\ UNCHANGED <<args, main, conn, seqs, epoch, acks, got, tally, cancels>>

TallyMarketHealth(event, applied) ==
    IF event.channel[1] = "ping" THEN [tally EXCEPT !.beats = @ + 1]
    ELSE IF event.channel[1] = "quote"
    THEN [tally EXCEPT !.quotes = @ + (IF applied THEN 1 ELSE 0), !.lastMarketEvent = TRUE]
    ELSE [tally EXCEPT !.trades = @ + (IF applied THEN 1 ELSE 0), !.lastMarketEvent = TRUE]

(* The next event is yielded, and the store takes it or not. *)
Deliver ==
    /\ src.pc = "deliver"
    /\ got' = Append(got, Head(src.queue))
    /\ \E applied \in BOOLEAN : tally' = TallyMarketHealth(Head(src.queue), applied)
    /\ src' = IF Full(got') THEN Stopping(src, "done")
              ELSE IF Len(src.queue) > 1 THEN [src EXCEPT !.queue = Tail(@)]
              ELSE [src EXCEPT !.pc = "recv", !.queue = <<>>]
    /\ UNCHANGED <<args, main, conn, seqs, epoch, acks, cancels>>

(* The consumer closes the iterator at a yield. *)
Aclose ==
    /\ src.pc = "deliver"
    /\ src' = Stopping(src, "done")
    /\ UNCHANGED <<args, main, conn, seqs, epoch, acks, got, tally, cancels>>

-----------------------------------------------------------------------------
(* Cleaning up: every subscription is taken back until a send fails, then    *)
(* the connection is closed.                                                 *)

Unsubscribe ==
    /\ src.pc = "unsubscribe"
    /\ src' \in {IF src.i = Len(Subscriptions) THEN [src EXCEPT !.pc = "close"] ELSE [src EXCEPT !.i = @ + 1],
                 [src EXCEPT !.pc = "close"]}
    /\ UNCHANGED <<args, main, conn, seqs, epoch, acks, got, tally, cancels>>

Close ==
    /\ src.pc = "close"
    /\ conn' = "closed"
    /\ tally' = [tally EXCEPT !.disconnects = @ + 1]
    /\ src' = [src EXCEPT !.pc = "ended", !.frame = None]
    /\ UNCHANGED <<args, main, seqs, epoch, acks, got, cancels>>

(* The task is cancelled where it waits.  While it cleans up, the            *)
(* cancellation passes the handlers of Exception and leaves at once.         *)
Cancel ==
    /\ src.pc \in Waiting /\ cancels < MaxCancels
    /\ cancels' = cancels + 1
    /\ src' = CASE src.pc = "connect" -> [src EXCEPT !.pc = "ended", !.result = "cancelled"]
                [] src.pc \in {"subscribe", "recv"} -> Stopping(src, "cancelled")
                [] OTHER -> [src EXCEPT !.pc = "ended", !.result = "cancelled", !.struck = TRUE]
    /\ conn' = IF src.pc = "close" THEN "closing" ELSE conn
    /\ UNCHANGED <<args, main, seqs, epoch, acks, got, tally>>

Passed == tally.all >= 1 /\ tally.quotes >= 1

(* The monitor has stopped: the summary decides the exit code. *)
RunSummary ==
    /\ main = "run" /\ src.pc = "ended"
    /\ main' = IF Passed THEN "0" ELSE "1"
    /\ UNCHANGED <<args, conn, src, seqs, epoch, acks, got, tally, cancels>>

Init ==
    /\ args \in Arguments
    /\ main = "args" /\ conn = "none" /\ src = NoSource /\ seqs = <<>> /\ epoch = 0
    /\ acks = {} /\ got = <<>> /\ tally = NoTally /\ cancels = 0

Next ==
    \/ Main \/ MakeSource \/ Connect \/ Subscribe \/ RecvFails \/ Deliver \/ Aclose
    \/ \E f \in Frames : RecvData(f) \/ RecvAck(f) \/ RecvText(f) \/ RecvPing(f)
    \/ Unsubscribe \/ Close \/ Cancel \/ RunSummary

Spec == Init /\ [][Next]_vars

-----------------------------------------------------------------------------
Market(event) == event.channel[1] # "ping"

(* No market event reaches the monitor before the server has acknowledged    *)
(* every subscription on this very connection, and none of a channel not     *)
(* asked for; acknowledgements of an earlier connection do not count (the    *)
(* acknowledgement barrier of events).                                       *)
AckBarrier == \A i \in DOMAIN got : Market(got[i]) => acks = Subscribed /\ got[i].channel \in Subscribed

(* In every epoch the events of a channel are numbered 1, 2, 3 in the order  *)
(* they came, over frames of several records (the parser's sequences).       *)
SequencesRun ==
    \A c \in Subscribed :
        LET own == SelectSeq(got, LAMBDA e : e.channel = c) IN \A i \in DOMAIN own : own[i].seq = i

(* Once every subscription is acknowledged a source fails with an error of   *)
(* the monitor's taxonomy, and before that never with one (the handlers of   *)
(* events and _handle_message).                                              *)
FailuresTyped ==
    src.pc = "ended" /\ src.result \notin {"done", "cancelled"} => (src.result \in Typed <=> acks = Subscribed)

(* A source that has ended has closed its connection and said so, whatever   *)
(* failed on the way, unless a cancellation hit the cleaning up.             *)
EndedIsClosedUnlessStruck ==
    src.pc = "ended" /\ ~src.struck => conn \in {"none", "closed"}

(* A source never yields more events than it was bounded to, also when one   *)
(* frame holds several.                                                      *)
BoundHolds == args.maxEvents # None => Len(got) <= args.maxEvents

(* A smoke run that passes has a last market event to show, and in some      *)
(* epoch every subscription was acknowledged; heartbeats do not make it pass *)
(* (_tally_market_health, _run_summary).                                     *)
PassMeansQuote == main = "0" /\ args.run => tally.lastMarketEvent /\ tally.all >= 1

(* Nothing is connected unless the run was asked for, enabled, confirmed and *)
(* bounded.                                                                  *)
ConnectedIsConfirmed ==
    conn # "none" => args.run /\ ~args.validateOnly /\ args.enabled /\ args.environ = args.phrase /\ (args.maxEvents # None \/ args.duration # None)

==============================================================================
