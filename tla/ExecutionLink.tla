--------------------------- MODULE ExecutionLink ---------------------------
(***************************************************************************)
(* The link between the session service and one MetaTrader terminal: the   *)
(* queue of OPEN and CLOSE commands of absorption_runtime.py and           *)
(* trading_decision_engine.py, the terminal that polls it, executes the    *)
(* commands and reports positions (VolumeStudy_Renderer.mq5,               *)
(* TradingStrategyEngine.mqh, MetaTraderExecutionClient.mqh), and the      *)
(* broker, which closes positions on its own.  One client, one symbol and  *)
(* one timeframe; where a file carries a merge conflict, its HEAD side.    *)
(*                                                                         *)
(* A command stands for its request id as well: the id of an OPEN is made  *)
(* of side and time of its trigger, that of a CLOSE of ticket and signal   *)
(* time.  Times are numbers of closed candles; 0 is no time.               *)
(***************************************************************************)
EXTENDS Naturals, FiniteSets, Sequences, SequencesExt

CONSTANTS
    MaxCandles,   \* bound: closed candles with a trigger
    MaxRetries,   \* bound: retryable rejections
    MaxFaults,    \* bound: polls given up, restarts, positions closed by hand
    FirstSides    \* bound: directions of the first candle; the sides are alike

VARIABLES
    clock,     \* the number of closed candles
    server,    \* the runtime's triggers, positions and commands
    tracked,   \* the positions the terminal tracks, by ticket
    waiting,   \* the terminal has sent a poll and awaits the answer
    broker,    \* all positions there ever were, in the order of their tickets
    up,        \* messages on their way to the server
    down,      \* <<commands>> with the answer on its way, or NoAnswer
    spent,     \* how much of each bound is used
    lost,      \* history: commands in answers nobody received
    settled,   \* history: requests that were executed or refused for good
    strays     \* history: tickets whose closing the terminal cannot report

vars == <<clock, server, tracked, waiting, broker, up, down, spent, lost, settled, strays>>

Sides == {"BUY", "SELL"}
Opposite(side) == IF side = "BUY" THEN "SELL" ELSE "BUY"
NoAnswer == <<>>
Luck == {"DONE", "RETRYABLE", "FINAL"}

OpenCommand(side, time) == [type |-> "OPEN", side |-> side, ticket |-> 0, sig |-> time]
CloseCommand(side, ticket, time) ==
    [type |-> "CLOSE", side |-> side, ticket |-> ticket, sig |-> time]

Message(kind, ticket, cmd, gain, reason) ==
    [kind |-> kind, ticket |-> ticket, side |-> cmd.side, req |-> cmd,
     sig |-> cmd.sig, gain |-> gain, reason |-> reason]
Poll(live) == [kind |-> "POLL", live |-> live]

(* What is left of a list, the tickets of a set in their order, and a book    *)
(* with one entry set.  Written without SelectSeq, SetToSortSeq, FoldLeft and *)
(* @@, as are the turns of the terminal below: the proofs look into them.     *)
Without(seq, gone) ==
    LET left[n \in 0 .. Len(seq)] ==
        IF n = 0 THEN <<>>
        ELSE IF seq[n] \in gone THEN left[n - 1] ELSE Append(left[n - 1], seq[n])
    IN left[Len(seq)]

InOrder(tickets) ==
    CHOOSE seq \in [1 .. Cardinality(tickets) -> tickets] :
        \A i, j \in DOMAIN seq : i < j => seq[i] < seq[j]

Having(book, ticket, entry) ==
    [t \in DOMAIN book \union {ticket} |-> IF t = ticket THEN entry ELSE book[t]]

----------------------------------------------------------------------------
(* Decisions of the server *)

Newest(entries) ==
    CHOOSE side \in Sides : entries[side] > 0 /\ entries[side] >= entries[Opposite(side)]
HasEntry(entries) == \E side \in Sides : entries[side] > 0

(* _build_close_commands: a position in profit is closed on its exit trigger, *)
(* or while the zone of the other side is the active one.                     *)
Closable(s, t) ==
    LET p == s.positions[t]
    IN p.gain /\ (s.exits[p.side].ticket = t \/ s.zone = Opposite(p.side))
CloseOf(s, t) ==
    LET p == s.positions[t]
    IN CloseCommand(p.side, t, IF s.exits[p.side].ticket = t THEN s.exits[p.side].sig ELSE 0)

EvaluateSymbol(s) ==
    LET closable == InOrder({t \in DOMAIN s.positions : Closable(s, t)})
    IN IF closable # <<>> THEN [i \in DOMAIN closable |-> CloseOf(s, closable[i])]
       ELSE IF DOMAIN s.positions # {} \/ ~HasEntry(s.entries) THEN <<>>
       ELSE <<OpenCommand(Newest(s.entries), s.entries[Newest(s.entries)])>>

(* _refresh_execution_commands: nothing is decided while a command is out. *)
Refresh(s) ==
    IF \E c \in ToSet(s.pending) : c \in s.sent THEN s
    ELSE [s EXCEPT !.pending = @ \o Without(EvaluateSymbol(s), s.completed \union ToSet(@))]
RefreshKnown(s) == IF s.known THEN Refresh(s) ELSE s

(* _refresh_trading_zone_state without evaluation. *)
WithZone(s) ==
    [s EXCEPT !.zone = IF HasEntry(s.entries) THEN Newest(s.entries) ELSE "NEUTRAL"]

(* _remove_pending_open_commands, also those that are out already. *)
PendingOpens(s) == {c \in ToSet(s.pending) : c.type = "OPEN"}
DropOpens(s, gone) ==
    [s EXCEPT !.pending = Without(@, gone), !.sent = @ \ gone]

ClearEntryOfSide(s, side) ==
    WithZone(DropOpens([s EXCEPT !.entries[side] = 0],
                       {c \in PendingOpens(s) : c.side = side}))
ClearEntriesUpTo(s, cutoff) ==
    WithZone(DropOpens(
        [s EXCEPT !.entries = [side \in Sides |-> IF @[side] <= cutoff THEN 0 ELSE @[side]]],
        {c \in PendingOpens(s) : c.sig <= cutoff}))

----------------------------------------------------------------------------
(* The server hears of commands and positions *)

Matches(s, type, req) == req.type = type /\ req \in ToSet(s.pending)
\* mutant: a completed command is not remembered
CompleteUnrecorded(s, type, req) ==
    IF ~Matches(s, type, req) THEN s
    ELSE [s EXCEPT !.pending = Without(@, {req}), !.sent = @ \ {req}]

Complete(s, type, req) ==
    IF ~Matches(s, type, req) THEN s
    ELSE [s EXCEPT !.pending = Without(@, {req}),
                   !.sent = @ \ {req}, !.completed = @ \union {req}]
\* mutant: a command to be tried again stays marked as sent
PutBackNothing(s, req) == s

PutBack(s, req) == [s EXCEPT !.sent = @ \ {req}]

(* _find_position_key: by ticket, else by the request that opened it. *)
Named(s, m) ==
    IF m.ticket \in DOMAIN s.positions THEN {m.ticket}
    ELSE {t \in DOMAIN s.positions : s.positions[t].req = m.req}
WithoutPositions(s, tickets) ==
    [s EXCEPT !.positions = Restrict(@, DOMAIN @ \ tickets)]

(* POSITION_OPENED and POSITION_STILL_OPEN *)
HearOpen(s, m) ==
    LET found == Named(s, m)
        refused == m.kind = "STILL_OPEN" /\ m.reason # "NONE"
        before == {s.positions[t] : t \in found}
        req == IF refused /\ found # {} THEN (CHOOSE p \in before : TRUE).req ELSE m.req
        position == [side |-> m.side, gain |-> m.gain, req |-> req]
        stored == [WithoutPositions(s, found) EXCEPT !.positions = Having(@, m.ticket, position)]
        opened == Complete(stored, "OPEN", m.req)
        answered == IF refused THEN Complete(opened, "CLOSE", m.req) ELSE opened
        cleared == ClearEntryOfSide(answered, m.side)
    IN IF found = {m.ticket} /\ before = {position} THEN cleared ELSE RefreshKnown(cleared)

(* the tail of update_execution_position_status for a position that is gone *)
Forget(s, m, now) ==
    LET found == Named(s, m)
    IN IF found = {} THEN s
       ELSE RefreshKnown(ClearEntriesUpTo(WithoutPositions(s, found),
                                          IF m.sig > 0 THEN m.sig ELSE now))

HearClosed(s, m, now) ==
    IF Matches(s, "CLOSE", m.req) THEN Forget(Complete(s, "CLOSE", m.req), m, now) ELSE s
HearStopped(s, m, now) ==
    Forget(Complete(Complete(s, "OPEN", m.req), "CLOSE", m.req), m, now)
HearRejected(s, m) ==
    LET answered == IF m.reason = "RETRYABLE" THEN PutBack(s, m.req)
                    ELSE Complete(s, "OPEN", m.req)
    IN IF Named(s, m) = {} THEN RefreshKnown(answered) ELSE answered

Hear(s, m, now) ==
    CASE m.kind \in {"OPENED", "STILL_OPEN"} -> HearOpen(s, m)
      [] m.kind = "CLOSED_BY_SIGNAL" -> HearClosed(s, m, now)
      [] m.kind = "STOPPED" -> HearStopped(s, m, now)
      [] m.kind = "REJECTED" -> HearRejected(s, m)

----------------------------------------------------------------------------
(* The terminal *)

Live(b) == {t \in DOMAIN b : b[t].fate = "OPEN"}

(* OpenPosition: one position at a time; then the broker accepts or not. *)
TryOpen(acc, c, luck, gain) ==
    IF Live(acc.broker) # {}
    THEN [acc EXCEPT !.said = Append(@, Message("REJECTED", 0, c, FALSE, "FINAL"))]
    ELSE IF luck # "DONE"
    THEN [acc EXCEPT !.said = Append(@, Message("REJECTED", 0, c, FALSE, luck))]
    ELSE [broker |-> Append(acc.broker, [side |-> c.side, fate |-> "OPEN"]),
          said |-> Append(acc.said, Message("OPENED", Len(acc.broker) + 1, c, gain, "NONE"))]

\* mutant: the result of PositionClose is not looked at
TryCloseBlindly(acc, c, luck, gain) ==
    IF c.ticket \in Live(acc.broker) /\ gain
    THEN [broker |-> IF luck = "DONE" THEN [acc.broker EXCEPT ![c.ticket].fate = "SIGNAL"]
                     ELSE acc.broker,
          said |-> Append(acc.said, Message("CLOSED_BY_SIGNAL", c.ticket, c, FALSE, "NONE"))]
    ELSE [acc EXCEPT !.said =
             Append(@, Message("STILL_OPEN", c.ticket, c, FALSE, "NOT_CLOSED"))]

(* ClosePositionCommand: whatever is not closed is reported STILL_OPEN, also *)
(* a position that was not found.                                            *)
TryClose(acc, c, luck, gain) ==
    IF c.ticket \in Live(acc.broker) /\ gain /\ luck = "DONE"
    THEN [broker |-> [acc.broker EXCEPT ![c.ticket].fate = "SIGNAL"],
          said |-> Append(acc.said, Message("CLOSED_BY_SIGNAL", c.ticket, c, FALSE, "NONE"))]
    ELSE [acc EXCEPT !.said =
             Append(@, Message("STILL_OPEN", c.ticket, c,
                               c.ticket \in Live(acc.broker) /\ gain, "NOT_CLOSED"))]

Execute(acc, c, luck, gain) ==
    IF c.type = "OPEN" THEN TryOpen(acc, c, luck, gain) ELSE TryClose(acc, c, luck, gain)

(* Evaluate: the commands of an answer, in their order. *)
ExecuteAll(commands, lucks, gain) ==
    LET after[n \in 0 .. Len(commands)] ==
        IF n = 0 THEN [broker |-> broker, said |-> <<>>]
        ELSE Execute(after[n - 1], commands[n], lucks[n], gain)
    IN after[Len(commands)]

\* mutant: a position that is still open is taken to be tracked already
TrackOpened(book, m) ==
    CASE m.kind = "OPENED" -> Having(book, m.ticket, [side |-> m.side, req |-> m.req])
      [] m.kind = "CLOSED_BY_SIGNAL" -> Restrict(book, DOMAIN book \ {m.ticket})
      [] OTHER -> book

Track(book, m) ==
    CASE m.kind \in {"OPENED", "STILL_OPEN"} ->
           Having(book, m.ticket, [side |-> m.side, req |-> m.req])
      [] m.kind = "CLOSED_BY_SIGNAL" -> Restrict(book, DOMAIN book \ {m.ticket})
      [] OTHER -> book

TrackAll(said) ==
    LET book[n \in 0 .. Len(said)] ==
        IF n = 0 THEN tracked ELSE Track(book[n - 1], said[n])
    IN book[Len(said)]

(* ReportTrackedOpenPositionStatuses *)
OpenReports(gain) ==
    LET seen == InOrder(DOMAIN tracked \cap Live(broker))
    IN [i \in DOMAIN seen |->
          [Message("STILL_OPEN", seen[i], tracked[seen[i]].req, gain, "NONE")
             EXCEPT !.side = tracked[seen[i]].side, !.sig = 0]]

(* MonitorTrackedPositionClosures ends every turn of the timer: what the *)
(* broker stopped is reported and no longer tracked.  A position closed  *)
(* any other way stays tracked and is never reported.                    *)
Stopped(book, b) == {t \in DOMAIN book : b[t].fate = "STOP"}
StopReports(book, b) ==
    LET gone == Reverse(InOrder(Stopped(book, b)))
    IN [i \in DOMAIN gone |->
          [Message("STOPPED", gone[i], book[gone[i]].req, FALSE, "NONE")
             EXCEPT !.side = book[gone[i]].side, !.sig = 0]]

EndTurn(book, b, sending) ==
    /\ up' = sending \o StopReports(book, b)
    /\ tracked' = Restrict(book, DOMAIN book \ Stopped(book, b))

StalePolls == [i \in DOMAIN up |-> IF up[i].kind = "POLL" THEN Poll(FALSE) ELSE up[i]]
Answered == IF down = NoAnswer THEN {} ELSE ToSet(Head(down))

----------------------------------------------------------------------------
Init ==
    /\ clock = 0
    /\ server = [known |-> FALSE, entries |-> [side \in Sides |-> 0],
                 exits |-> [side \in Sides |-> [ticket |-> 0, sig |-> 0]],
                 zone |-> "NEUTRAL", positions |-> <<>>,
                 pending |-> <<>>, sent |-> {}, completed |-> {}]
    /\ tracked = <<>>
    /\ waiting = FALSE
    /\ broker = <<>>
    /\ up = <<>>
    /\ down = NoAnswer
    /\ spent = [retries |-> 0, faults |-> 0]
    /\ lost = {} /\ settled = {} /\ strays = {}

(* A candle of one direction closes: it may trigger an entry to that side, *)
(* and an exit of a position of the other side that is in profit.          *)
WithEntry(s, side) == [s EXCEPT !.entries[side] = clock + 1, !.zone = side]
Winners(s, side) ==
    {t \in DOMAIN s.positions : s.positions[t].gain /\ s.positions[t].side = side}
WithExit(s, side) ==
    [s EXCEPT !.exits[side] = [ticket |-> Max(Winners(s, side)), sig |-> clock + 1]]

CloseCandle(side, entry, exit) ==
    LET exits == exit /\ Winners(server, Opposite(side)) # {}
        entered == IF entry THEN WithEntry(server, side) ELSE server
        left == IF exits THEN WithExit(entered, Opposite(side)) ELSE entered
    IN /\ clock < MaxCandles
       /\ clock = 0 => side \in FirstSides
       /\ entry \/ exits
       /\ clock' = clock + 1
       /\ server' = WithZone(RefreshKnown(left))
       /\ UNCHANGED <<tracked, waiting, broker, up, down, spent, lost, settled, strays>>

(* execution_command_payloads: whatever is pending and not out goes out. *)
AnswerPoll ==
    /\ up # <<>> /\ Head(up).kind = "POLL"
    /\ LET ready == IF server.known THEN server ELSE Refresh([server EXCEPT !.known = TRUE])
           commands == Without(ready.pending, ready.sent)
       IN /\ server' = [ready EXCEPT !.sent = @ \union ToSet(commands)]
          /\ IF Head(up).live THEN down' = <<commands>> /\ lost' = lost
             ELSE down' = down /\ lost' = lost \union ToSet(commands)
    /\ up' = Tail(up)
    /\ UNCHANGED <<clock, tracked, waiting, broker, spent, settled, strays>>

TakeStatus ==
    /\ up # <<>> /\ Head(up).kind # "POLL"
    /\ server' = Hear(server, Head(up), clock)
    /\ up' = Tail(up)
    /\ UNCHANGED <<clock, tracked, waiting, broker, down, spent, lost, settled, strays>>

(* The turns of the timer: PollTradingExecutionSignals, then the monitor. *)
SendPoll(gain) ==
    /\ ~waiting
    /\ EndTurn(tracked, broker, (up \o OpenReports(gain)) \o <<Poll(TRUE)>>)
    /\ waiting' = TRUE
    /\ UNCHANGED <<clock, server, broker, down, spent, lost, settled, strays>>

Receive(commands, lucks, gain) ==
    LET done == ExecuteAll(commands, lucks, gain)
        book == TrackAll(done.said)
        again == {i \in DOMAIN done.said : done.said[i].reason = "RETRYABLE"}
    IN /\ spent.retries + Cardinality(again) <= MaxRetries
       /\ spent' = [spent EXCEPT !.retries = @ + Cardinality(again)]
       /\ broker' = done.broker
       /\ down' = NoAnswer
       /\ waiting' = FALSE
       /\ EndTurn(book, done.broker, up \o done.said)
       /\ settled' = settled \union (ToSet(commands) \ {done.said[i].req : i \in again})
       /\ strays' = (strays \ DOMAIN book)
                      \union {t \in DOMAIN book : done.broker[t].fate = "SIGNAL"}
       /\ UNCHANGED <<clock, server, lost>>

TurnWithAnswer ==
    /\ waiting /\ down # NoAnswer
    /\ \E lucks \in [DOMAIN Head(down) -> Luck], gain \in BOOLEAN :
         Receive(Head(down), lucks, gain)

TurnWithoutAnswer ==
    /\ waiting
    /\ Stopped(tracked, broker) # {}
    /\ EndTurn(tracked, broker, up)
    /\ UNCHANGED <<clock, server, waiting, broker, down, spent, lost, settled, strays>>

Fault == spent.faults < MaxFaults /\ spent' = [spent EXCEPT !.faults = @ + 1]

(* The terminal gives up its poll; an answer that comes later is discarded. *)
GiveUp ==
    /\ waiting
    /\ Fault
    /\ waiting' = FALSE
    /\ EndTurn(tracked, broker, StalePolls)
    /\ down' = NoAnswer
    /\ lost' = lost \union Answered
    /\ UNCHANGED <<clock, server, broker, settled, strays>>

(* The terminal starts again: what it tracked is forgotten.  The server keeps *)
(* everything and goes on reading what was sent before.                       *)
Restart ==
    /\ Fault
    /\ tracked' = <<>>
    /\ waiting' = FALSE
    /\ up' = StalePolls
    /\ down' = NoAnswer
    /\ lost' = lost \union Answered
    /\ strays' = strays \union DOMAIN tracked
    /\ UNCHANGED <<clock, server, broker, settled>>

(* The broker closes a position by its stop, or someone else does. *)
HitStop(t) ==
    /\ broker' = [broker EXCEPT ![t].fate = "STOP"]
    /\ UNCHANGED <<clock, server, tracked, waiting, up, down, spent, lost, settled, strays>>
CloseByHand(t) ==
    /\ Fault
    /\ broker' = [broker EXCEPT ![t].fate = "HAND"]
    /\ UNCHANGED <<clock, server, tracked, waiting, up, down, lost, settled, strays>>

Next ==
    \/ \E side \in Sides, entry, exit \in BOOLEAN : CloseCandle(side, entry, exit)
    \/ AnswerPoll
    \/ TakeStatus
    \/ \E gain \in BOOLEAN : SendPoll(gain)
    \/ TurnWithAnswer
    \/ TurnWithoutAnswer
    \/ GiveUp
    \/ Restart
    \/ \E t \in Live(broker) : HitStop(t) \/ CloseByHand(t)

(* The server reads on, and the timer of the terminal fires for ever.  The  *)
(* conditions are stated by their effect: only AnswerPoll and TakeStatus     *)
(* read a message, only SendPoll starts to wait, and an answer that is not   *)
(* received in the end can be discarded only as often as MaxFaults allows.   *)
ServerReads == up # <<>> /\ up' = Tail(up)
TerminalAsks == ~waiting /\ waiting' = TRUE
TerminalHears == waiting /\ down # NoAnswer /\ down' = NoAnswer
Fairness == WF_up(ServerReads) /\ WF_waiting(TerminalAsks) /\ WF_down(TerminalHears)

Spec == Init /\ [][Next]_vars /\ Fairness

----------------------------------------------------------------------------
(* A command the server counts as sent is under way: it is in the answer   *)
(* the terminal waits for, a status that completes it or puts it back is   *)
(* on its way to the server, or its answer is lost.  Were it not so, the   *)
(* server would wait for it and decide nothing (_refresh_execution_commands *)
(* returns while a sent command is pending).                                *)
Answers(m, c) ==
    /\ m.kind # "POLL" /\ m.req = c
    /\ c.type = "OPEN" \/ m.kind = "CLOSED_BY_SIGNAL" \/ m.reason # "NONE"
SentIsUnderWay ==
    \A c \in server.sent :
        /\ c \in ToSet(server.pending)
        /\ \/ c \in Answered \union lost
           \/ \E i \in DOMAIN up : Answers(up[i], c)

(* A request that was executed or refused for good is never on its way to  *)
(* the terminal again, nor does it wait to be sent, although its trigger    *)
(* may live on and be evaluated many times.                                 *)
NoSecondAttempt ==
    /\ settled \cap Answered = {}
    /\ \A c \in ToSet(server.pending) : c \in settled => c \in server.sent

(* The position at the broker is known to the server, or is about to be.   *)
BrokerKnown ==
    \A t \in Live(broker) :
        \/ t \in DOMAIN server.positions
        \/ \E i \in DOMAIN up : up[i].kind \in {"OPENED", "STILL_OPEN"} /\ up[i].ticket = t

(* A position that was closed by its stop or by a CLOSE is forgotten by    *)
(* the server in the end, although a CLOSE that arrives after the stop      *)
(* makes terminal and server believe in it again.  Excepted are positions   *)
(* the terminal forgot by a restart, and those it was told to close twice.  *)
ClosedAreForgotten ==
    <>[](\A t \in DOMAIN server.positions :
            broker[t].fate \in {"STOP", "SIGNAL"} => t \in strays)
=============================================================================
