----------------------------- MODULE OrderEntry -----------------------------
(***************************************************************************)
(* Order entry: clients send commands over TCP, the server's one TCP       *)
(* thread reads a stream, cuts it into messages, runs each on the engine   *)
(* and sends the answers back, the client prints what it reads.  A stream  *)
(* is a sequence of units <<message, j>>, the j-th of the message, and a   *)
(* recv returns any prefix of it that fits its buffer: neither side keeps  *)
(* the rest of a message that was cut.  Connecting and disconnecting are   *)
(* in TradingServer, the broadcast after a trade in MarketData.            *)
(***************************************************************************)
EXTENDS Integers, Sequences, FiniteSets, SequencesExt

CONSTANTS
    MaxOrders, Price, Qty, OrderTypes, QMod, MaxRecent,   \* as in MatchingEngine
    Client,
    Orders, Cancels,              \* the orders and the ids to cancel that users enter
    NewOrderSize, CancelSize,     \* sizeof(NewOrderMsg), ... in units
    ExecutionSize, RejectSize, AcceptedSize, MarketDataSize,
    RecvBuf,                      \* handleClientData's buf
    PrintBuf                      \* printResponse's buf

VARIABLES
    next_order_id_, order, queue, remaining_qty, total_quantity, orders_index_,
    icebergs_, hidden_remaining, pc, taker, remaining, iceberg_consumed, trades,
    result, total_trades_, recent_trades_, filled, took,  \* as in MatchingEngine
    toServer,    \* [Client -> Seq(unit)]: sent and not yet received
    toClient,    \* [Client -> Seq(unit)]
    fd, buf,     \* handleClientData: the client, and what is left of the read
    handling,    \* the NEW_ORDER that processMessage is on, or Nothing
    mode,        \* [Client -> "prompt", or the command whose answer it waits for]
    asked,       \* history: [Client -> Seq(message)], the commands sent
    handled,     \* history: [Client -> Seq(message)], those processed
    answers,     \* history: [Client -> Seq(reply)], the replies sent
    printed,     \* history: [Client -> Seq(reply)], the replies printed
    owner,       \* history: [Id -> the client whose message made the order]
    cut          \* history: the clients some message or reply of which was read in parts

engine == <<next_order_id_, order, queue, remaining_qty, total_quantity, orders_index_,
            icebergs_, hidden_remaining, pc, taker, remaining, iceberg_consumed, trades,
            result, total_trades_, recent_trades_, filled, took>>
server == <<fd, buf, handling, handled, answers, owner>>
client == <<mode, asked, printed>>
vars == <<engine, toServer, toClient, server, client, cut>>

ME == INSTANCE MatchingEngine

(* The messages are the packed structs of protocol.hpp, none of them empty. *)
ASSUME OrderEntryAssumption ==
    /\ MaxOrders \in Nat
    /\ Price \subseteq Int
    /\ QMod \in Nat \ {0}
    /\ Qty \subseteq 0 .. (QMod - 1)
    /\ OrderTypes \subseteq ME!OrderType
    /\ MaxRecent \in Nat \ {0}
    /\ Orders \subseteq ME!Request
    /\ Cancels \subseteq ME!Id
    /\ {NewOrderSize, CancelSize, ExecutionSize, RejectSize, AcceptedSize, MarketDataSize}
           \subseteq Nat \ {0}
    /\ RecvBuf \in Nat /\ PrintBuf \in Nat

Nothing == [type |-> "None"]
NewOrder(r) == [type |-> "NEW_ORDER", order |-> r]
Cancel(id) == [type |-> "CANCEL", id |-> id]
Message == {NewOrder(r) : r \in Orders} \cup {Cancel(id) : id \in Cancels}

(* messageSize *)
Size(m) ==
    CASE m.type = "NEW_ORDER" -> NewOrderSize
      [] m.type = "CANCEL"    -> CancelSize
      [] m.type = "EXECUTION" -> ExecutionSize
      [] m.type = "REJECT"    -> RejectSize
      [] m.type = "ACCEPTED"  -> AcceptedSize

Units(m) == [j \in 1 .. Size(m) |-> <<m, j>>]
UnitsOf(msgs) == FlattenSeq([k \in DOMAIN msgs |-> Units(msgs[k])])
AtStart(u) == u # <<>> /\ Head(u)[2] = 1
After(u, n) == SubSeq(u, n + 1, Len(u))

(* The messages of stream u, at the start of one, that u holds to the end *)
WholeIn(u) ==
    LET whole[n \in 0 .. Len(u)] ==
            IF n = 0 THEN <<>>
            ELSE IF u[n][2] = Size(u[n][1]) THEN Append(whole[n - 1], u[n][1])
            ELSE whole[n - 1]
    IN  whole[Len(u)]

Init ==
    /\ ME!Init
    /\ toServer = [c \in Client |-> <<>>]
    /\ toClient = [c \in Client |-> <<>>]
    /\ fd \in Client /\ buf = <<>> /\ handling = Nothing
    /\ mode = [c \in Client |-> "prompt"]
    /\ asked = [c \in Client |-> <<>>]
    /\ handled = [c \in Client |-> <<>>]
    /\ answers = [c \in Client |-> <<>>]
    /\ printed = [c \in Client |-> <<>>]
    /\ owner = [i \in ME!Id |-> {}]
    /\ cut = {}

-----------------------------------------------------------------------------
(* The client: one command at a time *)

(* Bound: MaxOrders commands in all.  Every order the server can read out  *)
(* of them, misread ones too, then has an id.                              *)
Commands == FoldSet(LAMBDA c, n : n + Len(asked[c]), 0, Client)

Enter(c, m) ==
    /\ mode[c] = "prompt"
    /\ Commands < MaxOrders
    /\ toServer' = [toServer EXCEPT ![c] = @ \o Units(m)]
    /\ asked' = [asked EXCEPT ![c] = Append(@, m)]
    /\ mode' = [mode EXCEPT ![c] = m.type]
    /\ UNCHANGED <<engine, toClient, server, printed, cut>>

(* select's second is over; a cancel waits for ever *)
Timeout(c) ==
    /\ mode[c] = "NEW_ORDER"
    /\ mode' = [mode EXCEPT ![c] = "prompt"]
    /\ UNCHANGED <<engine, toServer, toClient, server, asked, printed, cut>>

PrintResponseFirst(c) ==                                         \* fault: no loop over the buffer
    /\ mode[c] # "prompt"
    /\ \E n \in 1 .. ME!MinOf(Len(toClient[c]), PrintBuf) :
          LET u == SubSeq(toClient[c], 1, n)
          IN  /\ printed' = [printed EXCEPT ![c] = @ \o SubSeq(WholeIn(u), 1, 1)]
              /\ cut' = IF UnitsOf(WholeIn(u)) = u THEN cut ELSE cut \cup {c}
              /\ toClient' = [toClient EXCEPT ![c] = After(@, n)]
    /\ mode' = [mode EXCEPT ![c] = "prompt"]
    /\ UNCHANGED <<engine, toServer, server, asked>>

(* printResponse: one recv.  The part of a reply at its end is lost; what  *)
(* starts in the middle of a reply prints as something else, up to any     *)
(* place k.                                                                *)
PrintResponse(c) ==
    /\ mode[c] # "prompt"
    /\ \E n \in 1 .. ME!MinOf(Len(toClient[c]), PrintBuf) :
          LET u == SubSeq(toClient[c], 1, n) IN
          \E k \in IF AtStart(u) THEN {0} ELSE 1 .. n :
              LET read == IF AtStart(After(u, k)) THEN WholeIn(After(u, k)) ELSE <<>>
              IN  /\ printed' = [printed EXCEPT ![c] = @ \o read]
                  /\ cut' = IF UnitsOf(read) = u THEN cut ELSE cut \cup {c}
                  /\ toClient' = [toClient EXCEPT ![c] = After(@, n)]
    /\ mode' = [mode EXCEPT ![c] = "prompt"]
    /\ UNCHANGED <<engine, toServer, server, asked>>

-----------------------------------------------------------------------------
(* The server: TcpServer::handleClientData and processMessage *)

Execution(id, qty, rest) == [type |-> "EXECUTION", id |-> id, qty |-> qty, remaining |-> rest]
Reject(id, reason) == [type |-> "REJECT", id |-> id, reason |-> reason]
Accepted(id, rest) == [type |-> "ACCEPTED", id |-> id, remaining |-> rest]

(* sendToClient, for each reply; a socket's buffer holds all of them *)
Send(c, replies) ==
    /\ toClient' = [toClient EXCEPT ![c] = @ \o UnitsOf(replies)]
    /\ answers' = [answers EXCEPT ![c] = @ \o replies]

BetweenMessages == pc = "idle" /\ handling = Nothing

Receive(c) ==
    /\ BetweenMessages /\ buf = <<>>
    /\ fd' = c
    /\ \E n \in 1 .. ME!MinOf(Len(toServer[c]), RecvBuf) :
          /\ buf' = SubSeq(toServer[c], 1, n)
          /\ toServer' = [toServer EXCEPT ![c] = After(@, n)]
    /\ UNCHANGED <<engine, toClient, handling, handled, answers, owner, client, cut>>

(* The messages that the front of buf can be taken for: in the middle of a *)
(* message its bytes can be those of any                                   *)
Readings == IF AtStart(buf) THEN {Head(buf)[1]} ELSE Message

HandleShort(m) ==                                        \* fault: offset one short
    /\ Len(buf) >= Size(m)
    /\ buf' = After(buf, Size(m) - 1)
    /\ handled' = [handled EXCEPT ![fd] = Append(@, m)]
    /\ UNCHANGED <<fd, toServer, client, cut>>

Handle(m) ==
    /\ Len(buf) >= Size(m)
    /\ buf' = After(buf, Size(m))
    /\ handled' = [handled EXCEPT ![fd] = Append(@, m)]
    /\ UNCHANGED <<fd, toServer, client, cut>>

HandleNewOrder ==
    /\ BetweenMessages /\ buf # <<>>
    /\ \E m \in Readings :
          /\ m.type = "NEW_ORDER"
          /\ Handle(m)
          /\ ME!SubmitOrder(m.order)
          /\ handling' = m
    /\ owner' = [owner EXCEPT ![next_order_id_] = {fd}]
    /\ UNCHANGED <<toClient, answers>>

HandleCancelQuietly ==                                   \* fault: no answer for an unknown id
    /\ BetweenMessages /\ buf # <<>>
    /\ \E m \in Readings :
          /\ m.type = "CANCEL"
          /\ Handle(m)
          /\ ME!CancelOrder(m.id)
          /\ Send(fd, IF result'.status = "CancelTrue" THEN <<Accepted(m.id, 0)>> ELSE <<>>)
    /\ UNCHANGED <<handling, owner>>

HandleCancel ==
    /\ BetweenMessages /\ buf # <<>>
    /\ \E m \in Readings :
          /\ m.type = "CANCEL"
          /\ Handle(m)
          /\ ME!CancelOrder(m.id)
          /\ Send(fd, <<IF result'.status = "CancelTrue" THEN Accepted(m.id, 0)
                                                         ELSE Reject(m.id, "UNKNOWN_ORDER")>>)
    /\ UNCHANGED <<handling, owner>>

(* No type of message, or not all of it: the rest of the read is dropped. *)
HandleInvalid ==
    /\ BetweenMessages /\ buf # <<>>
    /\ AtStart(buf) => Len(buf) < Size(Head(buf)[1])
    /\ Send(fd, <<Reject(0, "INVALID_MESSAGE")>>)
    /\ buf' = <<>>
    /\ cut' = cut \cup {fd}
    /\ UNCHANGED <<engine, toServer, fd, handling, handled, owner, client>>

(* What looks like a message of the server's is passed over in silence. *)
HandleIgnored ==
    /\ BetweenMessages /\ buf # <<>> /\ ~AtStart(buf)
    /\ \E n \in {ExecutionSize, RejectSize, AcceptedSize, MarketDataSize} :
          n <= Len(buf) /\ buf' = After(buf, n)
    /\ UNCHANGED <<engine, toServer, toClient, fd, handling, handled, answers, owner, client, cut>>

EngineRuns ==
    /\ ME!Engine
    /\ UNCHANGED <<toServer, toClient, server, client, cut>>

ReportsTradeByTrade(o, res) ==                           \* fault: remaining after each trade alone
    [k \in DOMAIN res.trades |->
        Execution(res.id, res.trades[k].qty, o.total_qty - res.trades[k].qty)]

(* One EXECUTION per trade, all with what remains after the last of them *)
Reports(o, res) ==
    LET total_filled == ME!SumOf([k \in DOMAIN res.trades |-> res.trades[k].qty])
        rest == IF o.total_qty > total_filled THEN o.total_qty - total_filled ELSE 0
    IN  [k \in DOMAIN res.trades |-> Execution(res.id, res.trades[k].qty, rest)]

(* ... and the status: a fill-or-kill's reason also for an IOC order, and  *)
(* none when something traded                                              *)
Status(o, res) ==
    CASE res.status = "Rejected"  -> <<Reject(res.id, "POST_ONLY_CROSSED")>>
      [] res.status = "Cancelled" -> <<Reject(res.id, "FOK_INSUFFICIENT")>>
      [] res.status = "Accepted" /\ res.trades = <<>> -> <<Accepted(res.id, o.total_qty)>>
      [] OTHER -> <<>>

ReplyNewOrder ==
    /\ pc = "idle" /\ handling # Nothing
    /\ Send(fd, Reports(handling.order, result) \o Status(handling.order, result))
    /\ handling' = Nothing
    /\ UNCHANGED <<engine, toServer, fd, buf, handled, owner, client, cut>>

Server ==
    \/ \E c \in Client : Receive(c)
    \/ HandleNewOrder \/ HandleCancel \/ HandleInvalid \/ HandleIgnored
    \/ EngineRuns \/ ReplyNewOrder

Next ==
    \/ Server
    \/ \E c \in Client : Timeout(c) \/ PrintResponse(c) \/ \E m \in Message : Enter(c, m)

(* The server's thread runs, and the client programs print what arrives;   *)
(* a user need not enter anything.                                         *)
Spec ==
    /\ Init /\ [][Next]_vars
    /\ WF_vars(Server)
    /\ WF_vars(\E c \in Client : PrintResponse(c))

-----------------------------------------------------------------------------
(* While every message arrived whole, the server has processed a client's  *)
(* commands in the order they were entered, none twice, and the others are *)
(* still on their way, also when a read brings several of them.            *)
HandledInOrder ==
    \A c \in Client \ cut :
        handled[c] \o WholeIn((IF fd = c THEN buf ELSE <<>>) \o toServer[c]) = asked[c]

(* What a client is told of an order adds up: its EXECUTIONs are all the   *)
(* order traded when it came in and name what was left of it then; no one  *)
(* else is told anything of these trades; and an order never goes          *)
(* unanswered unless it asked for nothing.                                 *)
Tells(a, i) == a.type = "EXECUTION" /\ a.id = i
Told(c, i) ==
    [k \in DOMAIN answers[c] |-> IF Tells(answers[c][k], i) THEN answers[c][k].qty ELSE 0]
AddsUp(c, i) ==
    /\ ME!SumOf(Told(c, i)) = IF c \in owner[i] THEN took[i] ELSE 0
    /\ \A k \in DOMAIN answers[c] :
           Tells(answers[c][k], i) => answers[c][k].remaining = order[i].total_qty - took[i]
    /\ c \in owner[i] /\ order[i].total_qty > 0 => \E k \in DOMAIN answers[c] : answers[c][k].id = i
ReportsAddUp ==
    BetweenMessages => \A c \in Client, i \in ME!Submitted : AddsUp(c, i)

(* A client none of whose replies was cut has printed, in order and each   *)
(* once, a first part of the replies sent to it; the rest is on its way.   *)
PrintedInOrder ==
    \A c \in Client \ cut : printed[c] \o WholeIn(toClient[c]) = answers[c]

(* cancel, which waits without a timeout, gets an answer as long as the    *)
(* client's messages arrive whole.  After a cut it may wait for ever.      *)
CancelAnswered ==
    \A c \in Client : mode[c] = "CANCEL" ~> mode[c] # "CANCEL" \/ c \in cut
=============================================================================
