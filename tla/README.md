# Derivatives Trading Engine: TLA+ specifications and proofs

This directory specifies the trading engine in TLA+, model-checks it with TLC
and proves theorems about it with TLAPS. Every definition follows the C++
source; `PROJECT.json` ("map") names the lines each one stands for.

## 1. The system

| Component | Source | State | Operations | What makes it correct |
|---|---|---|---|---|
| `MatchingEngine`, `OrderBook`, `PriceLevel` | `engine/` | two price-ordered maps of FIFO levels with a cached total each, `orders_index_`, `icebergs_`, `next_order_id_`, trade tape | `submitOrder` (six order types), `cancelOrder`, `clearRecentTrades` | price-time priority, conservation of quantity, agreement of levels, index, totals and iceberg table, fill-or-kill atomicity, statuses that say what became of the order |
| `SPSCRingBuffer` | `engine/include/ring_buffer.hpp` | two atomic counters, raw storage | `try_push`, `push`, `try_pop`, `pop`, destructor | FIFO, no slot shared or overwritten, no object lost or leaked, the spinning calls return |
| Server process | `network/src/server_main.cpp` | `g_running`, three threads | start-up, wait, SIGINT, `stop`, joins, destructors | SIGINT ends the process; nothing is used after it was torn down |
| `TcpServer` | `network/src/tcp_server.cpp` | `running_`, `clients_`, sockets | `start`, `stop`, accept loop, `handleClientData`, `processMessage` | every request received and answered; sockets used only while open |
| `UdpMarketFeed` | `network/src/udp_feed.cpp` | socket, `last_msg_` | `init`, `broadcast` | a snapshot describes one moment of the book; listeners end up with the book as it is |
| `PerpetualEngine` | `engine/src/perpetual.cpp` | mark price, last trade price, funding rate, configuration | `tick`, `onTrade`, `setConfig` | a known mark price is never lost, stays within the premium of the last trade and between the quotes; the funding rate is bounded and has the sign of the imbalance |
| VPIN | `bots/include/vpin.hpp` | bucket being filled, rolling window | `feedTrade`, `currentVPIN`, `toxicity`, `reset` | volume is split over buckets without loss, ratios lie in [0, 1], one-sided flow is toxic |
| Simulator and bots | `bots/src/simulator.cpp` | an engine, a `PerpetualEngine`, bots, a VPIN calculator, snapshots | `addBot`, `enableVPIN`, `run`, `saveLog` | makers do not trade with themselves and keep the market two-sided, VPIN sees every trade once, snapshots are of one moment, `run` returns |
| Clients | `clients/` | a socket, the next client id | `tcp_client`'s command loop, `printResponse`; `udp_listener` prints datagrams | every reply is printed once, in order |
| Benchmarks, Python research | `benchmarks/`, `scripts/` | | | offline, out of scope |

How they interact. `TcpServer::processMessage` calls `submitOrder` and
`cancelOrder` on the TCP thread, sends the replies, and after a trade calls a
callback that makes `UdpMarketFeed::broadcast` read the book. A second thread
calls `PerpetualEngine::tick` and `broadcast` every 100 ms: it reads the same
book with no lock. The main thread waits for SIGINT and stops the two. The
simulator drives the engine, a perpetual engine and a VPIN calculator from one
thread; its bots only submit limit orders, they never cancel one. A client
sends one command at a time and reads the answer, with a timeout of a second for
orders and none for cancels. The ring buffer is used by tests and benchmarks only.

What is hard here: a call of the engine changes five structures in an order
that matters (match, rest, refresh, un-rest); icebergs hide part of their
quantity from the book; quantities are `uint32_t`; the broadcast thread sees the
book between any two steps; `start` and `stop` race; messages arrive in pieces
and neither side keeps the rest of one; answers come after the timeout; bots act
on a book that the bot before them moved; the ring buffer works without locks.
`PROJECT.json` ("hazards") lists each one at its line with the property that watches it.

## 2. The modules

`MatchingEngine.tla` models the engine. One call runs at a time; it is cut at
each fill and at each iceberg refresh, since the broadcast thread can look at the book there:

    Submit*  ->  MatchStep*  ->  EndMatch  ->  RefreshExhausted/RefreshSlice*  ->  Return*

| Code | Model |
|---|---|
| `bids_`, `asks_`, the `std::list` of a level | `queue[side][price]`, a sequence of ids; a level exists iff it is not empty |
| `remaining_qty` of the order's copy in the book | `remaining_qty[id]` |
| `PriceLevel::total_quantity` | `total_quantity[side][price]`, modulo `QMod` |
| `orders_index_`, `icebergs_`, `hidden_remaining` | the same names |
| locals of `addOrder` | `remaining`, `iceberg_consumed`, `trades`, `taker` |
| the rest of an `Order` | `order[id]`, immutable |

`filled` and `took` are history variables: what an order has traded, and what it
traded on entry. The six branches of `submitOrder` are `SubmitPostOnly`,
`SubmitFOK`, `SubmitStandard` (Limit, Market, IOC) and `SubmitIceberg` before
the matching, `ReturnStandard`, `ReturnFOK`, `ReturnIOC` and `ReturnIceberg`
after it. FOK, IOC and PostOnly orders are stored as `Limit` orders by the
code; the model keeps the type asked for and treats them as limit orders in the
book. The engine's deviations are kept as they are: `AvailableQty`
counts the hidden quantity of the taker's own side, `SubmitIceberg` computes the
hidden part before the match, a filled maker keeps its index entry.

`Exchange.tla` is the abstract specification of an engine without icebergs. Its
book is a function from resting ids to quantities; an arriving order trades with
the acceptable resting order that nothing beats on price, then on age.
`EngineRefinement.tla` maps the engine to it: the resting orders are those in
the levels, except the one whose call still runs (an IOC remainder rests for a
moment before `cancelOrder` takes it off). `EndMatch` and `ClearRecentTrades` are stutters.

`RingBuffer.tla` models the ring buffer, each call cut at every shared access.
An acquire load returns any value from the newest its thread has seen up to the
current one. The counters of the model do not wrap; the code's tests see them
modulo `SeqMod`. `Fifo.tla` is the bounded queue it implements: an item enters when
`write_seq_` is stored and leaves when it is moved out.

`TradingServer.tla` models the process: the main, TCP and UDP threads, SIGINT,
Winsock's start-up count, the client list and the sockets. `Main*` and
`Destroy*` are `main` in the order of its lines, its locals' destructors
included; `TcpInit` to `TcpRoundDone` are `start` and the accept loop. Each call
of Winsock that the code makes there may fail: the startups of `main` and of
`TcpServer`, `udp_feed.init`, the bind, `select`, `accept`, and `recv` on a connection that
was reset. `CleanUp` is what the two `WSACleanup` calls do with Winsock's own count:
a call beyond the startups fails, the one that meets the last of them
closes every socket of the process. `unread` are the clients with bytes to receive, as much as one
`recv` takes; `Watched` is the `fd_set`, which ignores what does not fit. A request is one stay
of the TCP thread in the book, a tick with its broadcast one stay of the UDP thread.

Three modules INSTANCE `MatchingEngine` and compose it with what surrounds it;
the engine's steps are theirs too, cut as fine as there.

`OrderEntry.tla` is a request's way from a client's keyboard to its screen. A
stream is a sequence of units `<<message, j>>`, the j-th part of the message.
`Receive` is the `recv` of `handleClientData`, of any length up to the buffer;
`HandleNewOrder`, `HandleCancel`, `HandleInvalid` and `HandleIgnored` are the
outcomes of one round of its loop; after a cut the loop starts in the middle of
a message, whose bytes can be those of any, so it takes them for any. The call of
the engine runs between `HandleNewOrder` and `ReplyNewOrder`, which sends the
reports of `processMessage` and its status. `Enter`, `Timeout` and
`PrintResponse` are the client program.

`MarketData.tla` is the two threads that broadcast. The UDP thread runs `TickBid`,
`TickAsk`, `TickQty` (the getters of `PerpetualEngine::tick`), then `Get` bid,
`Get` ask and `Send`; the TCP thread runs calls, and a broadcast after each
call that traded. A read that falls inside a call races with the call's writes
and returns anything of the getter's type.

`Simulator.tla` is `Simulator::run`: `BotDecides` takes the orders a bot may
draw from the book it sees, `BotSubmits` and the engine's steps execute them one by
one; `PerpetualTick`, `FeedOne`, `FeedingDone` and `EndTick` are the rest of a
tick. Two setups: a maker with VPIN on, an adaptive maker with VPIN off, each
after a random bot. `Seed` is the caller who sends orders through `engine()`.

`Perpetual.tla` and `Vpin.tla` are the two calculators, over any book and any
trades, with `double` replaced by exact fractions. `Analytics.tla` puts them
beside one moving book, as the tests do. `MarketData` and `Simulator` use their
operators; `Simulator` refines `Perpetual` (`DrivesPerpetual`). `MarketData` does
not: its ticks read bid, ask and totals at different moments.

The modules `*Proofs.tla` hold the proofs (section 4), `MC*.tla` the constants
of the runs that need records.

Definitions commented "fault" are variants of the definition they precede,
as a plausible bug would have it. Nothing in the specifications uses them;
`PROJECT.json` ("mutants") says which property each of them breaks.

## 3. What TLC checks

| Run | Instance | Shows |
|---|---|---|
| `exchange` | 3 calls, prices {1,2}, quantities {1,2}, all types but Iceberg; 594,394 states | the engine implements `Exchange`, with its fairness: fill-or-kill fills all or nothing, nothing of an IOC, market or FOK order rests, statuses are those the code gives (Accepted for a market order's rest that stands nowhere among them, section 5); fill-or-kill is turned away only when the liquidity is short; the tape adds up; never crossed |
| `icebergs` | 3 calls, quantities {1,2}, Limit, Market, Iceberg; 476,250 states | conservation of quantity, index, level totals, iceberg table, price-time priority, every call returns |
| `ring` | 2 slots, 9 items of two values, counters modulo 4, all four calls; 13,218 states | FIFO refinement, slot discipline, no leak, no sharing, delivery, `push` returns |
| `server` | 3 clients, `FD_SETSIZE` 3, so place for two of them, two may hang up, one may be reset, failures on; 469,527 states | the client list matches the open sockets, no socket left, Winsock is up for both threads and `~TcpServer`, clients with a place in the set are received from, SIGINT ends the process once the TCP loop runs |
| `entry` | 2 clients, 3 commands (a limit bid of 1, an IOC ask of 2, `cancel 1`), orders and executions of 2 units, the rest of 1, buffers of 3; 383,324 states | commands whose messages arrive whole are processed in order and once; reports add up and reach the taker only; replies are printed in order and once; a cancel is answered |
| `feed` | 2 orders of 4, cancels, both threads; 666,346 states | a snapshot sent after a trade is of one moment and not crossed; once the book rests the last datagram and the mark price are the book's |
| `sim` | 2 ticks, 2 bots, up to 2 seed orders, a tape of 2 trades, buckets of 2; 73,720 states | makers, the tape, the snapshots, `run` returns, `Perpetual` is driven as specified |
| `analytics` | prices {-1, 1, 7}, trades at {-6, 4} of 1 and 5 units, buckets of 2, two configurations; 402,192 states | mark price, premium, funding rate; volume, ratios and window of the buckets |

Why the bounds are enough. Three calls let two makers queue on one level (or on
two) before a taker, or one maker be cancelled from behind another; cancels are not
counted, so they come anywhere. Quantities {1,2} give partial, exact and excess
fills; an iceberg of 2 with visible part 1 has two slices, so that one take
refreshes it, the next exhausts it, and a cancel can come before, between and
after; an iceberg can also trade on entry before it rests. `QMod` is 64 where no sum
should wrap. Nine items over counters modulo 4 wrap twice round; two
slots are the least with room for both threads. Three calls of `exchange` make at
most two trades, so its tape, of `MaxRecent` 2, fills and evicts none; the tape of `sim`
evicts within a tick. In `server` the set is full with two clients, and the third waits
until one hangs up or is reset; a client sends as often as it is received from, and the third never leaves.
In `entry` a read holds an order and half of the next, and a reply with one
execution fits the client's buffer while two do not: both
sides cut messages. The server's reports differ from
trade to trade only when an order takes two makers, which two bids of 1 before an
ask of 2 give. In `feed` two orders give a book that fills, trades and empties under
every read; the only unbounded counter is the number of orders. In `sim` the random bot can take
one side away before the maker acts, the maker's quotes reach over the seed
orders, and a tick makes more trades than the tape holds. In `analytics` trades of 5
over buckets of 2 fill three buckets at once and roll the window; the price -1 beside 1
gives the mid price 0 of a book that is not empty.

Runs that end in a violation, each of something the repository says:

| Run | What happens | What the repository says |
|---|---|---|
| `fok_and_icebergs` | a FOK bid is let in because of hidden quantity on its own side, finds nothing, rests, and is answered Cancelled | "must fill entire qty or cancel" (`matching_engine.cpp:21`) |
| `iceberg_overfill` | an iceberg of 3 that takes 1 on entry still hides 2 behind a slice of 1 | "tracks the *real* remaining qty" (`order_book.hpp:73`) |
| `cancel_of_filled` | a filled maker keeps its index entry; its cancel is answered true | "Cancel non-existent order → REJECT" (`test_tcp.cpp:222`) |
| `server_early_signal` | `stop()` comes before `running_ = true`; the TCP thread loops on, the join never returns | "Returns when stop() is called" (`tcp_server.hpp:27`) |

Fairness. `MatchingEngine`: weak fairness of the steps of a call that has begun,
which is one thread executing straight-line code; submitting and cancelling are
never forced. `RingBuffer`: weak fairness of each thread's steps inside a call;
strong fairness of the loads that return the current value, since C++ requires a
store to become visible in finite time; and the consumer keeps calling, as
the loops that use it do. `TradingServer`: weak fairness of each of the three
threads, whose sleeps and `select` time out; none for SIGINT and clients.
`MarketData`: weak fairness of the UDP thread, which loops for ever, and of the
TCP thread inside a call or a broadcast; no client has to send anything.
`Simulator`: weak fairness of the loop of `run`, one thread; none for its caller.
`OrderEntry`: weak fairness of the server's thread and of the clients' reading,
none for the users. A client's data waits only while another
client's read is handled, and the commands are finitely many, so
fairness of the server as a whole is enough and weaker than that of each client.

Five notes on exceptions written into properties. `Conservation` allows an iceberg
that traded on entry an `Excess` of `min(traded on entry, hidden part)`: that is
the exact size of the overfill the run `iceberg_overfill` shows, and for every
other order the law is exact. `Delivered` and `PushReturns` except a consumer that sits in
`pop` while the counters straddle the end of `size_t`: `pop` compares them with
`<` and waits, where `try_pop` compares with `==`. With 64 bits that is
2^64 items away. `HandledInOrder`, `PrintedInOrder` and `CancelAnswered` except
the clients in `cut`, a message or a reply of which was read in parts: the
program keeps no rest, so after a cut it has lost its place in the stream. What a cut
does to its client is excluded by this rather than caught: the three
properties say that whole messages are handled and that a cut harms no other client.
`RequestsReceived` is about clients with a place in the `fd_set`, the first `FD_SETSIZE - 1` of
`clients_`, and `WinsockUpWhileUsed` excepts `~UdpMarketFeed`, and `~TcpServer` when
`main`'s startup failed (section 5).
`RatiosTruthful` excepts, in its second part, trades that overflow a bucket, which leave buckets of
ratio 0 (section 5).

## 4. What is proved

A theorem holds for all values of the constants that satisfy the assumption of
its module (`ConstantsAssumption`, `SimulatorAssumption`, ...); further hypotheses
are named below. Each action has its lemma in the proofs.

### The engine's book (`MatchingEngineProofs`)

- `TypeCorrectness`: `Spec => []TypeOK`.
- `IndexAgreement`: `Spec => []IndexCoversBook`. Every resting order stands once,
  in the level of its side and price, and the index finds it.
- `QuantityConservation`: `Spec => []Conservation`.
- `NeverCrossed`: if no iceberg is offered, `Spec => []Uncrossed`.

The first three follow from one inductive invariant, `IInv` (`Invariance`).
Conservation is not inductive alone. A fill must know that the maker it
decrements is the only copy in the book (`IndexCoversBook`) and is not the
taker; a refresh must know that a consumed iceberg is out of the levels with
nothing left of its slice, and is consumed once (`ConsumedCoherent`); the end of a
match must know that the taker's hidden part is still the one computed on entry
and that it is not in the index yet (`CallCoherent`); and an id not yet given
out must be untouched (`FreshUntouched`, `OrdersWellFormed`). The lemmas of the actions
rest on those about the three writes of the book: `AddToLevelFacts`, `RemoveFromBookFacts`,
`FillFrontFacts`. `IInv` can be given to TLC as an INVARIANT in
`EngineIcebergs.cfg`, where it holds.

`NeverCrossed` adds to `IInv` that the book only shrinks (`ShrinkUncrossed`) or
grows by one order that clears the opposite side (`GrowUncrossed`): a post-only
order after `wouldMatch`, a remainder when the loop found no level in reach. A
refresh would be the exception, and without icebergs there is none.

Of levels, icebergs, tape and priority:

- `LevelTotalsRight`: `Spec => []LevelTotals`, with the sums modulo `QMod`.
- `IcebergsNeverStranded`: `Spec => []IcebergsBacked`.
- `TapeTellsEveryFill`: `Spec => []TapeAccountsForFills`.
- `PriceTimePriorityHolds`: `Spec => PriceTimePriority`.

The invariant is `IInv /\ BInv`. Each of the four needs more than itself within a call:
an iceberg is tracked while a slice rests, or is consumed and not yet refreshed, or it
is the call's own (`BergsTracked`); the tape accounts for fills together with the
trades of the running call (`TapeComplete`); a level's queue is in order of age but for
icebergs, which go to the back with each slice (`OldestFirst`), and the order that enters is the
newest (`CallNewest`); the total is right after a removal only because nothing is
left of the copy of an order that is out of the book (`OutIsEmpty`). A sum over a queue is
a sum of a sequence, whose laws the module proves from the definition of the fold.

### The engine and its specification (`ExchangeProofs`)

- `FOKOnlyKilledWhenShort`: `Spec => FOKCancelJustified`, icebergs or not, where no sum
  wraps: no quantity is above some `K`, and `MaxOrders * (2 * K) < QMod`.
- `EngineKeepsPromise`: where no sum wraps, with no iceberg and no order of quantity 0,
  `Spec => Promise!Init /\ [][Promise!Next]_(Promise!vars)`: the safety part of `ImplementsExchange`.
- `FOKWholeOrNone`: under the same hypotheses `Spec => []FOKAllOrNothing`. The run `fok_and_icebergs`
  shows that the hypothesis on icebergs is needed.
- `OnlyFilledStayIndexed`: under the same hypotheses `Spec => []GoneFilled`, which bounds what the run
  `cancel_of_filled` shows: a cancel that is answered true for nothing names an order that is filled.
- `NeverLeftInBook`: `Spec => []NoRemainderRests`, icebergs or not: between calls no market
  and no IOC order is in the book.

`EngineRefinement.cfg` satisfies the hypotheses (`K` = 2, 3 * 4 < 64). They are not for
convenience. Where a sum wraps, `availableQty` turns orders away (section 5). With an iceberg the book
crosses and hidden quantity is counted. A post-only order of quantity 0 rests in
the book and makes trades of 0 units, which no exchange promises.

The sums of the code and of `Exchange` are folds over sets, and `FoldOf`, `SumIsSetSum`
and `MakersSum` tie the two together; induction over a finite set is made from the set of its good subsets
(`FiniteInduction`), as the library's theorem cannot be used. The refinement needs `XInv`
beside the other invariants: what rests has something to sell
(`RestPositive`), an index entry without an order in the book is of a filled one
(`GoneFilled`, so that a cancel of it answers as `Exchange` does for a filled order), the taker's fills and
what remains make its size (`CallProgress`), and a fill-or-kill order that was let in finds all
it still wants (`FOKCovered`), or its call would end half filled. `ComesToRest` lists all that a step can
bring to rest, which is what `FOKInv` and `ImmediateInv` need to be inductive.

### Order entry (`OrderEntryProofs`)

For any number of clients and commands, any orders (icebergs among them), any sizes of
messages and buffers, and however the reads cut the streams:

- `OrderEntryDrivesEngine`: `Spec => ME!Spec`, so that every theorem about the engine holds
  behind the sockets, also while the server misreads what a cut has left.
- `InOrder`: `Spec => []HandledInOrder`; `Printed`: `Spec => []PrintedInOrder`.
- `ReportsRight`: `Spec => []ReportsAddUp`.

`HandledInOrder` is not inductive: it counts the messages that are whole, and is silent about
half a message between them. `CommandsInv` says that what is coming from a client that is
not in `cut` is exactly whole messages, and that with the handled ones they are what the
client entered; `RepliesInv` says the same of the way back. That a `recv` of any length
leaves it true, or ends in a cut, is a law of streams: the units of a sequence of
messages, less the first message's, are those of the rest (`UnitsOfCons`), and `WholeIn`
finds in them those messages. For that law `WholeIn` is a recursive function, known to the
provers by its values at 0 and n + 1.

`ReportInv` follows an order from `HandleNewOrder` to `ReplyNewOrder`. While its call runs,
the trades made so far and what remains are the whole order, and after it the result holds
all it traded (`OnOrder`); no `EXECUTION` names an order that is not yet answered
(`ToldOfDone`), so nothing is told twice; later steps only touch `took` of newer orders. The sum of an
order's executions over all answers to a client is then the sum over one reply.

### The feed (`MarketDataProofs`)

- `MarketDataDrivesEngine`: `Spec => ME!Spec`.
- `SnapshotsWhole`: `Spec => [][SnapshotWhole]_vars`, the first half of `SnapshotIsOneMoment`: the
  quotes sent are those of one moment, icebergs or not.
- `SnapshotsRight`: if no iceberg is offered, `Spec => SnapshotIsOneMoment`. With icebergs the
  book crosses and a snapshot shows it (section 5).

`FeedInv` says that the TCP thread reads only between its calls, that no call runs during a broadcast of
the UDP thread that is not `disturbed`, and that what such a broadcast has read is still so (`UpToDate`).
That the bid is below the ask is `NeverCrossed`, through `MarketDataDrivesEngine`.

### The ring buffer (`RingBufferProofs`)

For any capacity, counter width and number of pushes: `RingTypes`, `NoObjectLost`
(`SlotsHoldExactly`), `SlotNeverShared` and `BufferIsFifo` (`Spec => ImplementsFifo`).
The invariant `InWindow` orders what the two threads have seen of each other's counter:
`r_seen <= read_seq_ <= w_seen <= write_seq_ <= r_seen + Capacity`. A load may
return a stale value, which can only make a thread more careful; the items in flight lie in a window
no longer than the capacity, where slots are distinct (`RemainderUnique` and its consequences)
and the wrapped difference of the counters is the true one.

### The server process (`TradingServerProofs`)

For any clients, any size of the `fd_set`, whichever of the modelled calls fail, and any moment of
SIGINT: `ServerTypes`, `NoClosedSocketUsed`
(`ClientsAreOpen`), `WinsockStaysUp`, from `IInv` (`ServerInvariance`). `Threads` says which threads exist in which
phase of main, `Startups` that what is open of the feed and of `TcpServer` has a startup behind it
that nobody has cleaned up yet, `NeedsWinsock` that no socket is open without Winsock, `Round` that the copy
of `clients_` that is walked holds no socket twice, so that what one turn closes is not met again, and
`Listed` that `clients_` and the open connections are the same, until the last `WSACleanup`.

### The calculators (`AnalyticsProofs`)

Of `PerpetualEngine`, for any prices, trades, quantities and configurations
(`PerpetualAssumption`: the premium is a fraction below 1, quantities are natural):
`PerpetualTypes`, `MarkPersists`, `PremiumKept`, `MarkBetweenQuotes` and
`FundingWithinBound`. Type correctness is inductive and enough for the four action
properties. The weight is in integer arithmetic: a fraction below 1 of a price is
smaller than the price and has its sign (`FractionBelow`, `PremiumBelowPrice`), so the
clamp ends within the premium for a last trade of either sign and never at 0
(`ClampFacts`), which is what keeps a mark price from being taken for none.

Of the VPIN calculator, for any bucket volume, window and trades: `VpinInvariance`,
`NoVolumeLost` and `RatiosTrue`. `VpinIInv` strengthens the type and the properties
with `SidesAccounted`: while nothing was sold, nothing in the bucket is sold, and
while nothing overflowed, what was bought and sold is all of its volume. Without it
one-sided flow says nothing of the bucket about to be finalized.

`MarketDrivesBoth`: a market of `Analytics` is a behaviour of both specifications, so the
above holds in it; `AnalyticsTypes` is its type invariant.

### The simulator (`SimulatorProofs`)

All of these are without icebergs, which no bot submits, and for behaviours in which every
quote lies in `Price` (`[]QuotesInPrice`; a quote outside would have no level in the model, and
with `Price = Int` there is none: `AnyQuoteAllowed`).

- `SimulatorDrivesEngine`: a simulation is a behaviour of `MatchingEngine`, so that
  every theorem about the engine holds of the engine in it.
- `MakersKeepTheMarket`: `[]MakerBidStands`, for prices that are not negative.
- `VpinFedEveryTrade`: `[]VpinSeesTape`.
- `SnapshotsAreCoherent`: `[]SnapshotCoherent`, for positive prices.
- `PerpetualIsDriven`: `DrivesPerpetual`, so the theorems about `Perpetual` hold of the
  mark price and the funding rate of a simulation.

`MakerInv` follows a maker's turn. Before its bid is sent, the bid is below every ask and there is
one (the quote is around the mid price of a book with two sides, and an inverted
quote is moved one off the mid price on each side); while the call runs, the bid trades
with nothing (`BidMakes`), which the proof carries through the steps of the engine; while the ask is sent, it is above
the bid. `TapeInv` counts the tape against the trades since the last snapshot; `TickInv`
says that the mark price and the funding rate fit the book from the tick to the snapshot.

Two hypotheses were found in the proofs. With a bid of -1 and an ask of 0 the mid price, truncated,
is 0, and a maker's bid can reach the ask: `MakersKeepTheMarket` needs prices that are not
negative. A price of 0 is what the getters answer for an empty side, so a snapshot cannot tell
one from the other: `SnapshotsAreCoherent` needs positive ones. The bots' prices are
near 100 (`simulator.cpp:19`), the engine's prices are any `int64_t`.

### Only model-checked

Liveness and all that rests on fairness: `CallReturns`, `Delivered`, `PushReturns`, what
`TradingServer`, `OrderEntry` and `MarketData` promise eventually, `RunReturns`, and the
fairness part of `ImplementsExchange`. TLAPS has no rules for it with the backends
used, and none for ENABLED. So is `currentVPIN`, a fold over fractions. Every invariant and
every action property of the passing runs is stated by a theorem.

## 5. What else differs from the documents

Seen while modelling, kept in the models as the code has it, and without a run:

- A refreshed iceberg crosses the book. `addOrder` rests the taker's remainder
  (`order_book.cpp:68`), then `refreshIcebergs` puts the next slice of a consumed
  iceberg opposite to it; `order_book.cpp:141` says "iceberg refreshes happen
  mid-match". `Uncrossed` is checked and proved without icebergs.
- A market order that outruns the book is answered Accepted and rests nowhere;
  `order.hpp:15` calls Accepted "order resting in book". `Exchange` answers as the engine does.
- `availableQty` sums the levels in `uint32_t`: where the sum wraps, a fill-or-kill order is turned away
  from a book that could fill it. `FOKCancelJustified` is checked where it does not wrap.
- The UDP thread reads the book with no lock while the TCP thread changes it;
  `tcp_server.hpp:4` says "no mutex needed". `MarketData` gives such a read any value
  of its type; that it may crash is not modelled.
- Messages cut by a `recv`, among them those of a burst of more than 256 bytes, are answered
  INVALID_MESSAGE, and the rest is parsed as a new message.
- The client id of an order is never used: replies carry the engine's id
  (`protocol.hpp:60`). A maker's client is told nothing of its fills. An IOC order
  without a fill gets FOK_INSUFFICIENT, never IOC_NO_FILL. A limit or market order of
  quantity zero that trades with nothing is Filled, and gets no message at all.
- `main` calls `WSAStartup` itself, before it starts the TCP thread, and initialises the feed at
  once; the comment above says "WSAStartup is called by TcpServer" and "So we init UDP after TCP
  starts" (`server_main.cpp:52`). It does not look at the result. It and `~TcpServer` call
  `WSACleanup` whatever became of the startups, so that it may be called more often than a startup
  succeeded, and when only `TcpServer`'s did, `main`'s call takes Winsock from under
  `~TcpServer`. `~UdpMarketFeed` closes its socket after the last `WSACleanup`, in every exit.
- Beyond `FD_SETSIZE - 1` clients, `FD_SET` ignores the latest: they are accepted and then wait until
  one before them leaves.
- The client reads 64 bytes: the end of a fourth execution is lost. An answer that
  comes after the timeout is printed under the next command.
- Nothing calls `onTrade` but tests: in the server `last_price` is always 0 and the
  clamp never acts. A mid price of 0 is taken for an empty book. For a negative
  last trade price `max_diff` is negative and the clamp moves prices that are within it.
- `makeSharedVPIN`'s calculator is fed by no one (`simulator.cpp:73`), so the adaptive maker never
  widens its spread, which `test_vpin.cpp:72` says it does.
- A trade that overflows its bucket counts whole in the first, divided by more than
  the bucket's volume, and the following buckets get ratio 0 (`vpin.hpp:49`, `:58`), against
  "VPIN = sum|Vbuy - Vsell| / total_volume over N buckets" (`vpin.hpp:11`).
  A bucket volume of 0 makes `feedTrade` loop for ever.

## 6. Not modelled

Abstracted: timestamps (ids give the age), `order_count`, `tickCount`, printing,
rounding of `double`, the imbalance field of a datagram (one more getter), the
length of a socket's send buffer, the cut of ids to 32 bits. The queries
`spread`, `depthAtPrice` and `dump` change nothing. An emptied level is
erased with the fill that empties it; the code erases it when `fillWithTrades`
returns. `MarketData` leaves out a cancel of an unknown id, which changes nothing
that a getter reads.

Not modelled: the benchmarks (timing loops around the engine and the ring
buffer), the Python scripts (experiments and a download that never touch the
engine), `udp_listener` (prints each datagram, keeps no state), `saveLog` (prints).

## 7. Running

    tlc -config EngineRefinement.cfg EngineRefinement
    tlc -config EngineIcebergs.cfg MatchingEngine
    tlc -config RingBuffer.cfg RingBuffer
    tlc -config ServerRuns.cfg TradingServer
    tlc -config OrderEntry.cfg MCOrderEntry
    tlc -config MarketData.cfg MCMarketData
    tlc -config Simulator.cfg MCSimulator
    tlc -config Analytics.cfg MCAnalytics
    tlapm MatchingEngineProofs.tla
    tlapm ExchangeProofs.tla
    tlapm RingBufferProofs.tla
    tlapm TradingServerProofs.tla
    tlapm AnalyticsProofs.tla
    tlapm SimulatorProofs.tla
    tlapm OrderEntryProofs.tla
    tlapm MarketDataProofs.tla

The other configurations are the violations of section 3.
