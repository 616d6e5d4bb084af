------------------------------ MODULE Trading ------------------------------
(***************************************************************************)
(* The way of an order and of its fills: StrategyContext::submitOrder with *)
(* the risk checks of risk_engine.hpp, the pending orders of               *)
(* order_gateway.hpp, the fill callback of main, and the positions of      *)
(* position_manager.hpp that the next check looks at.  Threads: the engine *)
(* submits and takes fills, the gateway's I/O thread sends, the user       *)
(* stream reports.                                                         *)
(*                                                                         *)
(* Orders are checked at one price and may be filled at another.  The      *)
(* rounding of Decimal division is left out: prices are such that every    *)
(* average is whole.  The exchange is external: it executes lots of an     *)
(* order it has, may close the order (a reject, a cancellation), and       *)
(* reports each lot once, in its own time and in fills of any size.        *)
(***************************************************************************)
EXTENDS Integers, Sequences, FiniteSets, Functions

CONSTANTS Symbols, Lots,                      \* lots of an order
          OrderPrice, FillPrices,
          MaxOrder, MaxPosition, MaxTotal,    \* max_order_value, max_position_value, ...
          Capital, MinCapital,                \* available_capital_raw_, min_available_capital
          OrderQueueSize, FillQueueSize,
          OrderBound                          \* how many orders are submitted

ASSUME TradingAssumption == /\ IsFiniteSet(Symbols)
                            /\ Lots \subseteq Nat \ {0} /\ OrderBound \in Nat
                            /\ {OrderPrice} \cup FillPrices \subseteq Nat \ {0}
                            /\ {MaxOrder, MaxPosition, MaxTotal, Capital, MinCapital} \subseteq Int
                            /\ {OrderQueueSize, FillQueueSize} \subseteq Nat

VARIABLES
    orders,     \* for each id given out, what is known of the order and where
    fills,      \* the engine's fill queue: ids and lots
    position,   \* positions_
    total,      \* total_value_raw_
    overlapped, \* not in the code: the symbols that had two orders at a time,
    paid        \* and what was paid for each symbol's fills, less what was received

vars == <<orders, fills, position, total, overlapped, paid>>
book == <<position, total, paid>>

Sides == {"buy", "sell"}
Sign(side) == IF side = "buy" THEN 1 ELSE -1
SignOf(n) == IF n < 0 THEN -1 ELSE 1
Abs(n) == IF n < 0 THEN -n ELSE n

\* OrderIDGenerator: ids count from 1, 0 is no order.
Ids == DOMAIN orders
IdsOf(s) == {id \in Ids : orders[id].symbol = s}
Waiting == {id \in Ids : orders[id].state = "queued"}    \* order_queue_

\* Position: a quantity that is negative when short, its average entry price,
\* and the profit realized by reducing it.
Flat == [quantity |-> 0, average_price |-> 0, realized_pnl |-> 0]
TotalPnL(p, price) == p.realized_pnl + p.quantity * (price - p.average_price)

OrderRequest(s, side, lots) ==
    [symbol |-> s, side |-> side, lots |-> lots, state |-> "queued",
     closed |-> FALSE, executed |-> 0, reported |-> 0, lost |-> 0]
Fill(id, n) == [order_id |-> id, lots |-> n]

Init == /\ orders = << >> /\ fills = << >>
        /\ position = [s \in Symbols |-> Flat] /\ total = 0
        /\ overlapped = {} /\ paid = [s \in Symbols |-> 0]

\* The lots of an order in the fill queue.
Queued(id) == SumFunction([k \in DOMAIN fills |-> IF fills[k].order_id = id THEN fills[k].lots ELSE 0])

\* An order that may still change the position the engine keeps.
UnderWay(id) == orders[id].state # "final" \/ orders[id].reported < orders[id].executed
                   \/ Queued(id) > 0

\* A fill of n lots, n negative for a sell, grows a position or reduces it.
Grows(p, n) == p.quantity = 0 \/ SignOf(p.quantity) = SignOf(n)
WeightedAverage(p, n, price) ==
    (Abs(p.quantity) * p.average_price + Abs(n) * price) \div (Abs(p.quantity) + Abs(n))

-----------------------------------------------------------------------------
(* Faults, used by no specification *)

WithinLimitsNow(s, side, lots) ==
    /\ lots * OrderPrice <= MaxOrder
    /\ Abs(position[s].quantity) * OrderPrice <= MaxPosition
TotalValueSigned(pos) ==
    SumFunction([s \in Symbols |-> pos[s].quantity * pos[s].average_price])
AverageKept(p, n, price) == IF Grows(p, n) THEN WeightedAverage(p, n, price) ELSE p.average_price
FullLater == Len(fills) > FillQueueSize

-----------------------------------------------------------------------------
(* The engine: submitOrder, and the fill half of its loop *)

\* recalcTotalValue.
TotalValue(pos) ==
    SumFunction([s \in Symbols |-> Abs(pos[s].quantity * pos[s].average_price)])

\* checkOrder, without the rate limit.  The positions are those of the fills
\* the engine has taken; the risk engine knows nothing of orders under way.
WithinLimits(s, side, lots) ==
    /\ lots * OrderPrice <= MaxOrder
    /\ Abs(position[s].quantity + Sign(side) * lots) * OrderPrice <= MaxPosition
    /\ total <= MaxTotal
    /\ Capital - lots * OrderPrice >= MinCapital

\* An order that is rejected or finds the queue full changes nothing.
SubmitOrder(s, side, lots) ==
    /\ Len(orders) < OrderBound
    /\ WithinLimits(s, side, lots)
    /\ Cardinality(Waiting) < OrderQueueSize
    /\ orders' = Append(orders, OrderRequest(s, side, lots))
    /\ overlapped' = overlapped \cup {t \in {s} : \E id \in IdsOf(s) : UnderWay(id)}
    /\ UNCHANGED <<fills, book>>

\* calcWeightedAverage; a reduced position keeps its average price, and one that
\* turns has that of the fill.
AveragePrice(p, n, price) ==
    CASE Grows(p, n) -> WeightedAverage(p, n, price)
      [] ~Grows(p, n) /\ Abs(n) < Abs(p.quantity) -> p.average_price
      [] ~Grows(p, n) /\ Abs(n) = Abs(p.quantity) -> 0
      [] OTHER -> price

\* calcRealizedPnLOnReduce, of the lots that close.
RealizedPnL(p, n, price) ==
    CASE Grows(p, n) -> 0
      [] ~Grows(p, n) /\ Abs(n) < Abs(p.quantity) -> -n * (price - p.average_price)
      [] OTHER -> p.quantity * (price - p.average_price)

\* updatePosition, with the cached total under the same mutex.
UpdatePosition(price) ==
    /\ fills # << >> /\ fills' = Tail(fills)
    /\ LET s == orders[Head(fills).order_id].symbol
           n == Sign(orders[Head(fills).order_id].side) * Head(fills).lots
           p == position[s]
       IN  /\ position' = [position EXCEPT ![s] =
                               [quantity |-> p.quantity + n,
                                average_price |-> AveragePrice(p, n, price),
                                realized_pnl |-> p.realized_pnl + RealizedPnL(p, n, price)]]
           /\ paid' = [paid EXCEPT ![s] = @ + n * price]
    /\ total' = TotalValue(position')
    /\ UNCHANGED <<orders, overlapped>>

\* The loop of the engine, with nothing to do.
Idle == fills = << >> /\ UNCHANGED vars

-----------------------------------------------------------------------------
(* The gateway: pending orders and the fill callback *)

\* processOrder, trackPending: from now on the exchange may answer.
ProcessOrder ==
    \E id \in Waiting :
        /\ \A other \in Waiting : id <= other
        /\ orders' = [orders EXCEPT ![id].state = "pending"]
        /\ UNCHANGED <<fills, overlapped, book>>

\* fill_cb: pushFill refuses when the queue is full, and nobody looks.
Full == Len(fills) >= FillQueueSize

\* injectFill, from the user stream: the pending order is updated, finalized
\* with its last lot, and the callback called.
InjectFill(id, n) ==
    LET o == orders[id] IN
    /\ o.reported + n <= o.executed
    /\ orders' = [orders EXCEPT ![id].reported = @ + n,
                                ![id].lost = IF Full THEN @ + n ELSE @,
                                ![id].state = IF o.reported + n = o.lots THEN "final" ELSE @]
    /\ fills' = IF Full THEN fills ELSE Append(fills, Fill(id, n))
    /\ UNCHANGED <<overlapped, book>>

\* injectOrderReject, a cancelled order, cancelAllPending: the word that an
\* order is closed may overtake the last of its fills.
FinalizeOrder(id) == /\ orders[id].closed /\ orders[id].state = "pending"
                     /\ orders' = [orders EXCEPT ![id].state = "final"]
                     /\ UNCHANGED <<fills, overlapped, book>>

-----------------------------------------------------------------------------
(* The exchange *)

AtExchange(id) == LET o == orders[id]
                  IN  o.state # "queued" /\ ~o.closed /\ o.executed < o.lots
Execute(id) == /\ AtExchange(id)
               /\ orders' = [orders EXCEPT ![id].executed = @ + 1]
               /\ UNCHANGED <<fills, overlapped, book>>
Close(id) == /\ AtExchange(id)
             /\ orders' = [orders EXCEPT ![id].closed = TRUE]
             /\ UNCHANGED <<fills, overlapped, book>>

Next == \/ \E s \in Symbols, side \in Sides, n \in Lots : SubmitOrder(s, side, n)
        \/ \E price \in FillPrices : UpdatePosition(price)
        \/ Idle \/ ProcessOrder
        \/ \E id \in Ids, n \in Lots : InjectFill(id, n)
        \/ \E id \in Ids : FinalizeOrder(id) \/ Execute(id) \/ Close(id)

Spec == Init /\ [][Next]_vars

-----------------------------------------------------------------------------
(* Properties *)

\* What the exchange has executed of a symbol, whether reported or not.
Exposure(s) == SumFunctionOnSet([id \in Ids |-> Sign(orders[id].side) * orders[id].executed], IdsOf(s))

Orders == [symbol : Symbols, side : Sides, lots : Lots, state : {"queued", "pending", "final"},
           closed : BOOLEAN, executed : Nat, reported : Nat, lost : Nat]
Fills == [order_id : Nat, lots : Nat \ {0}]
Positions == [quantity : Int, average_price : Nat, realized_pnl : Int]

\* The members of PositionManager and the gateway's orders (position_manager.hpp,
\* PendingOrder in order_gateway.hpp:31-45) have their types; the fill queue
\* keeps to its size, and an order is never executed or reported beyond its lots.
TypeOK ==
    /\ orders \in Seq(Orders) /\ Len(orders) <= OrderBound
    /\ \A id \in Ids : LET o == orders[id]
                       IN  o.executed <= o.lots /\ o.reported <= o.executed /\ o.lost <= o.reported
    /\ fills \in Seq(Fills) /\ Len(fills) <= FillQueueSize
    /\ \A k \in DOMAIN fills : fills[k].order_id \in Ids
    /\ position \in [Symbols -> Positions]
    /\ total \in Int /\ paid \in [Symbols -> Int] /\ overlapped \subseteq Symbols

\* The lots of an order that have reached the position.
Booked(id) == orders[id].reported - orders[id].lost - Queued(id)

\* The engine's book: through the gateway's orders, the queue and the refused
\* pushes of fill_cb (main.cpp:172-175), the position is what was reported less
\* what is queued or lost, and the cached total that checkOrder reads without
\* a lock (position_manager.hpp:59-65) is that of the positions.
FillsConserved ==
    /\ \A s \in Symbols :
          position[s].quantity =
            SumFunctionOnSet([id \in Ids |-> Sign(orders[id].side) * Booked(id)], IdsOf(s))
    /\ total = SumFunction([s \in Symbols |-> Abs(position[s].quantity) * position[s].average_price])

\* "recalculates average price via weighted average and computes realized P&L
\* on reductions" (position_manager.hpp:18-19): however fills grow, reduce and
\* turn a position, getTotalPnL (types.hpp:353-356) is at any price what its
\* lots are worth less what was paid for them.
ProfitAccounted ==
    \A s \in Symbols, price \in FillPrices :
       TotalPnL(position[s], price) = position[s].quantity * price - paid[s]

\* "Position limit: projected symbol position <= max_position_value"
\* (risk_engine.hpp:69), of what the exchange has executed: it holds as long as
\* a symbol never had two orders under way and no fill of it was lost, however
\* late the fills are and however the order ended.  checkOrder projects from
\* the fills taken so far, so neither condition can be left out.
LimitHoldsAlone ==
    \A s \in Symbols :
       (s \notin overlapped /\ \A id \in IdsOf(s) : orders[id].lost = 0)
           => Abs(Exposure(s)) * OrderPrice <= MaxPosition
=============================================================================
