---------------------------- MODULE GridStrategy ----------------------------
(***************************************************************************)
(* strategies/grid_strategy.hpp: the grid strategy, with as much of the    *)
(* engine and of the exchange as its callbacks meet.  Callbacks run one at *)
(* a time on the engine's thread; the exchange fills and cancels orders    *)
(* meanwhile, so a callback's loop over the levels is one action per       *)
(* level, and a fill waits in the engine's queue until onFill is called.   *)
(*                                                                         *)
(* Prices are in half ticks (0.05).  An order's number is its order id: 0  *)
(* is no order, as in order_id_generator.hpp.  roundPrice works on a       *)
(* double, so a price halfway between two ticks may go to either.          *)
(***************************************************************************)
EXTENDS Integers, Sequences, FiniteSets

CONSTANTS Top,           \* grid_levels: the levels are 0..Top
          Low, Spacing,  \* grid_low and the distance of two levels
          Mids,          \* the mid prices the book may show
          Lots,          \* fills an order may be split into
          MayRefuse,     \* TRUE: submitOrder may answer 0, cancelOrder false
          FillQueueSize, \* capacity of the engine's fill queue, 1024
          OrderBound     \* bound of the model: orders submitted

ASSUME GridAssumption == /\ Top \in Nat \ {0}
                         /\ Low \in Int /\ Spacing \in Int
                         /\ Mids \subseteq Int \ {0}
ASSUME ExchangeAssumption == /\ Lots \in Nat \ {0}
                             /\ MayRefuse \in BOOLEAN
                             /\ FillQueueSize \in Nat

VARIABLES
    initialized,  \* initialized_
    buyId,        \* levels_[i].buy_order_id
    sellId,       \* levels_[i].sell_order_id
    tickCount,    \* ticks_processed_
    fillCount,    \* fills_processed_
    call,         \* the callback in progress and its local variables
    mid,          \* what getMidPrice answers, 0 for nullopt
    orders,       \* every order submitted, by order id
    fills         \* the order ids of the fills in the engine's queue

vars == <<initialized, buyId, sellId, tickCount, fillCount, call, mid, orders, fills>>
market == <<mid, fills>>
counters == <<tickCount, fillCount>>

Levels == 0..Top
Price(i) == Low + Spacing * i
Smaller(a, b) == IF a < b THEN a ELSE b
Larger(a, b) == IF a > b THEN a ELSE b

\* The prices roundPrice(p, 1) may give.
Rounded(p) == {q \in {p - 1, p, p + 1} : q % 2 = 0}

\* No callback in progress; a callback that loops over the levels, the mid price
\* read once before the loop.
Idle == [of |-> "none", level |-> 0, mid |-> 0, buys |-> 0, sells |-> 0]
Enter(callback) == [of |-> callback, level |-> 0, mid |-> mid, buys |-> 0, sells |-> 0]

Init == /\ initialized = FALSE
        /\ buyId = [i \in Levels |-> 0]
        /\ sellId = [i \in Levels |-> 0]
        /\ tickCount = 0 /\ fillCount = 0
        /\ call = Idle
        /\ mid = 0
        /\ orders = << >>
        /\ fills = << >>

\* An order as the exchange sees it; cause is the order whose fill it answers.
Order(side, i, price, cause) ==
    [side |-> side, level |-> i, price |-> price, cause |-> cause,
     left |-> Lots, status |-> "open"]

\* ctx.submitOrder, and placeBuyAt and placeSellAt around it.
Refused == MayRefuse /\ UNCHANGED <<orders, buyId, sellId>>

PlaceBuyAt(i, p, cause) ==
    /\ \E q \in Rounded(p) : orders' = Append(orders, Order("buy", i, q, cause))
    /\ buyId' = [buyId EXCEPT ![i] = Len(orders) + 1]

PlaceSellAt(i, p, cause) ==
    /\ \E q \in Rounded(p) : orders' = Append(orders, Order("sell", i, q, cause))
    /\ sellId' = [sellId EXCEPT ![i] = Len(orders) + 1]

\* Faults: a loop that leaves at the last level instead of after it, or one later.
NextLevelStopsEarly(c) == IF c.level < Top - 1 THEN [c EXCEPT !.level = @ + 1] ELSE Idle
NextLevelPastEnd(c) == IF c.level <= Top THEN [c EXCEPT !.level = @ + 1] ELSE Idle

\* On to the next level of the loop, or out of it.
NextLevel(c) == IF c.level < Top THEN [c EXCEPT !.level = @ + 1] ELSE Idle

-----------------------------------------------------------------------------
(* More faults.  No specification uses them; each property names one that
   breaks it. *)

\* levels_[i].buy_order_id = 0 left out of line 87.
BuyFilledKeepsId(i, id) ==
    /\ buyId[i] = id
    /\ fillCount' = fillCount + 1
    /\ \/ i = Top /\ UNCHANGED <<buyId, sellId, orders>>
       \/ /\ i < Top
          /\ \/ /\ PlaceSellAt(i + 1, IF mid > 0 THEN Smaller(Price(i + 1), mid)
                                                 ELSE Price(i + 1), id)
             \/ MayRefuse /\ UNCHANGED <<orders, sellId>>
          /\ UNCHANGED buyId

\* i for i - 1 in line 102: the id of the new buy is kept at the wrong level.
SellFilledSameLevel(i, id) ==
    /\ sellId[i] = id
    /\ sellId' = [sellId EXCEPT ![i] = 0]
    /\ fillCount' = fillCount + 1
    /\ \/ i = 0 /\ UNCHANGED <<buyId, orders>>
       \/ /\ i > 0
          /\ \/ /\ \E q \in Rounded(IF mid > 0 THEN Larger(Price(i - 1), mid)
                                              ELSE Price(i - 1)) :
                     orders' = Append(orders, Order("buy", i - 1, q, id))
                /\ buyId' = [buyId EXCEPT ![i] = Len(orders) + 1]
             \/ MayRefuse /\ UNCHANGED <<orders, buyId>>

\* The count of line 70 without "if (oid)".
TickBuyCountsAlways(i) ==
    /\ Price(i) < call.mid /\ buyId[i] = 0
    /\ tickCount' = tickCount + 1
    /\ \/ PlaceBuyAt(i, call.mid + 10 + 2 * call.buys, 0) /\ UNCHANGED sellId
       \/ Refused
    /\ call' = NextLevel([call EXCEPT !.buys = @ + 1])

\* No cancelOrder in front of line 124.
TimerBuyForgets(i) == /\ Price(i) > call.mid /\ buyId[i] # 0
                      /\ buyId' = [buyId EXCEPT ![i] = 0]
                      /\ UNCHANGED orders

\* line 92 without the + 1: the sell goes to the level that was bought.
BuyFilledSellsSameLevel(i, id) ==
    /\ buyId[i] = id
    /\ buyId' = [buyId EXCEPT ![i] = 0]
    /\ fillCount' = fillCount + 1
    /\ \/ i = Top /\ UNCHANGED <<sellId, orders>>
       \/ /\ i < Top
          /\ PlaceSellAt(i, IF mid > 0 THEN Smaller(Price(i), mid) ELSE Price(i), id)

-----------------------------------------------------------------------------
(* onLoad and onUnload *)

OnLoad == /\ ~initialized /\ call = Idle
          /\ initialized' = TRUE
          /\ UNCHANGED <<buyId, sellId, counters, call, orders, market>>

OnUnload == /\ initialized /\ call = Idle
            /\ initialized' = FALSE
            /\ UNCHANGED <<buyId, sellId, counters, call, orders, market>>

-----------------------------------------------------------------------------
(* onTick *)

\* Bound of the model: no loop is entered that could not be finished.
OnTick == /\ Len(orders) + Top + 1 <= OrderBound
          /\ call = Idle
          /\ initialized /\ mid # 0
          /\ call' = Enter("tick")
          /\ UNCHANGED <<initialized, buyId, sellId, counters, orders, market>>

\* Lines 65-71: buys cross the spread by 0.5 and 0.1 more for each one.
TickBuy(i) ==
    /\ Price(i) < call.mid /\ buyId[i] = 0
    /\ \/ /\ PlaceBuyAt(i, call.mid + 10 + 2 * call.buys, 0)
          /\ tickCount' = tickCount + 1
          /\ UNCHANGED sellId
       \/ Refused /\ UNCHANGED tickCount
    /\ call' = NextLevel([call EXCEPT !.buys = @ + 1])

TickSell(i) ==
    /\ Price(i) > call.mid /\ sellId[i] = 0
    /\ \/ /\ PlaceSellAt(i, call.mid - 10 - 2 * call.sells, 0)
          /\ tickCount' = tickCount + 1
          /\ UNCHANGED buyId
       \/ Refused /\ UNCHANGED tickCount
    /\ call' = NextLevel([call EXCEPT !.sells = @ + 1])

TickKeep(i) ==
    /\ Price(i) < call.mid => buyId[i] # 0
    /\ Price(i) > call.mid => sellId[i] # 0
    /\ call' = NextLevel(call)
    /\ UNCHANGED <<orders, buyId, sellId, tickCount>>

TickLevel == /\ call.of = "tick"
             /\ TickBuy(call.level) \/ TickSell(call.level) \/ TickKeep(call.level)
             /\ UNCHANGED <<initialized, fillCount, market>>

-----------------------------------------------------------------------------
(* onFill *)

\* The sell one level above, at the mid price if that is lower.
BuyFilled(i, id) ==
    /\ buyId[i] = id
    /\ buyId' = [buyId EXCEPT ![i] = 0]
    /\ fillCount' = fillCount + 1
    /\ \/ i = Top /\ UNCHANGED <<sellId, orders>>
       \/ /\ i < Top
          /\ \/ PlaceSellAt(i + 1, IF mid > 0 THEN Smaller(Price(i + 1), mid)
                                              ELSE Price(i + 1), id)
             \/ MayRefuse /\ UNCHANGED <<orders, sellId>>

\* The buy one level below, at the mid price if that is higher.
SellFilled(i, id) ==
    /\ sellId[i] = id
    /\ sellId' = [sellId EXCEPT ![i] = 0]
    /\ fillCount' = fillCount + 1
    /\ \/ i = 0 /\ UNCHANGED <<buyId, orders>>
       \/ /\ i > 0
          /\ \/ PlaceBuyAt(i - 1, IF mid > 0 THEN Larger(Price(i - 1), mid)
                                             ELSE Price(i - 1), id)
             \/ MayRefuse /\ UNCHANGED <<orders, buyId>>

Held(id) == \E i \in Levels : buyId[i] = id \/ sellId[i] = id

FillUnknown(id) == ~Held(id) /\ UNCHANGED <<buyId, sellId, fillCount, orders>>

OnFill == /\ Len(orders) < OrderBound
          /\ call = Idle /\ fills # << >>
          /\ \/ \E i \in Levels : \/ BuyFilled(i, Head(fills))
                                  \/ SellFilled(i, Head(fills))
             \/ FillUnknown(Head(fills))
          /\ fills' = Tail(fills)
          /\ UNCHANGED <<initialized, tickCount, call, mid>>

-----------------------------------------------------------------------------
(* onTimer *)

OnTimer == /\ call = Idle
           /\ initialized /\ mid # 0
           /\ call' = Enter("timer")
           /\ UNCHANGED <<initialized, buyId, sellId, counters, orders, market>>

\* ctx.cancelOrder: its answer is not looked at.
CancelOrder(id) == \/ orders' = [orders EXCEPT ![id].status = "cancelling"]
                   \/ MayRefuse /\ orders' = [orders EXCEPT ![id].status = "refused"]

TimerBuy(i) == /\ Price(i) > call.mid /\ buyId[i] # 0
               /\ CancelOrder(buyId[i])
               /\ buyId' = [buyId EXCEPT ![i] = 0]

TimerSell(i) == /\ Price(i) < call.mid /\ sellId[i] # 0
                /\ CancelOrder(sellId[i])
                /\ sellId' = [sellId EXCEPT ![i] = 0]

TimerKeep(i) == /\ Price(i) > call.mid => buyId[i] = 0
                /\ Price(i) < call.mid => sellId[i] = 0
                /\ UNCHANGED <<orders, buyId, sellId>>

TimerLevel == /\ call.of = "timer"
              /\ \/ TimerBuy(call.level) /\ UNCHANGED sellId
                 \/ TimerSell(call.level) /\ UNCHANGED buyId
                 \/ TimerKeep(call.level)
              /\ call' = NextLevel(call)
              /\ UNCHANGED <<initialized, counters, market>>

-----------------------------------------------------------------------------
(* The market, the gateway and the exchange, seen from the strategy *)

Strategy == <<initialized, buyId, sellId, counters, call>>

MidMoves == /\ mid' \in Mids \cup {0}
            /\ mid' # mid
            /\ UNCHANGED <<Strategy, orders, fills>>

\* A fill of an order on the exchange; its callback ignores a full queue.
ExchangeFill == \E id \in DOMAIN orders :
    /\ orders[id].left > 0 /\ orders[id].status # "cancelled"
    /\ orders' = [orders EXCEPT ![id].left = @ - 1]
    /\ fills' = IF Len(fills) < FillQueueSize THEN Append(fills, id) ELSE fills
    /\ UNCHANGED <<Strategy, mid>>

ExchangeCancel == \E id \in DOMAIN orders :
    /\ orders[id].status = "cancelling"
    /\ orders' = [orders EXCEPT ![id].status = "cancelled"]
    /\ UNCHANGED <<Strategy, market>>

Next == \/ OnLoad \/ OnUnload \/ OnTick \/ TickLevel \/ OnFill \/ OnTimer \/ TimerLevel
        \/ MidMoves \/ ExchangeFill \/ ExchangeCancel

Spec == Init /\ [][Next]_vars

\* The engine's thread goes on with the callback it is in, and calls onTimer
\* periodically (strategy.hpp:98) whatever ticks and fills it dispatches.
FairSpec == Spec /\ WF_vars(TickLevel \/ TimerLevel) /\ SF_vars(OnTimer)

-----------------------------------------------------------------------------
(* Properties *)

Orders == [side : {"buy", "sell"}, level : Levels, price : Int, cause : Nat,
           left : 0..Lots, status : {"open", "cancelling", "refused", "cancelled"}]
Calls == [of : {"none", "tick", "timer"}, level : Levels, mid : Int, buys : Nat, sells : Nat]

\* The members have the types of the class, the exchange's tables those of orders.
TypeOK == /\ initialized \in BOOLEAN
          /\ buyId \in [Levels -> Nat] /\ sellId \in [Levels -> Nat]
          /\ tickCount \in Nat /\ fillCount \in Nat
          /\ call \in Calls
          /\ mid \in Mids \cup {0}
          /\ orders \in Seq(Orders)
          /\ fills \in Seq(Nat)

Side(id) == orders[id].side
Level(id) == orders[id].level

\* An id kept at a level (lines 163, 183) is that of an order of that side
\* placed for that level: levels and sides never exchange or share orders.
SlotsMatchOrders ==
    \A i \in Levels :
        /\ buyId[i] # 0 => /\ buyId[i] \in DOMAIN orders
                           /\ Side(buyId[i]) = "buy" /\ Level(buyId[i]) = i
        /\ sellId[i] # 0 => /\ sellId[i] \in DOMAIN orders
                            /\ Side(sellId[i]) = "sell" /\ Level(sellId[i]) = i

\* However many fills an order is split into, and whatever the timer and the
\* ticks do in between, onFill answers it with one order at most (lines 86-105).
AnsweredOnce ==
    \A k1, k2 \in DOMAIN orders :
        (orders[k1].cause = orders[k2].cause /\ orders[k1].cause # 0) => k1 = k2

\* An order placed by onFill answers an earlier order the exchange has filled:
\* on the other side, one level above a buy or one level below a sell.
AnswersFollowFills ==
    \A k \in DOMAIN orders :
        LET id == orders[k].cause IN
        id # 0 => /\ id < k
                  /\ orders[id].left < Lots
                  /\ Side(k) # Side(id)
                  /\ Level(k) = IF Side(id) = "buy" THEN Level(id) + 1 ELSE Level(id) - 1

\* What onFill can rely on: an order held at a level has not been answered, and
\* a fill in the queue is one of an order the exchange has begun to fill.
HeldUnanswered == \A i \in Levels : \A k \in DOMAIN orders :
                     orders[k].cause # 0 =>
                        buyId[i] # orders[k].cause /\ sellId[i] # orders[k].cause
FillsAreReal == \A j \in DOMAIN fills : /\ fills[j] \in DOMAIN orders
                                        /\ orders[fills[j]].left < Lots

\* The inductive invariant of the four parts above.
GridInv == /\ SlotsMatchOrders /\ AnsweredOnce /\ AnswersFollowFills
           /\ HeldUnanswered /\ FillsAreReal

\* ticks_processed_ counts the orders placed by ticks; fills_processed_ counts
\* the orders filled and recognised, each once, and every answer has one.
CountersAgree ==
    /\ tickCount = Cardinality({k \in DOMAIN orders : orders[k].cause = 0})
    /\ Len(orders) - tickCount <= fillCount
    /\ fillCount <= Cardinality({id \in DOMAIN orders : orders[id].left < Lots})

\* The strategy lets go of a working order in three ways only: onFill is given
\* a fill of it, cancelOrder was called for it (lines 123, 128), or the answer
\* to another fill takes its place (lines 163, 183 overwrite the id).
ForgottenForAReason ==
    [][\A id \in DOMAIN orders :
          (Held(id) /\ ~Held(id)') =>
             \/ fills # << >> /\ Head(fills) = id /\ fills' = Tail(fills)
             \/ orders'[id].status # "open"
             \/ Len(orders') > Len(orders) /\ orders'[Len(orders')].cause # 0]_vars

\* A buy above the mid price or a sell below it is let go in the end, or the
\* price comes back (lines 117-131).
StaleOrdersLetGo ==
    \A i \in Levels :
        /\ (initialized /\ mid # 0 /\ Price(i) > mid /\ buyId[i] # 0)
             ~> (~initialized \/ mid = 0 \/ Price(i) <= mid \/ buyId[i] = 0)
        /\ (initialized /\ mid # 0 /\ Price(i) < mid /\ sellId[i] # 0)
             ~> (~initialized \/ mid = 0 \/ Price(i) >= mid \/ sellId[i] = 0)

-----------------------------------------------------------------------------
(* What the comments of the header say *)

\* Lines 18-19: "When a buy fills, ... When a sell fills, ...": once onFill has
\* been given a fill of an order with a level to answer on, it is answered.
FillsAnswered ==
    [][\A id \in DOMAIN orders :
          (/\ fills # << >> /\ Head(fills) = id /\ fills' = Tail(fills)
           /\ IF Side(id) = "buy" THEN Level(id) < Top ELSE Level(id) > 0)
          => \E k \in DOMAIN orders' : orders'[k].cause = id]_vars
=============================================================================
