------------------------- MODULE GridStrategyProofs -------------------------
(***************************************************************************)
(* Proofs about GridStrategy, for every number of levels, every mid price, *)
(* every way of splitting fills and any number of orders.                  *)
(***************************************************************************)
EXTENDS GridStrategy, SequenceTheorems, FiniteSetTheorems, TLAPS

LEMMA LevelsInt == Levels \subseteq Int /\ 0 \in Levels /\ Top \in Levels
  BY GridAssumption DEF Levels

LEMMA RoundedInt == \A p \in Int : Rounded(p) \subseteq Int
  BY DEF Rounded

LEMMA PriceInt == \A i \in Levels : Price(i) \in Int
  BY GridAssumption, LevelsInt, SMT DEF Price

\* The loop variable stays within the levels (lines 62, 118).
LEMMA NextLevelType == ASSUME NEW c \in Calls PROVE NextLevel(c) \in Calls
  <1>1. CASE c.level < Top
    BY <1>1, GridAssumption, SMT DEF NextLevel, Calls, Levels
  <1>2. CASE ~(c.level < Top)
    BY <1>2, GridAssumption, SMT DEF NextLevel, Calls, Levels, Idle
  <1> QED BY <1>1, <1>2

LEMMA OrderType ==
    ASSUME NEW side \in {"buy", "sell"}, NEW i \in Levels, NEW q \in Int, NEW cause \in Nat
    PROVE  Order(side, i, q, cause) \in Orders
  BY ExchangeAssumption, SMT DEF Order, Orders

\* A slot of levels_ reset to 0.
LEMMA Zeroed == \A f \in [Levels -> Nat], i \in Levels : [f EXCEPT ![i] = 0] \in [Levels -> Nat]
  BY SMT

-----------------------------------------------------------------------------
(* placeBuyAt and placeSellAt *)

LEMMA PlaceBuyType ==
    ASSUME TypeOK, NEW i \in Levels, NEW p \in Int, NEW cause \in Nat, PlaceBuyAt(i, p, cause)
    PROVE  orders' \in Seq(Orders) /\ buyId' \in [Levels -> Nat]
  <1>1. PICK q \in Rounded(p) : orders' = Append(orders, Order("buy", i, q, cause))
    BY DEF PlaceBuyAt
  <1>2. Order("buy", i, q, cause) \in Orders BY <1>1, RoundedInt, OrderType
  <1>3. orders' \in Seq(Orders) BY <1>1, <1>2, SMT DEF TypeOK
  <1>4. Len(orders) + 1 \in Nat BY SMT DEF TypeOK
  <1> QED BY <1>3, <1>4, SMT DEF TypeOK, PlaceBuyAt

LEMMA PlaceSellType ==
    ASSUME TypeOK, NEW i \in Levels, NEW p \in Int, NEW cause \in Nat, PlaceSellAt(i, p, cause)
    PROVE  orders' \in Seq(Orders) /\ sellId' \in [Levels -> Nat]
  <1>1. PICK q \in Rounded(p) : orders' = Append(orders, Order("sell", i, q, cause))
    BY DEF PlaceSellAt
  <1>2. Order("sell", i, q, cause) \in Orders BY <1>1, RoundedInt, OrderType
  <1>3. orders' \in Seq(Orders) BY <1>1, <1>2, SMT DEF TypeOK
  <1>4. Len(orders) + 1 \in Nat BY SMT DEF TypeOK
  <1> QED BY <1>3, <1>4, SMT DEF TypeOK, PlaceSellAt

-----------------------------------------------------------------------------
(* Type correctness *)

LEMMA TickLevelType == ASSUME TypeOK, TickLevel PROVE TypeOK'
  <1> DEFINE i == call.level
  <1>0. /\ i \in Levels /\ call \in Calls /\ call.mid \in Int /\ call.buys \in Nat
        /\ call.sells \in Nat /\ 0 \in Nat
    BY SMT DEF TypeOK, Calls
  <1>1. CASE TickBuy(i)
    <2>1. [call EXCEPT !.buys = @ + 1] \in Calls BY <1>0, SMT DEF Calls
    <2>2. call' \in Calls BY <2>1, <1>1, NextLevelType DEF TickBuy
    <2>3. orders' \in Seq(Orders) /\ buyId' \in [Levels -> Nat]
          /\ sellId' \in [Levels -> Nat] /\ tickCount' \in Nat
      <3>1. CASE PlaceBuyAt(i, call.mid + 10 + 2 * call.buys, 0) /\ tickCount' = tickCount + 1
                 /\ UNCHANGED sellId
        <4>1. call.mid + 10 + 2 * call.buys \in Int BY <1>0, SMT
        <4>2. orders' \in Seq(Orders) /\ buyId' \in [Levels -> Nat]
          BY <4>1, <1>0, <3>1, PlaceBuyType
        <4> QED BY <4>2, <3>1, SMT DEF TypeOK
      <3>2. CASE Refused /\ UNCHANGED tickCount
        BY <3>2 DEF TypeOK, Refused
      <3> QED BY <3>1, <3>2, <1>1 DEF TickBuy
    <2> QED BY <2>2, <2>3 DEF TypeOK, TickLevel, market
  <1>2. CASE TickSell(i)
    <2>1. [call EXCEPT !.sells = @ + 1] \in Calls BY <1>0, SMT DEF Calls
    <2>2. call' \in Calls BY <2>1, <1>2, NextLevelType DEF TickSell
    <2>3. orders' \in Seq(Orders) /\ buyId' \in [Levels -> Nat]
          /\ sellId' \in [Levels -> Nat] /\ tickCount' \in Nat
      <3>1. CASE PlaceSellAt(i, call.mid - 10 - 2 * call.sells, 0) /\ tickCount' = tickCount + 1
                 /\ UNCHANGED buyId
        <4>1. call.mid - 10 - 2 * call.sells \in Int BY <1>0, SMT
        <4>2. orders' \in Seq(Orders) /\ sellId' \in [Levels -> Nat]
          BY <4>1, <1>0, <3>1, PlaceSellType
        <4> QED BY <4>2, <3>1, SMT DEF TypeOK
      <3>2. CASE Refused /\ UNCHANGED tickCount
        BY <3>2 DEF TypeOK, Refused
      <3> QED BY <3>1, <3>2, <1>2 DEF TickSell
    <2> QED BY <2>2, <2>3 DEF TypeOK, TickLevel, market
  <1>3. CASE TickKeep(i)
    BY <1>3, <1>0, NextLevelType DEF TypeOK, TickLevel, TickKeep, market
  <1> QED BY <1>1, <1>2, <1>3 DEF TickLevel

LEMMA MidInt == ASSUME TypeOK PROVE mid \in Int
  BY GridAssumption, SMT DEF TypeOK

LEMMA BuyFilledType ==
    ASSUME TypeOK, NEW i \in Levels, NEW id \in Nat, BuyFilled(i, id)
    PROVE  /\ orders' \in Seq(Orders) /\ fillCount' \in Nat
           /\ buyId' \in [Levels -> Nat] /\ sellId' \in [Levels -> Nat]
  <1>1. fillCount' \in Nat /\ buyId' \in [Levels -> Nat]
    BY SMT DEF TypeOK, BuyFilled
  <1>2. orders' \in Seq(Orders) /\ sellId' \in [Levels -> Nat]
    <2>1. CASE UNCHANGED <<sellId, orders>>
      BY <2>1 DEF TypeOK
    <2>2. CASE i < Top /\ PlaceSellAt(i + 1, IF mid > 0 THEN Smaller(Price(i + 1), mid)
                                                        ELSE Price(i + 1), id)
      <3>1. i + 1 \in Levels BY <2>2, GridAssumption, SMT DEF Levels
      <3>2. (IF mid > 0 THEN Smaller(Price(i + 1), mid) ELSE Price(i + 1)) \in Int
        BY <3>1, PriceInt, MidInt DEF Smaller
      <3> QED BY <3>1, <3>2, <2>2, PlaceSellType
    <2> QED BY <2>1, <2>2 DEF BuyFilled
  <1> QED BY <1>1, <1>2

LEMMA SellFilledType ==
    ASSUME TypeOK, NEW i \in Levels, NEW id \in Nat, SellFilled(i, id)
    PROVE  /\ orders' \in Seq(Orders) /\ fillCount' \in Nat
           /\ buyId' \in [Levels -> Nat] /\ sellId' \in [Levels -> Nat]
  <1>1. fillCount' \in Nat /\ sellId' \in [Levels -> Nat]
    BY SMT DEF TypeOK, SellFilled
  <1>2. orders' \in Seq(Orders) /\ buyId' \in [Levels -> Nat]
    <2>1. CASE UNCHANGED <<buyId, orders>>
      BY <2>1 DEF TypeOK
    <2>2. CASE i > 0 /\ PlaceBuyAt(i - 1, IF mid > 0 THEN Larger(Price(i - 1), mid)
                                                     ELSE Price(i - 1), id)
      <3>1. i - 1 \in Levels BY <2>2, GridAssumption, SMT DEF Levels
      <3>2. (IF mid > 0 THEN Larger(Price(i - 1), mid) ELSE Price(i - 1)) \in Int
        BY <3>1, PriceInt, MidInt DEF Larger
      <3> QED BY <3>1, <3>2, <2>2, PlaceBuyType
    <2> QED BY <2>1, <2>2 DEF SellFilled
  <1> QED BY <1>1, <1>2

LEMMA OnFillType == ASSUME TypeOK, OnFill PROVE TypeOK'
  <1>1. Head(fills) \in Nat /\ fills' \in Seq(Nat)
    BY SMT DEF TypeOK, OnFill
  <1>2. /\ orders' \in Seq(Orders) /\ fillCount' \in Nat
        /\ buyId' \in [Levels -> Nat] /\ sellId' \in [Levels -> Nat]
    <2>1. CASE \E i \in Levels : BuyFilled(i, Head(fills))
      BY <2>1, <1>1, BuyFilledType
    <2>2. CASE \E i \in Levels : SellFilled(i, Head(fills))
      BY <2>2, <1>1, SellFilledType
    <2>3. CASE FillUnknown(Head(fills))
      BY <2>3 DEF TypeOK, FillUnknown
    <2> QED BY <2>1, <2>2, <2>3 DEF OnFill
  <1> QED BY <1>1, <1>2 DEF TypeOK, OnFill

\* A change of the status or of the fills left of one order.
LEMMA StatusType ==
    ASSUME TypeOK, NEW id,
           NEW st \in {"open", "cancelling", "refused", "cancelled"}
    PROVE  [orders EXCEPT ![id].status = st] \in Seq(Orders)
  <1>1. CASE id \in DOMAIN orders
    <2>1. id \in 1..Len(orders) /\ orders[id] \in Orders BY <1>1, SMT DEF TypeOK
    <2>2. [orders[id] EXCEPT !.status = st] \in Orders BY <2>1, SMT DEF Orders
    <2>3. [orders EXCEPT ![id] = [orders[id] EXCEPT !.status = st]] \in Seq(Orders)
      BY <2>1, <2>2, ExceptSeq DEF TypeOK
    <2> QED BY <2>3
  <1>2. CASE id \notin DOMAIN orders
    <2>1. orders = [k \in DOMAIN orders |-> orders[k]] BY SMT DEF TypeOK
    <2>2. [orders EXCEPT ![id].status = st] = orders BY <1>2, <2>1, Zenon
    <2> QED BY <2>2 DEF TypeOK
  <1> QED BY <1>1, <1>2

LEMMA LeftType ==
    ASSUME TypeOK, NEW id \in DOMAIN orders, orders[id].left > 0
    PROVE  [orders EXCEPT ![id].left = @ - 1] \in Seq(Orders)
  <1>1. id \in 1..Len(orders) /\ orders[id] \in Orders BY SMT DEF TypeOK
  <1>2. orders[id].left - 1 \in 0..Lots BY <1>1, ExchangeAssumption, SMT DEF Orders
  <1>3. [orders[id] EXCEPT !.left = @ - 1] \in Orders BY <1>1, <1>2, SMT DEF Orders
  <1>4. [orders EXCEPT ![id] = [orders[id] EXCEPT !.left = @ - 1]] \in Seq(Orders)
    BY <1>1, <1>3, ExceptSeq DEF TypeOK
  <1> QED BY <1>4

LEMMA TimerLevelType == ASSUME TypeOK, TimerLevel PROVE TypeOK'
  <1> DEFINE i == call.level
  <1>0. i \in Levels /\ call \in Calls BY SMT DEF TypeOK, Calls
  <1>1. call' \in Calls BY <1>0, NextLevelType DEF TimerLevel
  <1>2. orders' \in Seq(Orders) /\ buyId' \in [Levels -> Nat] /\ sellId' \in [Levels -> Nat]
    <2>1. CASE TimerBuy(i) /\ UNCHANGED sellId
      <3>2. orders' \in Seq(Orders) BY <2>1, StatusType DEF TimerBuy, CancelOrder
      <3>3. buyId' \in [Levels -> Nat] BY <1>0, <2>1, Zeroed DEF TypeOK, TimerBuy
      <3> QED BY <2>1, <3>2, <3>3 DEF TypeOK
    <2>2. CASE TimerSell(i) /\ UNCHANGED buyId
      <3>2. orders' \in Seq(Orders) BY <2>2, StatusType DEF TimerSell, CancelOrder
      <3>3. sellId' \in [Levels -> Nat] BY <1>0, <2>2, Zeroed DEF TypeOK, TimerSell
      <3> QED BY <2>2, <3>2, <3>3 DEF TypeOK
    <2>3. CASE TimerKeep(i)
      BY <2>3 DEF TypeOK, TimerKeep
    <2> QED BY <2>1, <2>2, <2>3 DEF TimerLevel
  <1> QED BY <1>1, <1>2 DEF TypeOK, TimerLevel, counters, market

LEMMA ExchangeFillType == ASSUME TypeOK, ExchangeFill PROVE TypeOK'
  <1>1. PICK id \in DOMAIN orders :
          /\ orders[id].left > 0
          /\ orders' = [orders EXCEPT ![id].left = @ - 1]
          /\ fills' = IF Len(fills) < FillQueueSize THEN Append(fills, id) ELSE fills
    BY DEF ExchangeFill
  <1>2. fills' \in Seq(Nat)
    <2>1. id \in Nat BY SMT DEF TypeOK
    <2> QED BY <1>1, <2>1, SMT DEF TypeOK
  <1>3. orders' \in Seq(Orders) BY <1>1, LeftType
  <1> QED BY <1>2, <1>3 DEF TypeOK, ExchangeFill, Strategy, counters

LEMMA ExchangeCancelType == ASSUME TypeOK, ExchangeCancel PROVE TypeOK'
  <1>1. PICK id \in DOMAIN orders : orders' = [orders EXCEPT ![id].status = "cancelled"]
    BY DEF ExchangeCancel
  <1>2. orders' \in Seq(Orders) BY <1>1, StatusType
  <1> QED BY <1>2 DEF TypeOK, ExchangeCancel, Strategy, counters, market

LEMMA TypeStep == TypeOK /\ [Next]_vars => TypeOK'
  <1> SUFFICES ASSUME TypeOK, [Next]_vars PROVE TypeOK' OBVIOUS
  <1>0. Idle \in Calls /\ 0 \in Levels
    BY LevelsInt, SMT DEF Idle, Calls
  <1>1. CASE OnLoad \/ OnUnload
    BY <1>1 DEF OnLoad, OnUnload, TypeOK, counters, market
  <1>2. CASE OnTick \/ OnTimer
    <2>1. ASSUME NEW cb \in {"tick", "timer"}
          PROVE  Enter(cb) \in Calls
      <3>1. mid \in Int BY MidInt
      <3> QED BY <3>1, <1>0, SMT DEF Enter, Calls
    <2>2. call' \in Calls BY <1>2, <2>1 DEF OnTick, OnTimer
    <2> QED BY <1>2, <2>2 DEF OnTick, OnTimer, TypeOK, counters, market
  <1>3. CASE TickLevel BY <1>3, TickLevelType
  <1>4. CASE OnFill BY <1>4, OnFillType
  <1>5. CASE TimerLevel BY <1>5, TimerLevelType
  <1>6. CASE MidMoves BY <1>6 DEF MidMoves, TypeOK, Strategy, counters
  <1>7. CASE ExchangeFill BY <1>7, ExchangeFillType
  <1>8. CASE ExchangeCancel BY <1>8, ExchangeCancelType
  <1>9. CASE UNCHANGED vars BY <1>9 DEF vars, TypeOK
  <1> QED BY <1>1, <1>2, <1>3, <1>4, <1>5, <1>6, <1>7, <1>8, <1>9 DEF Next

LEMMA TypeInit == Init => TypeOK
  <1> SUFFICES ASSUME Init PROVE TypeOK OBVIOUS
  <1>1. call \in Calls BY LevelsInt, SMT DEF Init, Idle, Calls
  <1>2. orders \in Seq(Orders) /\ fills \in Seq(Nat) BY SMT DEF Init
  <1> QED BY <1>1, <1>2 DEF Init, TypeOK

\* The members of the strategy and the tables of orders keep their types: a
\* loop over the levels never leaves levels_ (lines 62, 85, 118).
THEOREM TypeCorrect == Spec => []TypeOK
  BY TypeInit, TypeStep, PTL DEF Spec

-----------------------------------------------------------------------------
(* The orders and the levels.  GridInv is inductive together with TypeOK:  *)
(* what onFill does rests on HeldUnanswered and FillsAreReal.              *)

\* t has the orders of s, with no more of them left to fill.
Extends(s, t) == /\ DOMAIN s \subseteq DOMAIN t
                 /\ \A id \in DOMAIN s : /\ t[id].side = s[id].side
                                         /\ t[id].level = s[id].level
                                         /\ t[id].cause = s[id].cause
                                         /\ t[id].left \in Int /\ t[id].left <= s[id].left

\* The parts of GridInv that do not speak of the fills.
SlotParts == SlotsMatchOrders /\ AnsweredOnce /\ AnswersFollowFills /\ HeldUnanswered

LEMMA OrdersFacts ==
    ASSUME TypeOK
    PROVE  /\ Len(orders) \in Nat /\ DOMAIN orders = 1..Len(orders)
           /\ \A id \in DOMAIN orders :
                 /\ orders[id].side \in {"buy", "sell"} /\ orders[id].level \in Int
                 /\ orders[id].cause \in Nat /\ orders[id].left \in Int
  <1>1. Len(orders) \in Nat /\ DOMAIN orders = 1..Len(orders) BY SMT DEF TypeOK
  <1>2. \A id \in 1..Len(orders) : orders[id] \in Orders BY SMT DEF TypeOK
  <1>3. Levels \subseteq Int BY LevelsInt
  <1>4. 0..Lots \subseteq Int BY SMT
  <1>5. \A id \in DOMAIN orders :
           /\ orders[id].side \in {"buy", "sell"} /\ orders[id].level \in Levels
           /\ orders[id].cause \in Nat /\ orders[id].left \in 0..Lots
    BY <1>1, <1>2, Zenon DEF Orders
  <1> QED BY <1>1, <1>3, <1>4, <1>5

LEMMA FillsFacts ==
    ASSUME TypeOK
    PROVE  Len(fills) \in Nat /\ DOMAIN fills = 1..Len(fills)
  BY SMT DEF TypeOK

\* No new order: slots may be reset, orders filled or cancelled.
LEMMA SameOrders ==
    ASSUME TypeOK, SlotParts, DOMAIN orders' = DOMAIN orders, Extends(orders, orders'),
           \A i \in Levels : buyId'[i] \in {buyId[i], 0} /\ sellId'[i] \in {sellId[i], 0}
    PROVE  SlotParts'
  <1>1. SlotsMatchOrders'
    BY SMT DEF SlotParts, SlotsMatchOrders, Side, Level, Extends
  <1>2. AnsweredOnce'
    BY SMT DEF SlotParts, AnsweredOnce, Extends
  <1>3. AnswersFollowFills'
    <2> SUFFICES ASSUME NEW k \in DOMAIN orders', orders'[k].cause # 0
                 PROVE  /\ orders'[k].cause < k
                        /\ orders'[orders'[k].cause].left < Lots
                        /\ orders'[k].side # orders'[orders'[k].cause].side
                        /\ orders'[k].level = IF orders'[orders'[k].cause].side = "buy"
                                              THEN orders'[orders'[k].cause].level + 1
                                              ELSE orders'[orders'[k].cause].level - 1
      BY DEF AnswersFollowFills, Side, Level
    <2> DEFINE id == orders[k].cause
    <2>1. k \in DOMAIN orders /\ orders'[k].cause = id BY DEF Extends
    <2>2. id < k /\ orders[id].left < Lots /\ orders[k].side # orders[id].side
          /\ orders[k].level = IF orders[id].side = "buy" THEN orders[id].level + 1
                                                           ELSE orders[id].level - 1
      BY <2>1 DEF SlotParts, AnswersFollowFills, Side, Level
    <2>3. id \in DOMAIN orders BY <2>1, <2>2, OrdersFacts, SMT
    <2>4. /\ orders'[id].side = orders[id].side /\ orders'[id].level = orders[id].level
          /\ orders'[id].left <= orders[id].left
          /\ orders'[k].side = orders[k].side /\ orders'[k].level = orders[k].level
      BY <2>1, <2>3 DEF Extends
    <2>5. orders[id].left \in Int BY <2>3, OrdersFacts
    <2>6. orders'[id].left < Lots
      <3>1. orders'[id].left \in Int BY <2>3 DEF Extends
      <3> HIDE DEF id
      <3> QED BY <3>1, <2>2, <2>4, <2>5, ExchangeAssumption, SMT
    <2> HIDE DEF id
    <2> QED BY <2>1, <2>2, <2>4, <2>6
  <1>4. HeldUnanswered'
    <2> SUFFICES ASSUME NEW i \in Levels, NEW k \in DOMAIN orders', orders'[k].cause # 0
                 PROVE  buyId'[i] # orders'[k].cause /\ sellId'[i] # orders'[k].cause
      BY DEF HeldUnanswered
    <2>1. k \in DOMAIN orders /\ orders'[k].cause = orders[k].cause BY DEF Extends
    <2> QED BY <2>1 DEF SlotParts, HeldUnanswered
  <1> QED BY <1>1, <1>2, <1>3, <1>4 DEF SlotParts

\* A new order, held at its level, that answers nothing or the order just filled.
LEMMA NewOrder ==
    ASSUME TypeOK, SlotParts,
           NEW side \in {"buy", "sell"}, NEW i \in Levels, NEW q \in Int, NEW cause \in Nat,
           orders' = Append(orders, Order(side, i, q, cause)),
           \A j \in Levels :
              /\ buyId'[j] \in {buyId[j], 0}
                   \/ (side = "buy" /\ j = i /\ buyId'[j] = Len(orders) + 1)
              /\ sellId'[j] \in {sellId[j], 0}
                   \/ (side = "sell" /\ j = i /\ sellId'[j] = Len(orders) + 1),
           cause # 0 =>
              /\ cause \in DOMAIN orders /\ orders[cause].left < Lots
              /\ side # orders[cause].side
              /\ i = IF orders[cause].side = "buy" THEN orders[cause].level + 1
                                                   ELSE orders[cause].level - 1
              /\ \A k \in DOMAIN orders : orders[k].cause # cause
              /\ \A j \in Levels : buyId'[j] # cause /\ sellId'[j] # cause
    PROVE  SlotParts' /\ Extends(orders, orders')
  <1> DEFINE n == Len(orders)
             o == Order(side, i, q, cause)
  <1>0. n \in Nat /\ DOMAIN orders = 1..n BY OrdersFacts
  <1>1. DOMAIN orders' = 1..(n + 1) /\ orders'[n + 1] = o
        /\ \A k \in 1..n : orders'[k] = orders[k]
    <2>1. o \in Orders BY OrderType
    <2>2. /\ orders' \in Seq(Orders) /\ Len(orders') = n + 1 /\ orders'[n + 1] = o
          /\ \A k \in 1..n : orders'[k] = orders[k]
      BY <2>1, AppendProperties DEF TypeOK
    <2>3. DOMAIN orders' = 1..Len(orders') BY <2>2, SMT
    <2> QED BY <2>2, <2>3
  <1>2. o.side = side /\ o.level = i /\ o.cause = cause BY DEF Order
  <1> HIDE DEF n, o
  <1>3. \A k \in DOMAIN orders' : k \in DOMAIN orders \/ k = n + 1 BY <1>0, <1>1, SMT
  <1>4. n + 1 \notin DOMAIN orders /\ n + 1 \in DOMAIN orders' /\ n + 1 # 0
        /\ DOMAIN orders \subseteq DOMAIN orders'
    BY <1>0, <1>1, SMT
  <1>5. \A k \in DOMAIN orders : orders'[k] = orders[k] BY <1>0, <1>1
  <1>6. Extends(orders, orders')
    <2>1. \A id \in DOMAIN orders : /\ orders'[id].left \in Int
                                  /\ orders'[id].left <= orders[id].left
      BY <1>5, OrdersFacts, SMT
    <2> QED BY <2>1, <1>4, <1>5 DEF Extends
  <1>7. \A k \in DOMAIN orders : orders[k].cause # 0 =>
           orders[k].cause < k /\ orders[k].cause \in DOMAIN orders
    <2> TAKE k \in DOMAIN orders
    <2> HAVE orders[k].cause # 0
    <2>1. orders[k].cause < k BY DEF SlotParts, AnswersFollowFills
    <2> QED BY <2>1, OrdersFacts, SMT
  <1>8. SlotsMatchOrders'
    <2> SUFFICES ASSUME NEW j \in Levels
                 PROVE  /\ buyId'[j] # 0 => /\ buyId'[j] \in DOMAIN orders'
                                            /\ orders'[buyId'[j]].side = "buy"
                                            /\ orders'[buyId'[j]].level = j
                        /\ sellId'[j] # 0 => /\ sellId'[j] \in DOMAIN orders'
                                             /\ orders'[sellId'[j]].side = "sell"
                                             /\ orders'[sellId'[j]].level = j
      BY DEF SlotsMatchOrders, Side, Level
    <2>1. /\ buyId[j] # 0 => /\ buyId[j] \in DOMAIN orders
                             /\ orders[buyId[j]].side = "buy" /\ orders[buyId[j]].level = j
          /\ sellId[j] # 0 => /\ sellId[j] \in DOMAIN orders
                              /\ orders[sellId[j]].side = "sell" /\ orders[sellId[j]].level = j
      BY DEF SlotParts, SlotsMatchOrders, Side, Level
    <2> QED BY <2>1, <1>1, <1>2, <1>4, <1>5, Zenon DEF n
  <1>9. AnsweredOnce'
    BY <1>1, <1>2, <1>3, <1>5 DEF SlotParts, AnsweredOnce
  <1>10. AnswersFollowFills'
    <2> SUFFICES ASSUME NEW k \in DOMAIN orders', orders'[k].cause # 0
                 PROVE  /\ orders'[k].cause < k
                        /\ orders'[orders'[k].cause].left < Lots
                        /\ orders'[k].side # orders'[orders'[k].cause].side
                        /\ orders'[k].level = IF orders'[orders'[k].cause].side = "buy"
                                              THEN orders'[orders'[k].cause].level + 1
                                              ELSE orders'[orders'[k].cause].level - 1
      BY DEF AnswersFollowFills, Side, Level
    <2>1. CASE k \in DOMAIN orders
      BY <2>1, <1>5, <1>7 DEF SlotParts, AnswersFollowFills, Side, Level
    <2>2. CASE k = n + 1
      <3>1. orders'[k].cause = cause /\ cause # 0 /\ orders'[k].side = side
            /\ orders'[k].level = i
        BY <2>2, <1>1, <1>2
      <3>2. orders'[cause] = orders[cause] /\ cause < k
        BY <3>1, <2>2, <1>0, <1>5, SMT
      <3> QED BY <3>1, <3>2
    <2> QED BY <2>1, <2>2, <1>3
  <1>11. HeldUnanswered'
    <2> SUFFICES ASSUME NEW j \in Levels, NEW k \in DOMAIN orders', orders'[k].cause # 0
                 PROVE  buyId'[j] # orders'[k].cause /\ sellId'[j] # orders'[k].cause
      BY DEF HeldUnanswered
    <2>1. CASE k \in DOMAIN orders
      <3>1. orders'[k] = orders[k] /\ orders[k].cause \in DOMAIN orders
        BY <2>1, <1>5, <1>7
      <3>2. orders[k].cause # n + 1 /\ orders[k].cause # 0 BY <3>1, <1>4
      <3>3. buyId[j] # orders[k].cause /\ sellId[j] # orders[k].cause
        BY <2>1, <3>2 DEF SlotParts, HeldUnanswered
      <3> QED BY <3>1, <3>2, <3>3 DEF n
    <2>2. CASE k = n + 1
      <3>1. orders'[k].cause = cause BY <2>2, <1>1, <1>2
      <3> QED BY <3>1
    <2> QED BY <2>1, <2>2, <1>3
  <1> QED BY <1>6, <1>8, <1>9, <1>10, <1>11 DEF SlotParts

LEMMA FillsKept ==
    ASSUME TypeOK, FillsAreReal, Extends(orders, orders'), UNCHANGED fills
    PROVE  FillsAreReal'
  <1> SUFFICES ASSUME NEW j \in DOMAIN fills
               PROVE  fills[j] \in DOMAIN orders' /\ orders'[fills[j]].left < Lots
    BY DEF FillsAreReal
  <1>1. fills[j] \in DOMAIN orders /\ orders[fills[j]].left < Lots BY DEF FillsAreReal
  <1>2. /\ fills[j] \in DOMAIN orders' /\ orders'[fills[j]].left \in Int
        /\ orders'[fills[j]].left <= orders[fills[j]].left
    BY <1>1 DEF Extends
  <1>3. orders[fills[j]].left \in Int BY <1>1, OrdersFacts
  <1> QED BY <1>1, <1>2, <1>3, ExchangeAssumption, SMT

LEMMA ExtendsSelf == ASSUME TypeOK, UNCHANGED orders PROVE Extends(orders, orders')
  BY OrdersFacts, SMT DEF Extends

LEMMA StatusExtends ==
    ASSUME TypeOK, NEW id, NEW st, orders' = [orders EXCEPT ![id].status = st]
    PROVE  Extends(orders, orders') /\ DOMAIN orders' = DOMAIN orders
  <1>1. DOMAIN orders' = DOMAIN orders OBVIOUS
  <1>2. ASSUME NEW k \in DOMAIN orders
        PROVE  /\ orders'[k].side = orders[k].side /\ orders'[k].level = orders[k].level
               /\ orders'[k].cause = orders[k].cause /\ orders'[k].left = orders[k].left
    <2>1. orders'[k] = IF k = id THEN [orders[k] EXCEPT !.status = st] ELSE orders[k]
      BY Zenon
    <2>2. orders[k] \in Orders BY OrdersFacts, SMT DEF TypeOK
    <2> QED BY <2>1, <2>2, SMT DEF Orders
  <1>3. \A k \in DOMAIN orders : /\ orders'[k].left \in Int
                                 /\ orders'[k].left <= orders[k].left
    BY <1>2, OrdersFacts, SMT
  <1> QED BY <1>1, <1>2, <1>3 DEF Extends

\* A step that leaves the orders, the levels and the fills alone.
LEMMA StutterInv ==
    ASSUME TypeOK, GridInv, UNCHANGED <<buyId, sellId, orders, fills>> PROVE GridInv'
  <1>1. Extends(orders, orders') BY ExtendsSelf
  <1>2. SlotParts' BY <1>1, SameOrders DEF GridInv, SlotParts
  <1>3. FillsAreReal' BY <1>1, FillsKept DEF GridInv
  <1> QED BY <1>2, <1>3 DEF GridInv, SlotParts

LEMMA TickLevelInv == ASSUME TypeOK, GridInv, TickLevel PROVE GridInv'
  <1> DEFINE i == call.level
  <1>0. /\ i \in Levels /\ call.mid \in Int /\ call.buys \in Nat /\ call.sells \in Nat
        /\ 0 \in Nat /\ buyId \in [Levels -> Nat] /\ sellId \in [Levels -> Nat]
    BY SMT DEF TypeOK, Calls
  <1>1. SlotParts BY DEF GridInv, SlotParts
  <1>2. CASE PlaceBuyAt(i, call.mid + 10 + 2 * call.buys, 0) /\ UNCHANGED sellId
    <2>1. PICK q \in Rounded(call.mid + 10 + 2 * call.buys) :
            orders' = Append(orders, Order("buy", i, q, 0))
      BY <1>2 DEF PlaceBuyAt
    <2>2. call.mid + 10 + 2 * call.buys \in Int BY <1>0, SMT
    <2>3. q \in Int BY <2>1, <2>2, RoundedInt
    <2>4. \A j \in Levels : /\ buyId'[j] \in {buyId[j], 0}
                                \/ ("buy" = "buy" /\ j = i /\ buyId'[j] = Len(orders) + 1)
                            /\ sellId'[j] \in {sellId[j], 0}
                                \/ ("buy" = "sell" /\ j = i /\ sellId'[j] = Len(orders) + 1)
      BY <1>0, <1>2 DEF PlaceBuyAt
    <2>5. SlotParts' /\ Extends(orders, orders') BY <2>1, <2>3, <2>4, <1>0, <1>1, NewOrder
    <2>6. FillsAreReal' BY <2>5, FillsKept DEF GridInv, TickLevel, market
    <2> QED BY <2>5, <2>6 DEF GridInv, SlotParts
  <1>3. CASE PlaceSellAt(i, call.mid - 10 - 2 * call.sells, 0) /\ UNCHANGED buyId
    <2>1. PICK q \in Rounded(call.mid - 10 - 2 * call.sells) :
            orders' = Append(orders, Order("sell", i, q, 0))
      BY <1>3 DEF PlaceSellAt
    <2>2. call.mid - 10 - 2 * call.sells \in Int BY <1>0, SMT
    <2>3. q \in Int BY <2>1, <2>2, RoundedInt
    <2>4. \A j \in Levels : /\ buyId'[j] \in {buyId[j], 0}
                                \/ ("sell" = "buy" /\ j = i /\ buyId'[j] = Len(orders) + 1)
                            /\ sellId'[j] \in {sellId[j], 0}
                                \/ ("sell" = "sell" /\ j = i /\ sellId'[j] = Len(orders) + 1)
      BY <1>0, <1>3 DEF PlaceSellAt
    <2>5. SlotParts' /\ Extends(orders, orders') BY <2>1, <2>3, <2>4, <1>0, <1>1, NewOrder
    <2>6. FillsAreReal' BY <2>5, FillsKept DEF GridInv, TickLevel, market
    <2> QED BY <2>5, <2>6 DEF GridInv, SlotParts
  <1>4. CASE UNCHANGED <<orders, buyId, sellId>>
    BY <1>4, StutterInv DEF TickLevel, market
  <1> QED
    BY <1>2, <1>3, <1>4 DEF TickLevel, TickBuy, TickSell, TickKeep, Refused

\* onFill: the order is no longer held when its answer is placed.
LEMMA BuyFilledInv ==
    ASSUME TypeOK, GridInv, NEW i \in Levels, NEW id \in DOMAIN orders,
           orders[id].left < Lots, BuyFilled(i, id)
    PROVE  SlotParts' /\ Extends(orders, orders')
  <1>0. /\ SlotParts /\ buyId \in [Levels -> Nat] /\ sellId \in [Levels -> Nat]
        /\ id \in Nat \ {0} /\ id # Len(orders) + 1 /\ orders[id].cause \in Nat
    <2>1. SlotParts BY DEF GridInv, SlotParts
    <2> QED BY <2>1, OrdersFacts, SMT DEF TypeOK
  <1>1. buyId[i] = id /\ orders[id].side = "buy" /\ orders[id].level = i
    BY <1>0 DEF BuyFilled, SlotParts, SlotsMatchOrders, Side, Level
  <1>2. \A j \in Levels : buyId'[j] = IF j = i THEN 0 ELSE buyId[j]
    BY <1>0 DEF BuyFilled
  <1>3. CASE UNCHANGED <<sellId, orders>>
    <2>1. Extends(orders, orders') BY <1>3, ExtendsSelf
    <2> QED BY <2>1, <1>0, <1>2, <1>3, SameOrders
  <1>4. CASE i < Top /\ PlaceSellAt(i + 1, IF mid > 0 THEN Smaller(Price(i + 1), mid)
                                                      ELSE Price(i + 1), id)
    <2> DEFINE p == IF mid > 0 THEN Smaller(Price(i + 1), mid) ELSE Price(i + 1)
    <2>1. i + 1 \in Levels BY <1>4, GridAssumption, SMT DEF Levels
    <2>2. p \in Int BY <2>1, PriceInt, MidInt DEF Smaller
    <2>3. PICK q \in Rounded(p) : orders' = Append(orders, Order("sell", i + 1, q, id))
      BY <1>4 DEF PlaceSellAt
    <2>4. q \in Int BY <2>2, <2>3, RoundedInt
    <2>5. \A j \in Levels : sellId'[j] = IF j = i + 1 THEN Len(orders) + 1 ELSE sellId[j]
      BY <1>0, <1>4 DEF PlaceSellAt
    <2>6. \A j \in Levels : buyId'[j] # id /\ sellId'[j] # id
      <3> TAKE j \in Levels
      <3>1. buyId[j] = id => j = i
        BY <1>0, <1>1 DEF SlotParts, SlotsMatchOrders, Side, Level
      <3>2. sellId[j] # id
        BY <1>0, <1>1 DEF SlotParts, SlotsMatchOrders, Side, Level
      <3> QED BY <3>1, <3>2, <1>0, <1>2, <2>5
    <2>7. \A k \in DOMAIN orders : orders[k].cause # id
      BY <1>0, <1>1 DEF SlotParts, HeldUnanswered
    <2>8. \A j \in Levels : /\ buyId'[j] \in {buyId[j], 0}
                                \/ ("sell" = "buy" /\ j = i + 1 /\ buyId'[j] = Len(orders) + 1)
                            /\ sellId'[j] \in {sellId[j], 0}
                                \/ ("sell" = "sell" /\ j = i + 1 /\ sellId'[j] = Len(orders) + 1)
      BY <1>2, <2>5
    <2>9. /\ "sell" # orders[id].side
          /\ i + 1 = IF orders[id].side = "buy" THEN orders[id].level + 1
                                                ELSE orders[id].level - 1
      BY <1>1
    <2> HIDE DEF p
    <2> QED BY <1>0, <2>1, <2>3, <2>4, <2>6, <2>7, <2>8, <2>9, NewOrder
  <1> QED BY <1>3, <1>4 DEF BuyFilled

LEMMA SellFilledInv ==
    ASSUME TypeOK, GridInv, NEW i \in Levels, NEW id \in DOMAIN orders,
           orders[id].left < Lots, SellFilled(i, id)
    PROVE  SlotParts' /\ Extends(orders, orders')
  <1>0. /\ SlotParts /\ buyId \in [Levels -> Nat] /\ sellId \in [Levels -> Nat]
        /\ id \in Nat \ {0} /\ id # Len(orders) + 1 /\ orders[id].cause \in Nat
    <2>1. SlotParts BY DEF GridInv, SlotParts
    <2> QED BY <2>1, OrdersFacts, SMT DEF TypeOK
  <1>1. sellId[i] = id /\ orders[id].side = "sell" /\ orders[id].level = i
    BY <1>0 DEF SellFilled, SlotParts, SlotsMatchOrders, Side, Level
  <1>2. \A j \in Levels : sellId'[j] = IF j = i THEN 0 ELSE sellId[j]
    BY <1>0 DEF SellFilled
  <1>3. CASE UNCHANGED <<buyId, orders>>
    <2>1. Extends(orders, orders') BY <1>3, ExtendsSelf
    <2> QED BY <2>1, <1>0, <1>2, <1>3, SameOrders
  <1>4. CASE i > 0 /\ PlaceBuyAt(i - 1, IF mid > 0 THEN Larger(Price(i - 1), mid)
                                                   ELSE Price(i - 1), id)
    <2> DEFINE p == IF mid > 0 THEN Larger(Price(i - 1), mid) ELSE Price(i - 1)
    <2>1. i - 1 \in Levels BY <1>4, GridAssumption, SMT DEF Levels
    <2>2. p \in Int BY <2>1, PriceInt, MidInt DEF Larger
    <2>3. PICK q \in Rounded(p) : orders' = Append(orders, Order("buy", i - 1, q, id))
      BY <1>4 DEF PlaceBuyAt
    <2>4. q \in Int BY <2>2, <2>3, RoundedInt
    <2>5. \A j \in Levels : buyId'[j] = IF j = i - 1 THEN Len(orders) + 1 ELSE buyId[j]
      BY <1>0, <1>4 DEF PlaceBuyAt
    <2>6. \A j \in Levels : buyId'[j] # id /\ sellId'[j] # id
      <3> TAKE j \in Levels
      <3>1. sellId[j] = id => j = i
        BY <1>0, <1>1 DEF SlotParts, SlotsMatchOrders, Side, Level
      <3>2. buyId[j] # id
        BY <1>0, <1>1 DEF SlotParts, SlotsMatchOrders, Side, Level
      <3> QED BY <3>1, <3>2, <1>0, <1>2, <2>5
    <2>7. \A k \in DOMAIN orders : orders[k].cause # id
      BY <1>0, <1>1 DEF SlotParts, HeldUnanswered
    <2>8. \A j \in Levels : /\ buyId'[j] \in {buyId[j], 0}
                                \/ ("buy" = "buy" /\ j = i - 1 /\ buyId'[j] = Len(orders) + 1)
                            /\ sellId'[j] \in {sellId[j], 0}
                                \/ ("buy" = "sell" /\ j = i - 1 /\ sellId'[j] = Len(orders) + 1)
      BY <1>2, <2>5
    <2>9. /\ "buy" # orders[id].side
          /\ i - 1 = IF orders[id].side = "buy" THEN orders[id].level + 1
                                                ELSE orders[id].level - 1
      BY <1>1
    <2> HIDE DEF p
    <2> QED BY <1>0, <2>1, <2>3, <2>4, <2>6, <2>7, <2>8, <2>9, NewOrder
  <1> QED BY <1>3, <1>4 DEF SellFilled

LEMMA OnFillInv == ASSUME TypeOK, GridInv, OnFill PROVE GridInv'
  <1> DEFINE id == Head(fills)
  <1>1. /\ fills # << >> /\ fills' = Tail(fills) /\ 1 \in DOMAIN fills /\ id = fills[1]
        /\ Len(fills) \in Nat /\ Len(fills') = Len(fills) - 1
        /\ \A j \in 1..Len(fills') : fills'[j] = fills[j + 1]
        /\ DOMAIN fills = 1..Len(fills) /\ DOMAIN fills' = 1..Len(fills')
    BY SMT DEF TypeOK, OnFill
  <1>2. id \in DOMAIN orders /\ orders[id].left < Lots
    BY <1>1 DEF GridInv, FillsAreReal
  <1> HIDE DEF id
  <1>3. SlotParts' /\ Extends(orders, orders')
    <2>1. CASE \E i \in Levels : BuyFilled(i, id) BY <2>1, <1>2, BuyFilledInv
    <2>2. CASE \E i \in Levels : SellFilled(i, id) BY <2>2, <1>2, SellFilledInv
    <2>3. CASE FillUnknown(id)
      <3>1. UNCHANGED <<buyId, sellId, orders>> BY <2>3 DEF FillUnknown
      <3>2. Extends(orders, orders') BY <3>1, ExtendsSelf
      <3> QED BY <3>1, <3>2, SameOrders DEF GridInv, SlotParts
    <2> QED BY <2>1, <2>2, <2>3 DEF OnFill, id
  <1>4. FillsAreReal'
    <2> SUFFICES ASSUME NEW j \in DOMAIN fills'
                 PROVE  fills'[j] \in DOMAIN orders' /\ orders'[fills'[j]].left < Lots
      BY DEF FillsAreReal
    <2>1. j + 1 \in DOMAIN fills /\ fills'[j] = fills[j + 1] BY <1>1, SMT
    <2>2. fills'[j] \in DOMAIN orders /\ orders[fills'[j]].left < Lots
      BY <2>1 DEF GridInv, FillsAreReal
    <2>3. /\ fills'[j] \in DOMAIN orders' /\ orders'[fills'[j]].left \in Int
          /\ orders'[fills'[j]].left <= orders[fills'[j]].left
      BY <2>2, <1>3 DEF Extends
    <2>4. orders[fills'[j]].left \in Int BY <2>2, OrdersFacts
    <2> QED BY <2>2, <2>3, <2>4, ExchangeAssumption, SMT
  <1> QED BY <1>3, <1>4 DEF GridInv, SlotParts

LEMMA TimerLevelInv == ASSUME TypeOK, GridInv, TimerLevel PROVE GridInv'
  <1> DEFINE i == call.level
  <1>0. i \in Levels /\ buyId \in [Levels -> Nat] /\ sellId \in [Levels -> Nat]
    BY SMT DEF TypeOK, Calls
  <1>1. CASE TimerBuy(i) /\ UNCHANGED sellId
    <2>1. Extends(orders, orders') /\ DOMAIN orders' = DOMAIN orders
      BY <1>1, StatusExtends DEF TimerBuy, CancelOrder
    <2>2. \A j \in Levels : buyId'[j] \in {buyId[j], 0} /\ sellId'[j] \in {sellId[j], 0}
      BY <1>0, <1>1 DEF TimerBuy
    <2>3. SlotParts' BY <2>1, <2>2, SameOrders DEF GridInv, SlotParts
    <2>4. FillsAreReal' BY <2>1, FillsKept DEF GridInv, TimerLevel, market
    <2> QED BY <2>3, <2>4 DEF GridInv, SlotParts
  <1>2. CASE TimerSell(i) /\ UNCHANGED buyId
    <2>1. Extends(orders, orders') /\ DOMAIN orders' = DOMAIN orders
      BY <1>2, StatusExtends DEF TimerSell, CancelOrder
    <2>2. \A j \in Levels : buyId'[j] \in {buyId[j], 0} /\ sellId'[j] \in {sellId[j], 0}
      BY <1>0, <1>2 DEF TimerSell
    <2>3. SlotParts' BY <2>1, <2>2, SameOrders DEF GridInv, SlotParts
    <2>4. FillsAreReal' BY <2>1, FillsKept DEF GridInv, TimerLevel, market
    <2> QED BY <2>3, <2>4 DEF GridInv, SlotParts
  <1>3. CASE TimerKeep(i) BY <1>3, StutterInv DEF TimerKeep, TimerLevel, market
  <1> QED BY <1>1, <1>2, <1>3 DEF TimerLevel

\* A fill takes one lot of one order.
LEMMA FillExtends ==
    ASSUME TypeOK, NEW id \in DOMAIN orders, orders' = [orders EXCEPT ![id].left = @ - 1]
    PROVE  /\ Extends(orders, orders') /\ DOMAIN orders' = DOMAIN orders
           /\ orders'[id].left = orders[id].left - 1
  <1>1. DOMAIN orders' = DOMAIN orders OBVIOUS
  <1>2. ASSUME NEW k \in DOMAIN orders
        PROVE  /\ orders'[k].side = orders[k].side /\ orders'[k].level = orders[k].level
               /\ orders'[k].cause = orders[k].cause
               /\ orders'[k].left = IF k = id THEN orders[k].left - 1 ELSE orders[k].left
    <2>1. orders'[k] = IF k = id THEN [orders[k] EXCEPT !.left = @ - 1] ELSE orders[k]
      BY Zenon
    <2>2. orders[k] \in Orders BY OrdersFacts, SMT DEF TypeOK
    <2> QED BY <2>1, <2>2, SMT DEF Orders
  <1>3. \A k \in DOMAIN orders : /\ orders'[k].left \in Int
                                 /\ orders'[k].left <= orders[k].left
    BY <1>2, OrdersFacts, SMT
  <1> QED BY <1>1, <1>2, <1>3 DEF Extends

LEMMA ExchangeFillInv == ASSUME TypeOK, GridInv, ExchangeFill PROVE GridInv'
  <1>1. PICK id \in DOMAIN orders :
          /\ orders[id].left > 0
          /\ orders' = [orders EXCEPT ![id].left = @ - 1]
          /\ fills' = IF Len(fills) < FillQueueSize THEN Append(fills, id) ELSE fills
    BY DEF ExchangeFill
  <1>2. DOMAIN orders' = DOMAIN orders BY <1>1
  <1>3. orders'[id].left = orders[id].left - 1 BY <1>1, FillExtends
  <1>4. Extends(orders, orders') BY <1>1, FillExtends
  <1>5. SlotParts'
    BY <1>2, <1>4, SameOrders DEF GridInv, SlotParts, ExchangeFill, Strategy
  <1>6. orders'[id].left < Lots
    <2>1. orders[id].left \in 0..Lots
      <3>1. orders[id] \in Orders BY OrdersFacts, SMT DEF TypeOK
      <3> QED BY <3>1, Zenon DEF Orders
    <2> QED BY <2>1, <1>3, ExchangeAssumption, SMT
  <1>7. FillsAreReal'
    <2>1. CASE fills' = fills BY <2>1, <1>4, FillsKept DEF GridInv
    <2>2. CASE fills' = Append(fills, id)
      <3> SUFFICES ASSUME NEW j \in DOMAIN fills'
                   PROVE  fills'[j] \in DOMAIN orders' /\ orders'[fills'[j]].left < Lots
        BY DEF FillsAreReal
      <3>1. (j \in DOMAIN fills /\ fills'[j] = fills[j]) \/ fills'[j] = id
        BY <2>2, SMT DEF TypeOK
      <3>2. CASE fills'[j] = id BY <3>2, <1>2, <1>6
      <3>3. CASE j \in DOMAIN fills /\ fills'[j] = fills[j]
        <4>1. fills[j] \in DOMAIN orders /\ orders[fills[j]].left < Lots
          BY <3>3 DEF GridInv, FillsAreReal
        <4>2. /\ fills[j] \in DOMAIN orders' /\ orders'[fills[j]].left \in Int
              /\ orders'[fills[j]].left <= orders[fills[j]].left
          BY <4>1, <1>4 DEF Extends
        <4>3. orders[fills[j]].left \in Int BY <4>1, OrdersFacts
        <4> QED BY <3>3, <4>1, <4>2, <4>3, ExchangeAssumption, SMT
      <3> QED BY <3>1, <3>2, <3>3
    <2> QED BY <2>1, <2>2, <1>1
  <1> QED BY <1>5, <1>7 DEF GridInv, SlotParts

LEMMA ExchangeCancelInv == ASSUME TypeOK, GridInv, ExchangeCancel PROVE GridInv'
  <1>1. Extends(orders, orders') /\ DOMAIN orders' = DOMAIN orders
    BY StatusExtends DEF ExchangeCancel
  <1>2. SlotParts'
    BY <1>1, SameOrders DEF GridInv, SlotParts, ExchangeCancel, Strategy
  <1>3. FillsAreReal' BY <1>1, FillsKept DEF GridInv, ExchangeCancel, market
  <1> QED BY <1>2, <1>3 DEF GridInv, SlotParts

LEMMA GridStep == TypeOK /\ GridInv /\ [Next]_vars => GridInv'
  <1> SUFFICES ASSUME TypeOK, GridInv, [Next]_vars PROVE GridInv' OBVIOUS
  <1>1. CASE OnLoad \/ OnUnload \/ OnTick \/ OnTimer
    BY <1>1, StutterInv DEF OnLoad, OnUnload, OnTick, OnTimer, market
  <1>2. CASE TickLevel BY <1>2, TickLevelInv
  <1>3. CASE OnFill BY <1>3, OnFillInv
  <1>4. CASE TimerLevel BY <1>4, TimerLevelInv
  <1>5. CASE MidMoves BY <1>5, StutterInv DEF MidMoves, Strategy
  <1>6. CASE ExchangeFill BY <1>6, ExchangeFillInv
  <1>7. CASE ExchangeCancel BY <1>7, ExchangeCancelInv
  <1>8. CASE UNCHANGED vars BY <1>8, StutterInv DEF vars
  <1> QED BY <1>1, <1>2, <1>3, <1>4, <1>5, <1>6, <1>7, <1>8 DEF Next

LEMMA GridInit == Init => GridInv
  <1> SUFFICES ASSUME Init PROVE GridInv OBVIOUS
  <1>1. DOMAIN orders = {} /\ DOMAIN fills = {} BY SMT DEF Init
  <1>2. \A i \in Levels : buyId[i] = 0 /\ sellId[i] = 0 BY DEF Init
  <1> QED BY <1>1, <1>2 DEF GridInv, SlotsMatchOrders, AnsweredOnce, AnswersFollowFills,
                            HeldUnanswered, FillsAreReal

\* The inductive invariant of the levels, the orders and the fills (lines 54-132).
THEOREM GridCorrect == Spec => []GridInv
  <1>1. Init => TypeOK /\ GridInv BY TypeInit, GridInit
  <1>2. TypeOK /\ GridInv /\ [Next]_vars => (TypeOK /\ GridInv)' BY TypeStep, GridStep
  <1> QED BY <1>1, <1>2, PTL DEF Spec

\* Levels and sides never share or exchange orders (lines 163, 183).
THEOREM LevelsOwnOrders == Spec => []SlotsMatchOrders
  <1>1. GridInv => SlotsMatchOrders BY DEF GridInv
  <1> QED BY <1>1, GridCorrect, PTL

\* No order is answered twice, however it is filled (lines 86-105).
THEOREM FillsAnsweredOnce == Spec => []AnsweredOnce
  <1>1. GridInv => AnsweredOnce BY DEF GridInv
  <1> QED BY <1>1, GridCorrect, PTL

\* Every order placed by onFill answers an order the exchange has filled, on the
\* other side and on the level next to it (lines 92, 102).
THEOREM AnswersAreJustified == Spec => []AnswersFollowFills
  <1>1. GridInv => AnswersFollowFills BY DEF GridInv
  <1> QED BY <1>1, GridCorrect, PTL

-----------------------------------------------------------------------------
(* How a step changes the orders and the levels *)

\* A level keeps its id, loses it, or is given that of the new order.
SlotsStep == \A j \in Levels : /\ buyId'[j] \in {buyId[j], 0, Len(orders) + 1}
                               /\ sellId'[j] \in {sellId[j], 0, Len(orders) + 1}

\* A new order, whatever its level: the others stay as they are.
LEMMA Appended ==
    ASSUME TypeOK, NEW o \in Orders, orders' = Append(orders, o)
    PROVE  /\ Len(orders') = Len(orders) + 1 /\ orders'[Len(orders) + 1] = o
           /\ DOMAIN orders' = DOMAIN orders \cup {Len(orders) + 1}
           /\ Extends(orders, orders')
  <1>1. /\ orders' \in Seq(Orders) /\ Len(orders') = Len(orders) + 1
        /\ orders'[Len(orders) + 1] = o
        /\ \A k \in 1..Len(orders) : orders'[k] = orders[k]
    BY AppendProperties DEF TypeOK
  <1>2. DOMAIN orders' = DOMAIN orders \cup {Len(orders) + 1}
    <2>1. DOMAIN orders' = 1..Len(orders') BY <1>1, SMT
    <2> QED BY <2>1, <1>1, OrdersFacts, SMT
  <1>3. \A k \in DOMAIN orders : /\ orders'[k].left \in Int
                                 /\ orders'[k].left <= orders[k].left
    BY <1>1, OrdersFacts, SMT
  <1>4. Extends(orders, orders') BY <1>1, <1>2, <1>3, OrdersFacts DEF Extends
  <1> QED BY <1>1, <1>2, <1>4

LEMMA PlacedBuy ==
    ASSUME TypeOK, NEW i \in Levels, NEW p \in Int, NEW cause \in Nat,
           PlaceBuyAt(i, p, cause)
    PROVE  \E o \in Orders : o.cause = cause /\ orders' = Append(orders, o)
  <1>1. PICK q \in Rounded(p) : orders' = Append(orders, Order("buy", i, q, cause))
    BY DEF PlaceBuyAt
  <1>2. Order("buy", i, q, cause) \in Orders BY <1>1, RoundedInt, OrderType
  <1>3. Order("buy", i, q, cause).cause = cause BY DEF Order
  <1> QED BY <1>1, <1>2, <1>3

LEMMA PlacedSell ==
    ASSUME TypeOK, NEW i \in Levels, NEW p \in Int, NEW cause \in Nat,
           PlaceSellAt(i, p, cause)
    PROVE  \E o \in Orders : o.cause = cause /\ orders' = Append(orders, o)
  <1>1. PICK q \in Rounded(p) : orders' = Append(orders, Order("sell", i, q, cause))
    BY DEF PlaceSellAt
  <1>2. Order("sell", i, q, cause) \in Orders BY <1>1, RoundedInt, OrderType
  <1>3. Order("sell", i, q, cause).cause = cause BY DEF Order
  <1> QED BY <1>1, <1>2, <1>3

\* onFill's order for a buy that was filled: another sell, or nothing.
LEMMA AnswersBuy ==
    ASSUME TypeOK, NEW i \in Levels, NEW id \in Nat, BuyFilled(i, id)
    PROVE  \/ UNCHANGED <<sellId, orders>>
           \/ /\ \E o \in Orders : o.cause = id /\ orders' = Append(orders, o)
              /\ i < Top /\ sellId' = [sellId EXCEPT ![i + 1] = Len(orders) + 1]
  <1> DEFINE p == IF mid > 0 THEN Smaller(Price(i + 1), mid) ELSE Price(i + 1)
  <1>1. CASE i < Top /\ PlaceSellAt(i + 1, p, id)
    <2>1. i + 1 \in Levels BY <1>1, GridAssumption, SMT DEF Levels
    <2>2. p \in Int BY <2>1, PriceInt, MidInt DEF Smaller
    <2>3. \E o \in Orders : o.cause = id /\ orders' = Append(orders, o)
      BY <1>1, <2>1, <2>2, PlacedSell
    <2>4. sellId' = [sellId EXCEPT ![i + 1] = Len(orders) + 1] BY <1>1 DEF PlaceSellAt
    <2> QED BY <1>1, <2>3, <2>4
  <1> QED BY <1>1 DEF BuyFilled

LEMMA AnswersSell ==
    ASSUME TypeOK, NEW i \in Levels, NEW id \in Nat, SellFilled(i, id)
    PROVE  \/ UNCHANGED <<buyId, orders>>
           \/ /\ \E o \in Orders : o.cause = id /\ orders' = Append(orders, o)
              /\ i > 0 /\ buyId' = [buyId EXCEPT ![i - 1] = Len(orders) + 1]
  <1> DEFINE p == IF mid > 0 THEN Larger(Price(i - 1), mid) ELSE Price(i - 1)
  <1>1. CASE i > 0 /\ PlaceBuyAt(i - 1, p, id)
    <2>1. i - 1 \in Levels BY <1>1, GridAssumption, SMT DEF Levels
    <2>2. p \in Int BY <2>1, PriceInt, MidInt DEF Larger
    <2>3. \E o \in Orders : o.cause = id /\ orders' = Append(orders, o)
      BY <1>1, <2>1, <2>2, PlacedBuy
    <2>4. buyId' = [buyId EXCEPT ![i - 1] = Len(orders) + 1] BY <1>1 DEF PlaceBuyAt
    <2> QED BY <1>1, <2>3, <2>4
  <1> QED BY <1>1 DEF SellFilled

\* The fill onFill is given is one of an order the exchange has begun to fill.
LEMMA FillIsReal ==
    ASSUME TypeOK, GridInv, fills # << >>
    PROVE  /\ Head(fills) \in DOMAIN orders /\ Head(fills) \in Nat \ {0}
           /\ orders[Head(fills)].left < Lots
  <1>1. 1 \in DOMAIN fills /\ Head(fills) = fills[1] BY SMT DEF TypeOK
  <1>2. Head(fills) \in DOMAIN orders /\ orders[Head(fills)].left < Lots
    BY <1>1 DEF GridInv, FillsAreReal
  <1>3. DOMAIN orders \subseteq Nat \ {0} BY OrdersFacts, SMT
  <1> QED BY <1>2, <1>3

-----------------------------------------------------------------------------
(* Orders the strategy lets go of *)

LEMMA FillForgets ==
    ASSUME TypeOK, GridInv, OnFill, NEW id \in DOMAIN orders, Held(id), ~Held(id)',
           id # Head(fills)
    PROVE  Len(orders') > Len(orders) /\ orders'[Len(orders')].cause # 0
  <1> DEFINE h == Head(fills)
  <1>0. /\ h \in Nat \ {0} /\ h \in Nat /\ Len(orders) \in Nat
        /\ buyId \in [Levels -> Nat] /\ sellId \in [Levels -> Nat]
    BY FillIsReal, OrdersFacts DEF OnFill, TypeOK
  <1>1. ASSUME NEW o \in Orders, o.cause = h, orders' = Append(orders, o)
        PROVE  Len(orders') > Len(orders) /\ orders'[Len(orders')].cause # 0
    BY <1>0, <1>1, Appended, SMT
  <1>2. PICK j \in Levels : buyId[j] = id \/ sellId[j] = id BY DEF Held
  <1>3. buyId'[j] # id /\ sellId'[j] # id BY <1>2 DEF Held
  <1> HIDE DEF h
  <1>4. CASE \E i \in Levels : BuyFilled(i, h)
    <2>1. PICK i \in Levels : BuyFilled(i, h) BY <1>4
    <2>2. buyId[i] = h /\ \A k \in Levels : k # i => buyId'[k] = buyId[k]
      BY <2>1, <1>0 DEF BuyFilled
    <2>3. sellId' # sellId BY <1>2, <1>3, <2>2 DEF h
    <2> QED BY <2>1, <2>3, <1>0, <1>1, AnswersBuy
  <1>5. CASE \E i \in Levels : SellFilled(i, h)
    <2>1. PICK i \in Levels : SellFilled(i, h) BY <1>5
    <2>2. sellId[i] = h /\ \A k \in Levels : k # i => sellId'[k] = sellId[k]
      BY <2>1, <1>0 DEF SellFilled
    <2>3. buyId' # buyId BY <1>2, <1>3, <2>2 DEF h
    <2> QED BY <2>1, <2>3, <1>0, <1>1, AnswersSell
  <1>6. CASE FillUnknown(h) BY <1>6, <1>2, <1>3 DEF FillUnknown
  <1> QED BY <1>4, <1>5, <1>6 DEF OnFill, h

LEMMA TimerForgets ==
    ASSUME TypeOK, TimerLevel, NEW id \in DOMAIN orders, Held(id), ~Held(id)'
    PROVE  orders'[id].status # "open"
  <1> DEFINE i == call.level
  <1>0. /\ buyId \in [Levels -> Nat] /\ sellId \in [Levels -> Nat]
        /\ orders[id] \in Orders
    BY OrdersFacts, SMT DEF TypeOK
  <1>1. PICK j \in Levels : buyId[j] = id \/ sellId[j] = id BY DEF Held
  <1>2. buyId'[j] # id /\ sellId'[j] # id BY <1>1 DEF Held
  <1>3. ASSUME CancelOrder(id) PROVE orders'[id].status # "open"
    <2>1. PICK st \in {"cancelling", "refused"} :
            orders' = [orders EXCEPT ![id].status = st]
      BY <1>3 DEF CancelOrder
    <2>2. orders'[id] = [orders[id] EXCEPT !.status = st] BY <2>1
    <2>3. orders'[id].status = st BY <2>2, <1>0, SMT DEF Orders
    <2> QED BY <2>3
  <1>4. CASE TimerBuy(i) /\ UNCHANGED sellId
    <2>1. j = i /\ buyId[i] = id BY <1>0, <1>1, <1>2, <1>4 DEF TimerBuy
    <2> QED BY <2>1, <1>3, <1>4 DEF TimerBuy
  <1>5. CASE TimerSell(i) /\ UNCHANGED buyId
    <2>1. j = i /\ sellId[i] = id BY <1>0, <1>1, <1>2, <1>5 DEF TimerSell
    <2> QED BY <2>1, <1>3, <1>5 DEF TimerSell
  <1>6. CASE TimerKeep(i) BY <1>1, <1>2, <1>6 DEF TimerKeep
  <1> QED BY <1>4, <1>5, <1>6 DEF TimerLevel

\* A tick gives an id to a level that has none on that side.
LEMMA TickForgetsNothing ==
    ASSUME TypeOK, TickLevel, NEW id \in DOMAIN orders, Held(id)
    PROVE  Held(id)'
  <1> DEFINE i == call.level
  <1>0. /\ buyId \in [Levels -> Nat] /\ sellId \in [Levels -> Nat] /\ id # 0
    BY OrdersFacts, SMT DEF TypeOK
  <1>1. PICK j \in Levels : buyId[j] = id \/ sellId[j] = id BY DEF Held
  <1>2. buyId'[j] = id \/ sellId'[j] = id
    <2>1. CASE TickBuy(i)
      BY <2>1, <1>0, <1>1 DEF TickBuy, PlaceBuyAt, Refused
    <2>2. CASE TickSell(i)
      BY <2>2, <1>0, <1>1 DEF TickSell, PlaceSellAt, Refused
    <2>3. CASE TickKeep(i) BY <2>3, <1>1 DEF TickKeep
    <2> QED BY <2>1, <2>2, <2>3 DEF TickLevel
  <1> QED BY <1>2 DEF Held

\* An order is let go only when it is filled, cancelled, or displaced by the
\* answer to another fill (lines 86-105, 123, 128, 163, 183).
THEOREM NoOrderIsLost == Spec => ForgottenForAReason
  <1> DEFINE A == \A id \in DOMAIN orders :
                     (Held(id) /\ ~Held(id)') =>
                        \/ fills # << >> /\ Head(fills) = id /\ fills' = Tail(fills)
                        \/ orders'[id].status # "open"
                        \/ Len(orders') > Len(orders) /\ orders'[Len(orders')].cause # 0
  <1>1. TypeOK /\ GridInv /\ [Next]_vars => A
    <2> SUFFICES ASSUME TypeOK, GridInv, [Next]_vars,
                        NEW id \in DOMAIN orders, Held(id), ~Held(id)'
                 PROVE  \/ fills # << >> /\ Head(fills) = id /\ fills' = Tail(fills)
                        \/ orders'[id].status # "open"
                        \/ Len(orders') > Len(orders) /\ orders'[Len(orders')].cause # 0
      OBVIOUS
    <2>1. ~UNCHANGED <<buyId, sellId>> BY DEF Held
    <2>2. CASE OnFill BY <2>2, FillForgets DEF OnFill
    <2>3. CASE TimerLevel BY <2>3, TimerForgets
    <2>4. CASE TickLevel BY <2>4, TickForgetsNothing
    <2> QED BY <2>1, <2>2, <2>3, <2>4 DEF Next, OnLoad, OnUnload, OnTick, OnTimer,
               MidMoves, ExchangeFill, ExchangeCancel, Strategy, vars
  <1>2. Spec => [](TypeOK /\ GridInv) BY TypeCorrect, GridCorrect, PTL
  <1>3. (TypeOK /\ GridInv) /\ [Next]_vars => [A]_vars BY <1>1
  <1>4. Spec => [][A]_vars BY <1>2, <1>3, PTL DEF Spec
  <1> QED BY <1>4 DEF ForgottenForAReason

-----------------------------------------------------------------------------
(* The counters.  CountersAgree is not inductive: a fill is counted when   *)
(* its order is recognised, so the orders that count are those that have   *)
(* been filled and are no longer held, and no step takes one away.         *)

Ticked == {k \in DOMAIN orders : orders[k].cause = 0}
Known == {id \in DOMAIN orders : orders[id].left < Lots /\ ~Held(id)}

CountInv == /\ tickCount = Cardinality(Ticked)
            /\ Len(orders) - tickCount <= fillCount
            /\ fillCount <= Cardinality(Known)

LEMMA FiniteIds == \A s \in Seq(Orders) : IsFiniteSet(DOMAIN s)
  <1> SUFFICES ASSUME NEW s \in Seq(Orders) PROVE IsFiniteSet(DOMAIN s) OBVIOUS
  <1>1. DOMAIN s = 1..Len(s) /\ Len(s) \in Nat BY SMT
  <1> QED BY <1>1, FS_Interval, SMT

\* An order that has been filled and let go of stays so.
LEMMA KnownGrows ==
    ASSUME TypeOK, Extends(orders, orders'), SlotsStep
    PROVE  Known \subseteq Known'
  <1> SUFFICES ASSUME NEW id \in Known
               PROVE  id \in DOMAIN orders' /\ orders'[id].left < Lots /\ ~Held(id)'
    BY DEF Known
  <1>1. id \in DOMAIN orders /\ orders[id].left < Lots /\ ~Held(id) BY DEF Known
  <1>2. /\ id \in DOMAIN orders' /\ orders'[id].left \in Int
        /\ orders'[id].left <= orders[id].left
    BY <1>1 DEF Extends
  <1>3. orders'[id].left < Lots
    <2>1. orders[id].left \in Int BY <1>1, OrdersFacts
    <2> QED BY <2>1, <1>1, <1>2, ExchangeAssumption, SMT
  <1>4. id # 0 /\ id # Len(orders) + 1 BY <1>1, OrdersFacts, SMT
  <1>5. ~Held(id)' BY <1>1, <1>4 DEF Held, SlotsStep
  <1> QED BY <1>2, <1>3, <1>5

\* Nothing placed and nothing counted.
LEMMA CountStays ==
    ASSUME TypeOK, TypeOK', CountInv, Extends(orders, orders'), SlotsStep,
           DOMAIN orders' = DOMAIN orders, UNCHANGED counters
    PROVE  CountInv'
  <1>1. Ticked' = Ticked BY DEF Ticked, Extends
  <1>2. Len(orders') = Len(orders)
    <2>1. DOMAIN orders' = 1..Len(orders') /\ Len(orders') \in Nat BY SMT DEF TypeOK
    <2> QED BY <2>1, OrdersFacts, SMT
  <1>3. Cardinality(Known) <= Cardinality(Known')
    <2>1. IsFiniteSet(Known')
      <3>1. IsFiniteSet(DOMAIN orders') BY FiniteIds DEF TypeOK
      <3> QED BY <3>1, FS_Subset DEF Known
    <2> QED BY <2>1, KnownGrows, FS_Subset
  <1>4. Cardinality(Known) \in Nat /\ Cardinality(Known') \in Nat
    <2>1. IsFiniteSet(DOMAIN orders) /\ IsFiniteSet(DOMAIN orders') BY FiniteIds DEF TypeOK
    <2>2. IsFiniteSet(Known) /\ IsFiniteSet(Known') BY <2>1, FS_Subset DEF Known
    <2> QED BY <2>2, FS_CardinalityType
  <1> QED BY <1>1, <1>2, <1>3, <1>4, SMT DEF CountInv, counters, TypeOK

\* placeBuyAt and placeSellAt called by onTick: one more order, one more tick counted.
LEMMA CountTick ==
    ASSUME TypeOK, TypeOK', CountInv, SlotsStep,
           NEW o \in Orders, o.cause = 0, orders' = Append(orders, o),
           tickCount' = tickCount + 1, UNCHANGED fillCount
    PROVE  CountInv'
  <1> DEFINE n == Len(orders)
  <1>0. /\ Len(orders') = n + 1 /\ orders'[n + 1] = o /\ DOMAIN orders' = DOMAIN orders \cup {n + 1}
        /\ Extends(orders, orders') /\ n \in Nat /\ n + 1 \notin DOMAIN orders
    BY Appended, OrdersFacts, SMT
  <1>1. Ticked' = Ticked \cup {n + 1} BY <1>0 DEF Ticked, Extends
  <1>2. IsFiniteSet(DOMAIN orders) /\ IsFiniteSet(DOMAIN orders') BY FiniteIds DEF TypeOK
  <1>3. IsFiniteSet(Ticked) /\ IsFiniteSet(Known) /\ IsFiniteSet(Known')
    BY <1>2, FS_Subset DEF Ticked, Known
  <1>4. Cardinality(Ticked') = Cardinality(Ticked) + 1
    <2>1. n + 1 \notin Ticked BY <1>0 DEF Ticked
    <2>2. Cardinality(Ticked \cup {n + 1}) = Cardinality(Ticked) + 1
      BY <2>1, <1>3, FS_AddElement
    <2> QED BY <2>2, <1>1
  <1>5. Cardinality(Known) <= Cardinality(Known') BY <1>0, <1>3, KnownGrows, FS_Subset
  <1>6. Cardinality(Known) \in Nat /\ Cardinality(Known') \in Nat
    BY <1>3, FS_CardinalityType
  <1> QED BY <1>0, <1>4, <1>5, <1>6, SMT DEF CountInv, TypeOK

\* onFill: the order recognised is held before the call and not after it.
LEMMA CountFill ==
    ASSUME TypeOK, TypeOK', CountInv, SlotsStep, NEW id \in DOMAIN orders, id # 0,
           orders[id].left < Lots, Held(id), ~Held(id)',
           UNCHANGED orders \/ \E o \in Orders : o.cause = id /\ orders' = Append(orders, o),
           UNCHANGED tickCount, fillCount' = fillCount + 1
    PROVE  CountInv'
  <1>1. /\ Extends(orders, orders') /\ Ticked' = Ticked
        /\ Len(orders') <= Len(orders) + 1 /\ Len(orders') \in Nat
    <2>1. CASE UNCHANGED orders
      BY <2>1, ExtendsSelf, OrdersFacts, SMT DEF Ticked
    <2>2. CASE \E o \in Orders : o.cause = id /\ orders' = Append(orders, o)
      <3>1. PICK o \in Orders : o.cause = id /\ orders' = Append(orders, o) BY <2>2
      <3>2. /\ Len(orders') = Len(orders) + 1 /\ orders'[Len(orders) + 1] = o
            /\ DOMAIN orders' = DOMAIN orders \cup {Len(orders) + 1}
            /\ Extends(orders, orders')
        BY <3>1, Appended
      <3>3. Ticked' = Ticked BY <3>1, <3>2 DEF Ticked, Extends
      <3> QED BY <3>2, <3>3, OrdersFacts, SMT
    <2> QED BY <2>1, <2>2
  <1>2. IsFiniteSet(DOMAIN orders) /\ IsFiniteSet(DOMAIN orders') BY FiniteIds DEF TypeOK
  <1>3. IsFiniteSet(Known) /\ IsFiniteSet(Known') BY <1>2, FS_Subset DEF Known
  <1>4. id \notin Known BY DEF Known
  <1>5. id \in Known'
    <2>1. /\ id \in DOMAIN orders' /\ orders'[id].left \in Int
          /\ orders'[id].left <= orders[id].left
      BY <1>1 DEF Extends
    <2>2. orders[id].left \in Int BY OrdersFacts
    <2>3. orders'[id].left < Lots BY <2>1, <2>2, ExchangeAssumption, SMT
    <2> QED BY <2>1, <2>3 DEF Known
  <1>6. Known \cup {id} \subseteq Known' BY <1>1, <1>5, KnownGrows
  <1>7. Cardinality(Known \cup {id}) = Cardinality(Known) + 1
    BY <1>3, <1>4, FS_AddElement
  <1>8. Cardinality(Known \cup {id}) <= Cardinality(Known') BY <1>3, <1>6, FS_Subset
  <1>9. Cardinality(Known) \in Nat /\ Cardinality(Known') \in Nat
    BY <1>3, FS_CardinalityType
  <1>10. Len(orders) \in Nat BY OrdersFacts
  <1> QED BY <1>1, <1>7, <1>8, <1>9, <1>10, SMT DEF CountInv, TypeOK

LEMMA TickLevelCounts ==
    ASSUME TypeOK, TypeOK', CountInv, TickLevel PROVE CountInv'
  <1> DEFINE i == call.level
  <1>0. /\ i \in Levels /\ call.mid \in Int /\ call.buys \in Nat /\ call.sells \in Nat
        /\ 0 \in Nat /\ buyId \in [Levels -> Nat] /\ sellId \in [Levels -> Nat]
    BY SMT DEF TypeOK, Calls
  <1>1. CASE PlaceBuyAt(i, call.mid + 10 + 2 * call.buys, 0) /\ tickCount' = tickCount + 1
             /\ UNCHANGED sellId
    <2>1. call.mid + 10 + 2 * call.buys \in Int BY <1>0, SMT
    <2>2. PICK o \in Orders : o.cause = 0 /\ orders' = Append(orders, o)
      BY <1>0, <1>1, <2>1, PlacedBuy
    <2>3. SlotsStep BY <1>0, <1>1 DEF SlotsStep, PlaceBuyAt
    <2> QED BY <1>1, <2>2, <2>3, CountTick DEF TickLevel
  <1>2. CASE PlaceSellAt(i, call.mid - 10 - 2 * call.sells, 0) /\ tickCount' = tickCount + 1
             /\ UNCHANGED buyId
    <2>1. call.mid - 10 - 2 * call.sells \in Int BY <1>0, SMT
    <2>2. PICK o \in Orders : o.cause = 0 /\ orders' = Append(orders, o)
      BY <1>0, <1>2, <2>1, PlacedSell
    <2>3. SlotsStep BY <1>0, <1>2 DEF SlotsStep, PlaceSellAt
    <2> QED BY <1>2, <2>2, <2>3, CountTick DEF TickLevel
  <1>3. CASE UNCHANGED <<orders, buyId, sellId, tickCount>>
    <2>1. SlotsStep BY <1>3 DEF SlotsStep
    <2>2. Extends(orders, orders') BY <1>3, ExtendsSelf
    <2> QED BY <1>3, <2>1, <2>2, CountStays DEF TickLevel, counters
  <1> QED BY <1>1, <1>2, <1>3 DEF TickLevel, TickBuy, TickSell, TickKeep, Refused

LEMMA OnFillCounts ==
    ASSUME TypeOK, TypeOK', GridInv, CountInv, OnFill PROVE CountInv'
  <1>0. PICK id \in DOMAIN orders :
        /\ id = Head(fills) /\ id \in Nat /\ id # 0 /\ id # Len(orders) + 1
        /\ orders[id].left < Lots
        /\ buyId \in [Levels -> Nat] /\ sellId \in [Levels -> Nat]
    BY FillIsReal, OrdersFacts, SMT DEF OnFill, TypeOK
  <1>1. /\ \A j \in Levels : buyId[j] = id => Side(id) = "buy" /\ Level(id) = j
        /\ \A j \in Levels : sellId[j] = id => Side(id) = "sell" /\ Level(id) = j
    BY <1>0 DEF GridInv, SlotsMatchOrders
  <1>2. CASE \E i \in Levels : BuyFilled(i, id)
    <2>1. PICK i \in Levels : BuyFilled(i, id) BY <1>2
    <2>2. buyId[i] = id /\ fillCount' = fillCount + 1
          /\ \A j \in Levels : buyId'[j] = IF j = i THEN 0 ELSE buyId[j]
      BY <2>1, <1>0 DEF BuyFilled
    <2>3. \/ UNCHANGED <<sellId, orders>>
          \/ /\ \E o \in Orders : o.cause = id /\ orders' = Append(orders, o)
             /\ sellId' = [sellId EXCEPT ![i + 1] = Len(orders) + 1]
      BY <2>1, <1>0, AnswersBuy
    <2>4. \A j \in Levels : sellId'[j] \in {sellId[j], Len(orders) + 1} BY <2>3, <1>0
    <2>5. SlotsStep BY <2>2, <2>4 DEF SlotsStep
    <2>6. Held(id) BY <2>2 DEF Held
    <2>7. \A j \in Levels : buyId'[j] # id /\ sellId'[j] # id
      <3> TAKE j \in Levels
      <3>1. buyId[j] = id => j = i BY <2>2, <1>1
      <3>2. sellId[j] # id BY <2>2, <1>1
      <3> QED BY <3>1, <3>2, <2>2, <2>4, <1>0
    <2>8. ~Held(id)' BY <2>7 DEF Held
    <2>9. UNCHANGED orders \/ \E o \in Orders : o.cause = id /\ orders' = Append(orders, o)
      BY <2>3
    <2>10. UNCHANGED tickCount BY DEF OnFill
    <2> QED BY <1>0, <2>2, <2>5, <2>6, <2>8, <2>9, <2>10, CountFill
  <1>3. CASE \E i \in Levels : SellFilled(i, id)
    <2>1. PICK i \in Levels : SellFilled(i, id) BY <1>3
    <2>2. sellId[i] = id /\ fillCount' = fillCount + 1
          /\ \A j \in Levels : sellId'[j] = IF j = i THEN 0 ELSE sellId[j]
      BY <2>1, <1>0 DEF SellFilled
    <2>3. \/ UNCHANGED <<buyId, orders>>
          \/ /\ \E o \in Orders : o.cause = id /\ orders' = Append(orders, o)
             /\ buyId' = [buyId EXCEPT ![i - 1] = Len(orders) + 1]
      BY <2>1, <1>0, AnswersSell
    <2>4. \A j \in Levels : buyId'[j] \in {buyId[j], Len(orders) + 1} BY <2>3, <1>0
    <2>5. SlotsStep BY <2>2, <2>4 DEF SlotsStep
    <2>6. Held(id) BY <2>2 DEF Held
    <2>7. \A j \in Levels : buyId'[j] # id /\ sellId'[j] # id
      <3> TAKE j \in Levels
      <3>1. sellId[j] = id => j = i BY <2>2, <1>1
      <3>2. buyId[j] # id BY <2>2, <1>1
      <3> QED BY <3>1, <3>2, <2>2, <2>4, <1>0
    <2>8. ~Held(id)' BY <2>7 DEF Held
    <2>9. UNCHANGED orders \/ \E o \in Orders : o.cause = id /\ orders' = Append(orders, o)
      BY <2>3
    <2>10. UNCHANGED tickCount BY DEF OnFill
    <2> QED BY <1>0, <2>2, <2>5, <2>6, <2>8, <2>9, <2>10, CountFill
  <1>4. CASE FillUnknown(id)
    <2>1. SlotsStep BY <1>4 DEF FillUnknown, SlotsStep
    <2>2. Extends(orders, orders') BY <1>4, ExtendsSelf DEF FillUnknown
    <2> QED BY <1>4, <2>1, <2>2, CountStays DEF FillUnknown, OnFill, counters
  <1> QED BY <1>0, <1>2, <1>3, <1>4 DEF OnFill

\* The timer resets ids and asks for cancellations: nothing is counted.
LEMMA TimerLevelCounts ==
    ASSUME TypeOK, TypeOK', CountInv, TimerLevel PROVE CountInv'
  <1> DEFINE i == call.level
  <1>0. buyId \in [Levels -> Nat] /\ sellId \in [Levels -> Nat] BY DEF TypeOK
  <1>1. Extends(orders, orders') /\ DOMAIN orders' = DOMAIN orders
    BY StatusExtends, ExtendsSelf DEF TimerLevel, TimerBuy, TimerSell, TimerKeep, CancelOrder
  <1>2. SlotsStep
    BY <1>0 DEF SlotsStep, TimerLevel, TimerBuy, TimerSell, TimerKeep
  <1> QED BY <1>1, <1>2, CountStays DEF TimerLevel

\* The exchange fills and cancels: the strategy's members stay as they are.
LEMMA ExchangeCounts ==
    ASSUME TypeOK, TypeOK', CountInv, ExchangeFill \/ ExchangeCancel PROVE CountInv'
  <1>1. Extends(orders, orders') /\ DOMAIN orders' = DOMAIN orders
    <2>1. CASE ExchangeFill BY <2>1, FillExtends DEF ExchangeFill
    <2>2. CASE ExchangeCancel BY <2>2, StatusExtends DEF ExchangeCancel
    <2> QED BY <2>1, <2>2
  <1>2. SlotsStep BY DEF SlotsStep, ExchangeFill, ExchangeCancel, Strategy
  <1> QED BY <1>1, <1>2, CountStays DEF ExchangeFill, ExchangeCancel, Strategy

LEMMA CountStep == TypeOK /\ GridInv /\ CountInv /\ [Next]_vars => CountInv'
  <1> SUFFICES ASSUME TypeOK, GridInv, CountInv, [Next]_vars PROVE CountInv' OBVIOUS
  <1>0. TypeOK' BY TypeStep
  <1>1. CASE UNCHANGED <<buyId, sellId, orders, counters>>
    <2>1. SlotsStep BY <1>1 DEF SlotsStep
    <2>2. Extends(orders, orders') BY <1>1, ExtendsSelf
    <2> QED BY <1>0, <1>1, <2>1, <2>2, CountStays
  <1>2. CASE TickLevel BY <1>0, <1>2, TickLevelCounts
  <1>3. CASE OnFill BY <1>0, <1>3, OnFillCounts
  <1>4. CASE TimerLevel BY <1>0, <1>4, TimerLevelCounts
  <1>5. CASE ExchangeFill \/ ExchangeCancel BY <1>0, <1>5, ExchangeCounts
  <1> QED BY <1>1, <1>2, <1>3, <1>4, <1>5
          DEF Next, OnLoad, OnUnload, OnTick, OnTimer, MidMoves, Strategy, counters, vars

LEMMA CountInit == Init => CountInv
  <1> SUFFICES ASSUME Init PROVE CountInv OBVIOUS
  <1>1. DOMAIN orders = {} /\ Len(orders) = 0 BY SMT DEF Init
  <1>2. Ticked = {} /\ Known = {} BY <1>1 DEF Ticked, Known
  <1> QED BY <1>1, <1>2, FS_EmptySet DEF CountInv, Init

\* The counters agree with what was placed and filled, whatever submitOrder
\* refuses (lines 70, 78, 88, 98): an order is counted as filled once.
THEOREM CountersCorrect == Spec => []CountersAgree
  <1>1. Init => TypeOK /\ GridInv /\ CountInv BY TypeInit, GridInit, CountInit
  <1>2. TypeOK /\ GridInv /\ CountInv /\ [Next]_vars => (TypeOK /\ GridInv /\ CountInv)'
    BY TypeStep, GridStep, CountStep
  <1>3. TypeOK /\ CountInv => CountersAgree
    <2> SUFFICES ASSUME TypeOK, CountInv PROVE CountersAgree OBVIOUS
    <2> DEFINE Filled == {id \in DOMAIN orders : orders[id].left < Lots}
    <2>1. IsFiniteSet(DOMAIN orders) BY FiniteIds DEF TypeOK
    <2>2. IsFiniteSet(Filled) /\ IsFiniteSet(Known) BY <2>1, FS_Subset DEF Known
    <2>3. Known \subseteq Filled BY DEF Known
    <2>4. Cardinality(Known) <= Cardinality(Filled) BY <2>2, <2>3, FS_Subset
    <2>5. Cardinality(Known) \in Nat /\ Cardinality(Filled) \in Nat
      BY <2>2, FS_CardinalityType
    <2>6. fillCount <= Cardinality(Filled)
      BY <2>4, <2>5, SMT DEF CountInv, TypeOK
    <2> QED BY <2>6 DEF CountInv, CountersAgree, Ticked
  <1> QED BY <1>1, <1>2, <1>3, PTL DEF Spec
=============================================================================
