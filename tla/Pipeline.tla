------------------------------ MODULE Pipeline ------------------------------
(***************************************************************************)
(* src/main.cpp: the threads of the program and the queues between them,   *)
(* from the first start() to the last stop(), in replay (runFileReplay)    *)
(* and in live mode (runLive).                                             *)
(*                                                                         *)
(*   feed -> mdQueue -> carrier -> tickQueue -> engine -> orderQueue       *)
(*        -> gateway -> (exchange -> user stream) -> fillQueue -> engine   *)
(*                                                                         *)
(* The carrier takes ticks to the engine, to ZMQ and to the log: in live   *)
(* mode it is the md_bridge thread, in replay the main thread inside the   *)
(* replayer's callback.  Ticks are numbered, and an order has one fill,    *)
(* with the order's number.  The queues are MPMCQueue as                   *)
(* QueueImplementsFifo shows it: a FIFO whose try_push may refuse.  What   *)
(* the engine, the gateway and the user stream do in their threads is in   *)
(* the library: it is taken from strategy_engine.hpp:19-28,                *)
(* strategy.hpp:44-50, order_gateway.hpp:54-152 and                        *)
(* binance_user_stream.hpp:28-35.                                          *)
(***************************************************************************)
EXTENDS Integers, Sequences, FiniteSets

CONSTANTS Modes,          \* the modes the program may be started in
          MdQueueSize,    \* 65536 in the program
          TickQueueSize,  \* 1024
          OrderQueueSize, \* 1024
          FillQueueSize,  \* 1024
          TickBound,      \* the records of the log; bound of the model for a live feed
          OrderBound      \* bound of the model: how many orders are submitted

ASSUME ModeAssumption == \A m \in Modes : /\ m \in [live : BOOLEAN, simulated : BOOLEAN]
                                          /\ ~m.live => m.simulated
ASSUME SizeAssumption == {MdQueueSize, TickQueueSize, OrderQueueSize, FillQueueSize} \subseteq Nat
ASSUME BoundAssumption == {TickBound, OrderBound} \subseteq Nat

VARIABLES
    mode,        \* what main decided at lines 361-363 and 504-513
    running,     \* g_running
    main,        \* the call the main thread is at
    up,          \* the components between their start and the end of their stop
    carrier,     \* where the carrier is
    tick,        \* the tick it carries
    made,        \* ticks the source has produced
    mdQueue, tickQueue, orderQueue, fillQueue,
    engine,      \* whether the engine's thread is inside a callback of a strategy
    processed,   \* ticks the engine has processed
    nextId,      \* the number of the next order (order_id_gen_)
    filled,      \* orders whose fill the engine has processed
    gateway,     \* where the gateway's I/O thread is
    order,       \* the request it works on
    stream,      \* where the user stream's thread is
    report,      \* the order whose fill the user stream works on
    atExchange,  \* orders sent to the exchange and not filled
    closed,      \* orders that ended without a fill: not sent, rejected or cancelled
    lostTicks,   \* ticks for which pushTick answered false
    lostFills,   \* orders for whose fill pushFill answered false
    published    \* orders whose fill was given to publishFill

mainVars == <<mode, main, up>>
carrierVars == <<carrier, tick>>
engineVars == <<engine, processed, nextId, filled>>
gatewayVars == <<gateway, order>>
streamVars == <<stream, report>>
exchangeVars == <<atExchange, closed>>
vars == <<running, mainVars, carrierVars, made, mdQueue, tickQueue, orderQueue, fillQueue,
          engineVars, gatewayVars, streamVars, exchangeVars, lostTicks, lostFills, published>>

\* cfg.live_mode chooses between runLive and runFileReplay; simulate_fills.
Live == mode.live
Simulated == mode.simulated

\* What the engine puts into the shared queue: submitOrder a new order, cancelOrder
\* a cancellation.
Requests == [kind : {"new", "cancel"}, id : Nat]
NoRequest == [kind |-> "none", id |-> 0]

Init == /\ mode \in Modes
        /\ running = TRUE
        /\ main = "startEngine" /\ up = {"zmq", "log"}
        /\ carrier = "off" /\ tick = 0
        /\ made = 0
        /\ mdQueue = << >> /\ tickQueue = << >> /\ orderQueue = << >> /\ fillQueue = << >>
        /\ engine = "idle" /\ processed = {} /\ nextId = 1 /\ filled = {}
        /\ gateway = "idle" /\ order = NoRequest
        /\ stream = "idle" /\ report = 0
        /\ atExchange = {} /\ closed = {}
        /\ lostTicks = {} /\ lostFills = {} /\ published = {}

\* Fault: a push that does not look whether there is room.
PushAnyway(queue, size, item) == Append(queue, item)

\* try_push with its answer looked at nowhere: what does not fit is lost.
Push(queue, size, item) == IF Len(queue) < size THEN Append(queue, item) ELSE queue
Refused(queue, size, item) == IF Len(queue) < size THEN {} ELSE {item}

\* A thread begins a new round only between its component's start and the clearing
\* of running_ with which the component's stop begins.
Serving(component, join) == component \in up /\ main # join

-----------------------------------------------------------------------------
(* Faults.  No specification uses them; each property names one that breaks it. *)

\* The engine stopped in front of the gateway.
ThenEngineFirst ==
    [startEngine |-> "startGateway",
     startGateway |-> IF Live THEN "startStream" ELSE "run",
     startStream |-> "startFeed", startFeed |-> "run",
     run |-> IF Live THEN "stopFeed" ELSE "stopEngine",
     stopFeed |-> "stopStream", stopStream |-> "joinStream", joinStream |-> "stopEngine",
     stopEngine |-> "joinEngine", joinEngine |-> "stopGateway",
     stopGateway |-> "joinGateway", joinGateway |-> "stopZmq",
     stopZmq |-> "stopLog", stopLog |-> "done"]

\* The bridge not started: the queue of the feed is never emptied.
RunWithoutBridge == /\ main = "run" /\ carrier = "off"
                    /\ carrier' = "off"
                    /\ UNCHANGED <<running, mainVars, tick, made, mdQueue, tickQueue, orderQueue>>
                    /\ UNCHANGED <<fillQueue, engineVars, gatewayVars, streamVars, exchangeVars>>
                    /\ UNCHANGED <<lostTicks, lostFills, published>>

\* The tick that has been pushed is pushed again when it has been logged.
WriteTickPushes == /\ carrier = "log" /\ carrier' = IF Live THEN "inner" ELSE "outer"
                   /\ tickQueue' = Push(tickQueue, TickQueueSize, tick)
                   /\ lostTicks' = lostTicks \cup Refused(tickQueue, TickQueueSize, tick)
                   /\ UNCHANGED <<running, mainVars, tick, made, mdQueue, orderQueue, fillQueue>>
                   /\ UNCHANGED <<engineVars, gatewayVars, streamVars, exchangeVars>>
                   /\ UNCHANGED <<lostFills, published>>

\* An order taken from the shared queue is not taken out of it.
TakeOrderKeeps == /\ Serving("gateway", "joinGateway") /\ gateway = "idle" /\ orderQueue # << >>
                  /\ gateway' = "send" /\ order' = Head(orderQueue)
                  /\ UNCHANGED <<running, mainVars, carrierVars, made, mdQueue, tickQueue>>
                  /\ UNCHANGED <<orderQueue, fillQueue, engineVars, streamVars, exchangeVars>>
                  /\ UNCHANGED <<lostTicks, lostFills, published>>

\* A send that fails leaves the thread where it waits for the answer.
SendFailsAndWaits == /\ gateway = "send" /\ order.kind = "new"
                     /\ gateway' = "send" /\ order' = NoRequest
                     /\ closed' = closed \cup {order.id}
                     /\ UNCHANGED <<running, mainVars, carrierVars, made, mdQueue, tickQueue>>
                     /\ UNCHANGED <<orderQueue, fillQueue, engineVars, streamVars, atExchange>>
                     /\ UNCHANGED <<lostTicks, lostFills, published>>

-----------------------------------------------------------------------------
(* main *)

\* handleSignal, at any time.
Signal == /\ running
          /\ running' = FALSE
          /\ UNCHANGED <<mainVars, carrierVars, made, mdQueue, tickQueue, orderQueue, fillQueue>>
          /\ UNCHANGED <<engineVars, gatewayVars, streamVars, exchangeVars>>
          /\ UNCHANGED <<lostTicks, lostFills, published>>

\* The order of the calls of runLive, and of runFileReplay, which has no feed
\* and no user stream.  The stop of a component with a thread clears its running_
\* and then joins the thread.
Then == [startEngine |-> "startGateway",
         startGateway |-> IF Live THEN "startStream" ELSE "run",
         startStream |-> "startFeed", startFeed |-> "run",
         run |-> IF Live THEN "stopFeed" ELSE "stopGateway",
         stopFeed |-> "stopStream", stopStream |-> "joinStream", joinStream |-> "stopGateway",
         stopGateway |-> "joinGateway", joinGateway |-> "stopEngine",
         stopEngine |-> "joinEngine", joinEngine |-> "stopZmq",
         stopZmq |-> "stopLog", stopLog |-> "done"]

MainCall(call) == /\ main = call /\ main' = Then[call]
                  /\ UNCHANGED <<mode, running, tick, made, mdQueue, tickQueue, orderQueue>>
                  /\ UNCHANGED <<fillQueue, engineVars, gatewayVars, streamVars, exchangeVars>>
                  /\ UNCHANGED <<lostTicks, lostFills, published>>

Start(call, component) == /\ MainCall(call)
                          /\ up' = up \cup {component}
                          /\ UNCHANGED carrier

StartEngine == Start("startEngine", "engine")
StartGateway == Start("startGateway", "gateway")
StartFeed == Start("startFeed", "feed")

\* Only with real execution, and it may fail; the program goes on without it.
StartStream == \/ ~Simulated /\ Start("startStream", "stream")
               \/ MainCall("startStream") /\ UNCHANGED <<up, carrier>>

\* The start of the bridge thread, or of the replay loop.
Run == /\ main = "run" /\ carrier = "off"
       /\ carrier' = "outer"
       /\ UNCHANGED <<running, mainVars, tick, made, mdQueue, tickQueue, orderQueue, fillQueue>>
       /\ UNCHANGED <<engineVars, gatewayVars, streamVars, exchangeVars>>
       /\ UNCHANGED <<lostTicks, lostFills, published>>

\* The end of the replay loop, or of the main loop and of md_bridge.join().
Join == /\ carrier = "done" /\ (Live => ~running)
        /\ MainCall("run")
        /\ UNCHANGED <<up, carrier>>

Clear(call) == MainCall(call) /\ UNCHANGED <<up, carrier>>

Stop(call, component) == /\ MainCall(call)
                         /\ up' = up \ {component}
                         /\ UNCHANGED carrier

\* The feed's thread calls nothing of the others, nor have ZMQ and the log a
\* thread that does: their stop is one step.
StopFeed == Stop("stopFeed", "feed")
StopStream == Clear("stopStream")
JoinStream == stream = "idle" /\ Stop("joinStream", "stream")
StopGateway == Clear("stopGateway")
JoinGateway == gateway = "idle" /\ Stop("joinGateway", "gateway")
StopEngine == Clear("stopEngine")
JoinEngine == engine = "idle" /\ Stop("joinEngine", "engine")
StopZmq == Stop("stopZmq", "zmq")
StopLog == Stop("stopLog", "log")

Shutdown == \/ StopFeed \/ StopStream \/ JoinStream \/ StopGateway \/ JoinGateway
            \/ StopEngine \/ JoinEngine \/ StopZmq \/ StopLog
Main == StartEngine \/ StartGateway \/ StartStream \/ StartFeed \/ Run \/ Join \/ Shutdown

-----------------------------------------------------------------------------
(* The carrier: the md_bridge thread, or the replay loop with its callback *)

CarrierStep(from, to) ==
    /\ carrier = from /\ carrier' = to
    /\ UNCHANGED <<running, mainVars, orderQueue, fillQueue, engineVars, gatewayVars, streamVars>>
    /\ UNCHANGED <<exchangeVars, lostFills, published>>

\* The test of g_running: line 426, or 275 with the replayer not exhausted.
EnterLoop == /\ running /\ (Live \/ made < TickBound)
             /\ CarrierStep("outer", "inner")
             /\ UNCHANGED <<tick, made, mdQueue, tickQueue, lostTicks>>

LeaveLoop == /\ ~running \/ (~Live /\ made = TickBound)
             /\ CarrierStep("outer", "done")
             /\ UNCHANGED <<tick, made, mdQueue, tickQueue, lostTicks>>

\* Live: try_pop in the inner loop, which looks at g_running only when it is empty.
PopMarketData == /\ Live /\ mdQueue # << >>
                 /\ CarrierStep("inner", "push")
                 /\ tick' = Head(mdQueue) /\ mdQueue' = Tail(mdQueue)
                 /\ UNCHANGED <<made, tickQueue, lostTicks>>

MarketDataEmpty == /\ Live /\ mdQueue = << >>
                   /\ CarrierStep("inner", "outer")
                   /\ UNCHANGED <<tick, made, mdQueue, tickQueue, lostTicks>>

\* Replay: advanceToNextEvent calls the callback, which looks at g_running again.
Advance == /\ ~Live
           /\ made' = made + 1
           /\ \/ running /\ CarrierStep("inner", "push") /\ tick' = made + 1
              \/ ~running /\ CarrierStep("inner", "outer") /\ UNCHANGED tick
           /\ UNCHANGED <<mdQueue, tickQueue, lostTicks>>

PushTick == /\ CarrierStep("push", "zmq")
            /\ tickQueue' = Push(tickQueue, TickQueueSize, tick)
            /\ lostTicks' = lostTicks \cup Refused(tickQueue, TickQueueSize, tick)
            /\ UNCHANGED <<tick, made, mdQueue>>

PublishTick == /\ CarrierStep("zmq", "log")
               /\ UNCHANGED <<tick, made, mdQueue, tickQueue, lostTicks>>

WriteTick == /\ CarrierStep("log", IF Live THEN "inner" ELSE "outer")
             /\ UNCHANGED <<tick, made, mdQueue, tickQueue, lostTicks>>

Carrier == EnterLoop \/ LeaveLoop \/ PopMarketData \/ MarketDataEmpty \/ Advance
           \/ PushTick \/ PublishTick \/ WriteTick

\* The market data gateway's thread.
Feed == /\ "feed" \in up /\ made < TickBound
        /\ made' = made + 1
        /\ mdQueue' = Push(mdQueue, MdQueueSize, made + 1)
        /\ UNCHANGED <<running, mainVars, carrierVars, tickQueue, orderQueue, fillQueue>>
        /\ UNCHANGED <<engineVars, gatewayVars, streamVars, exchangeVars>>
        /\ UNCHANGED <<lostTicks, lostFills, published>>

-----------------------------------------------------------------------------
(* The engine's dispatch loop: onTick, onFill and onTimer, each of which may
   submit and cancel any number of orders *)

\* The engine's thread, which moves ticks, fills and requests and nothing else.
EngineStep(from, to) ==
    /\ engine = from /\ engine' = to
    /\ UNCHANGED <<running, mainVars, carrierVars, made, mdQueue>>
    /\ UNCHANGED <<gatewayVars, streamVars, exchangeVars, lostTicks, lostFills, published>>

Dispatch == Serving("engine", "joinEngine") /\ EngineStep("idle", "callback")

PopTick == /\ Dispatch /\ tickQueue # << >>
           /\ tickQueue' = Tail(tickQueue)
           /\ processed' = processed \cup {Head(tickQueue)}
           /\ UNCHANGED <<orderQueue, fillQueue, nextId, filled>>

PopFill == /\ Dispatch /\ fillQueue # << >>
           /\ fillQueue' = Tail(fillQueue)
           /\ filled' = filled \cup {Head(fillQueue)}
           /\ UNCHANGED <<tickQueue, orderQueue, processed, nextId>>

Timer == Dispatch /\ UNCHANGED <<tickQueue, orderQueue, fillQueue, processed, nextId, filled>>

\* A request that the shared queue takes.
Request(kind, id) == /\ EngineStep("callback", "callback")
                     /\ Len(orderQueue) < OrderQueueSize
                     /\ orderQueue' = Append(orderQueue, [kind |-> kind, id |-> id])
                     /\ UNCHANGED <<tickQueue, fillQueue, processed, filled>>

\* An order that the risk engine or the queue refuses changes nothing here but the
\* number that the next one gets.
SubmitOrder == /\ nextId <= OrderBound
               /\ Request("new", nextId)
               /\ nextId' = nextId + 1

CancelOrder == \E id \in 1..(nextId - 1) : Request("cancel", id) /\ UNCHANGED nextId

Return == /\ EngineStep("callback", "idle")
          /\ UNCHANGED <<tickQueue, orderQueue, fillQueue, processed, nextId, filled>>

Engine == PopTick \/ PopFill \/ Timer \/ SubmitOrder \/ CancelOrder \/ Return

-----------------------------------------------------------------------------
(* The gateway's I/O thread and the user stream's, with the fill callback *)

\* The gateway's thread, which moves orders and their fills.
GatewayStep(from, to) ==
    /\ gateway = from /\ gateway' = to
    /\ UNCHANGED <<running, mainVars, carrierVars, made, mdQueue, tickQueue>>
    /\ UNCHANGED <<engineVars, streamVars, lostTicks>>

TakeOrder == /\ Serving("gateway", "joinGateway") /\ orderQueue # << >>
             /\ GatewayStep("idle", "send")
             /\ order' = Head(orderQueue) /\ orderQueue' = Tail(orderQueue)
             /\ UNCHANGED <<fillQueue, exchangeVars, lostFills, published>>

\* encodeOrder and the send, which the exchange or the simulation takes ...
SendOrder == /\ order.kind = "new"
             /\ \/ Simulated /\ GatewayStep("send", "fill") /\ UNCHANGED <<order, atExchange>>
                \/ /\ ~Simulated /\ GatewayStep("send", "idle")
                   /\ order' = NoRequest /\ atExchange' = atExchange \cup {order.id}
             /\ UNCHANGED <<orderQueue, fillQueue, closed, lostFills, published>>

\* ... or one of them answers false: the order is rejected.  (An order whose
\* answer is lost on the way back is one that was sent.)
SendFails == /\ order.kind = "new" /\ GatewayStep("send", "idle")
             /\ order' = NoRequest /\ closed' = closed \cup {order.id}
             /\ UNCHANGED <<orderQueue, fillQueue, atExchange, lostFills, published>>

\* A cancellation ends an order that is still at the exchange, or does nothing:
\* it fails too, or comes too late.  (So does, for the places of orders, a
\* modification.)
SendCancel == /\ order.kind = "cancel" /\ GatewayStep("send", "idle")
              /\ order' = NoRequest
              /\ \/ /\ order.id \in atExchange
                    /\ atExchange' = atExchange \ {order.id} /\ closed' = closed \cup {order.id}
                 \/ UNCHANGED exchangeVars
              /\ UNCHANGED <<orderQueue, fillQueue, lostFills, published>>

\* The callback of lines 172-175, called by the gateway's thread: pushFill ...
PushSimFill == /\ GatewayStep("fill", "publish")
               /\ fillQueue' = Push(fillQueue, FillQueueSize, order.id)
               /\ lostFills' = lostFills \cup Refused(fillQueue, FillQueueSize, order.id)
               /\ UNCHANGED <<order, orderQueue, exchangeVars, published>>

\* ... and publishFill.
PublishSimFill == /\ GatewayStep("publish", "idle")
                  /\ published' = published \cup {order.id} /\ order' = NoRequest
                  /\ UNCHANGED <<orderQueue, fillQueue, exchangeVars, lostFills>>

\* The user stream's thread.
StreamStep(from, to) ==
    /\ stream = from /\ stream' = to
    /\ UNCHANGED <<running, mainVars, carrierVars, made, mdQueue, tickQueue, orderQueue>>
    /\ UNCHANGED <<engineVars, gatewayVars, lostTicks>>

\* An execution report read by the user stream: injectFill calls the callback.
ReadReport == /\ Serving("stream", "joinStream") /\ StreamStep("idle", "fill")
              /\ report' \in atExchange /\ atExchange' = atExchange \ {report'}
              /\ UNCHANGED <<fillQueue, closed, lostFills, published>>

\* The report of an order that the exchange rejects or ends: injectOrderReject.
ReadReject == /\ Serving("stream", "joinStream") /\ StreamStep("idle", "idle")
              /\ \E id \in atExchange : atExchange' = atExchange \ {id} /\ closed' = closed \cup {id}
              /\ UNCHANGED <<report, fillQueue, lostFills, published>>

PushRealFill == /\ StreamStep("fill", "publish")
                /\ fillQueue' = Push(fillQueue, FillQueueSize, report)
                /\ lostFills' = lostFills \cup Refused(fillQueue, FillQueueSize, report)
                /\ UNCHANGED <<report, exchangeVars, published>>

PublishRealFill == /\ StreamStep("publish", "idle")
                   /\ published' = published \cup {report} /\ report' = 0
                   /\ UNCHANGED <<fillQueue, exchangeVars, lostFills>>

\* cancelAllPending, in the gateway's stop; each of its cancellations may fail.
CancelPending == /\ main = "joinGateway" /\ GatewayStep("idle", "idle")
                 /\ \E id \in atExchange : atExchange' = atExchange \ {id} /\ closed' = closed \cup {id}
                 /\ UNCHANGED <<order, orderQueue, fillQueue, lostFills, published>>

ProcessOrder == SendOrder \/ SendFails \/ SendCancel \/ PushSimFill \/ PublishSimFill
Gateway == TakeOrder \/ ProcessOrder \/ CancelPending
Stream == ReadReport \/ ReadReject \/ PushRealFill \/ PublishRealFill

\* The program has ended: the model's stuttering step.
Ended == main = "done" /\ UNCHANGED vars

Next == Signal \/ Main \/ Carrier \/ Feed \/ Engine \/ Gateway \/ Stream \/ Ended

Spec == Init /\ [][Next]_vars

\* Every thread runs, and a callback returns.  Nothing is asked of the signal, the
\* feed, the exchange and the strategies.
FairSpec == Spec /\ WF_vars(Main) /\ WF_vars(Carrier) /\ WF_vars(Return)
                 /\ WF_vars(TakeOrder) /\ WF_vars(ProcessOrder)
                 /\ WF_vars(PushRealFill \/ PublishRealFill)

-----------------------------------------------------------------------------
(* Properties *)

MainCalls == {"startEngine", "startGateway", "startStream", "startFeed", "run", "stopFeed",
              "stopStream", "joinStream", "stopGateway", "joinGateway", "stopEngine", "joinEngine",
              "stopZmq", "stopLog", "done"}
Components == {"engine", "gateway", "stream", "feed", "zmq", "log"}

\* Every variable holds what its declaration allows, a queue no more than its
\* capacity.
TypeOK == /\ mode \in Modes /\ running \in BOOLEAN /\ main \in MainCalls /\ up \subseteq Components
          /\ carrier \in {"off", "outer", "inner", "push", "zmq", "log", "done"}
          /\ tick \in Nat /\ made \in Nat
          /\ {mdQueue, tickQueue, fillQueue} \subseteq Seq(Nat) /\ orderQueue \in Seq(Requests)
          /\ Len(mdQueue) <= MdQueueSize /\ Len(tickQueue) <= TickQueueSize
          /\ Len(orderQueue) <= OrderQueueSize /\ Len(fillQueue) <= FillQueueSize
          /\ engine \in {"idle", "callback"} /\ nextId \in 1..(OrderBound + 1)
          /\ gateway \in {"idle", "send", "fill", "publish"} /\ order \in Requests \cup {NoRequest}
          /\ stream \in {"idle", "fill", "publish"} /\ report \in Nat
          /\ \A s \in {processed, filled, atExchange, closed, lostTicks, lostFills, published} :
                s \subseteq Nat

Carrying == carrier \in {"push", "zmq", "log"}

\* How far the main thread is says which components are up and which threads run.
MainInv ==
    /\ main \in MainCalls
    /\ "engine" \in up <=> main \notin {"startEngine", "stopZmq", "stopLog", "done"}
    /\ "gateway" \in up <=> main \in {"startStream", "startFeed", "run", "stopFeed",
                                     "stopStream", "joinStream", "stopGateway", "joinGateway"}
    /\ "stream" \in up => /\ Live
                          /\ main \in {"startFeed", "run", "stopFeed", "stopStream", "joinStream"}
    /\ main \in {"startStream", "startFeed", "stopFeed", "stopStream", "joinStream"} => Live
    /\ "zmq" \in up <=> main \notin {"stopLog", "done"}
    /\ "log" \in up <=> main # "done"
    /\ carrier \notin {"off", "done"} => main = "run"
    /\ engine # "idle" => "engine" \in up
    /\ gateway # "idle" => "gateway" \in up
    /\ stream # "idle" => "stream" \in up

\* No thread calls into a component that has been stopped: the order of the
\* stops in lines 290-294 and 463-470 is the order in which the threads use
\* the components, and no stop returns while its thread is inside the callback.
NoCallAfterStop ==
    /\ Carrying => {"engine", "zmq", "log"} \subseteq up
    /\ engine # "idle" => "engine" \in up
    /\ gateway # "idle" => {"gateway", "engine", "zmq"} \subseteq up
    /\ stream # "idle" => {"stream", "gateway", "engine", "zmq"} \subseteq up

Range(seq) == {seq[i] : i \in DOMAIN seq}
Increasing(seq) == \A i, j \in DOMAIN seq : i < j => seq[i] < seq[j]

\* Between the feed and the strategy ticks are lost, never repeated or
\* reordered: the engine's queue holds ticks it has not processed, in the order
\* of the source, and no tick refused by pushTick (lines 266, 442).
TicksInOrder ==
    /\ Increasing(tickQueue)
    /\ Range(tickQueue) \cap (processed \cup lostTicks) = {}
    /\ processed \cap lostTicks = {}
    /\ \A old \in processed, new \in Range(tickQueue) : old < new

\* The places an order may be in.  One that is submitted while the gateway stops,
\* or after that, stays in the shared queue (lines 466-467, and 292-293).
submitted == 1..(nextId - 1)
Waiting == {r.id : r \in {x \in Range(orderQueue) : x.kind = "new"}}
WithGateway == IF gateway \in {"send", "fill"} /\ order.kind = "new" THEN {order.id} ELSE {}
WithStream == IF stream = "fill" THEN {report} ELSE {}
Places == <<Waiting, WithGateway, atExchange, WithStream, Range(fillQueue), filled, lostFills, closed>>

Offered == Range(fillQueue) \cup filled \cup lostFills
Publishing == (IF gateway = "publish" THEN {order.id} ELSE {})
              \cup (IF stream = "publish" THEN {report} ELSE {})

\* No order is sent twice, filled twice, filled after it was closed, or forgotten
\* on its way through the gateway and back, whichever thread calls the callback
\* (lines 172-182) and whatever fails, is cancelled or is stopped meanwhile; and
\* ZMQ is told of the fills the engine has been offered, whether its queue took
\* them or not.
OrdersConserved ==
    /\ submitted = UNION Range(Places)
    /\ \A i, j \in DOMAIN Places : i # j => Places[i] \cap Places[j] = {}
    /\ published \cup Publishing = Offered

\* An order in the shared queue is taken by the gateway, past sends that fail and
\* cancellations, if the gateway is not stopped first.
OrdersAreSent ==
    \A id \in 1..OrderBound :
        id \in Waiting ~> \/ id \notin Waiting
                         \/ main \in {"joinGateway", "stopEngine", "joinEngine", "stopZmq",
                                      "stopLog", "done"}

\* A signal ends the program, and a replay ends without one: every join returns
\* (lines 275-294, 461-470).  In live mode this needs a feed that pauses; here
\* it has TickBound ticks.
Terminates == (~running \/ ~Live) ~> main = "done"
=============================================================================
