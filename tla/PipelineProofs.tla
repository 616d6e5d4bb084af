--------------------------- MODULE PipelineProofs ---------------------------
(***************************************************************************)
(* Proofs about Pipeline, for both modes, every size of the queues and any *)
(* number of ticks.                                                        *)
(***************************************************************************)
EXTENDS Pipeline, TLAPS

\* What follows each call of the main thread.
LEMMA ThenIs ==
    /\ Then["startEngine"] = "startGateway"
    /\ Then["startGateway"] = IF Live THEN "startStream" ELSE "run"
    /\ Then["startStream"] = "startFeed" /\ Then["startFeed"] = "run"
    /\ Then["run"] = IF Live THEN "stopFeed" ELSE "stopGateway"
    /\ Then["stopFeed"] = "stopStream" /\ Then["stopStream"] = "joinStream"
    /\ Then["joinStream"] = "stopGateway" /\ Then["stopGateway"] = "joinGateway"
    /\ Then["joinGateway"] = "stopEngine" /\ Then["stopEngine"] = "joinEngine"
    /\ Then["joinEngine"] = "stopZmq" /\ Then["stopZmq"] = "stopLog" /\ Then["stopLog"] = "done"
  BY SMT DEF Then

LEMMA MainInit == Init => MainInv
  BY SMT DEF Init, MainInv, MainCalls

\* The starts: a component comes up when its call returns.
LEMMA StartsInv ==
    ASSUME MainInv, StartEngine \/ StartGateway \/ StartFeed \/ StartStream
    PROVE  MainInv'
  <1> USE DEF MainCall, MainInv, MainCalls, Live, engineVars, gatewayVars, streamVars
  <1>1. CASE StartEngine
    BY <1>1, ThenIs, SMT DEF StartEngine, Start
  <1>2. CASE StartGateway
    BY <1>2, ThenIs, SMT DEF StartGateway, Start
  <1>3. CASE StartFeed
    BY <1>3, ThenIs, SMT DEF StartFeed, Start
  <1>4. CASE StartStream
    BY <1>4, ThenIs, SMT DEF StartStream, Start
  <1> QED BY <1>1, <1>2, <1>3, <1>4

\* The stops: a component goes down when its thread is idle.
LEMMA StopsInv == ASSUME MainInv, Shutdown PROVE MainInv'
  <1> USE DEF MainCall, MainInv, MainCalls, Live, engineVars, gatewayVars, streamVars
  <1>1. CASE StopFeed
    BY <1>1, ThenIs, SMT DEF StopFeed, Stop
  <1>2. CASE StopStream
    BY <1>2, ThenIs, SMT DEF StopStream, Clear
  <1>3. CASE JoinStream
    BY <1>3, ThenIs, SMT DEF JoinStream, Stop
  <1>4. CASE StopGateway
    BY <1>4, ThenIs, SMT DEF StopGateway, Clear
  <1>5. CASE JoinGateway
    BY <1>5, ThenIs, SMT DEF JoinGateway, Stop
  <1>6. CASE StopEngine
    BY <1>6, ThenIs, SMT DEF StopEngine, Clear
  <1>7. CASE JoinEngine
    BY <1>7, ThenIs, SMT DEF JoinEngine, Stop
  <1>8. CASE StopZmq
    BY <1>8, ThenIs, SMT DEF StopZmq, Stop
  <1>9. CASE StopLog
    BY <1>9, ThenIs, SMT DEF StopLog, Stop
  <1> QED BY <1>1, <1>2, <1>3, <1>4, <1>5, <1>6, <1>7, <1>8, <1>9 DEF Shutdown

LEMMA RunJoinInv == ASSUME MainInv, Run \/ Join PROVE MainInv'
  <1> USE DEF MainInv, MainCalls, Live, engineVars, gatewayVars, streamVars
  <1>1. CASE Run BY <1>1, SMT DEF Run, mainVars
  <1>2. CASE Join BY <1>2, ThenIs, SMT DEF Join, MainCall
  <1> QED BY <1>1, <1>2

\* The carrier moves only between the start of its loop and its end.
LEMMA CarrierInv == ASSUME MainInv, Carrier PROVE MainInv'
  <1>1. carrier \notin {"off", "done"} /\ UNCHANGED <<mode, main, up, engine, gateway, stream>>
    BY SMT DEF Carrier, EnterLoop, LeaveLoop, PopMarketData, MarketDataEmpty, Advance,
               PushTick, PublishTick, WriteTick, CarrierStep, mainVars, engineVars, gatewayVars,
               streamVars
  <1> QED BY <1>1 DEF MainInv, MainCalls, Live

\* A thread that does not change main, up or the carrier.
LEMMA ThreadsInv ==
    ASSUME MainInv, UNCHANGED <<mode, main, up, carrier>>,
           engine' # "idle" => engine # "idle" \/ "engine" \in up,
           gateway' # "idle" => gateway # "idle" \/ "gateway" \in up,
           stream' # "idle" => stream # "idle" \/ "stream" \in up
    PROVE  MainInv'
  BY DEF MainInv, MainCalls, Live

LEMMA MainStep == MainInv /\ [Next]_vars => MainInv'
  <1> SUFFICES ASSUME MainInv, [Next]_vars PROVE MainInv' OBVIOUS
  <1> USE DEF mainVars, carrierVars, engineVars, gatewayVars, streamVars, Serving
  <1>1. CASE Signal BY <1>1, ThreadsInv DEF Signal
  <1>2. CASE Main BY <1>2, StartsInv, StopsInv, RunJoinInv DEF Main
  <1>3. CASE Carrier BY <1>3, CarrierInv
  <1>4. CASE Feed BY <1>4, ThreadsInv DEF Feed
  <1>5. CASE Engine
    BY <1>5, ThreadsInv
       DEF Engine, PopTick, PopFill, Timer, SubmitOrder, CancelOrder, Return, Request, Dispatch,
           EngineStep
  <1>6. CASE Gateway
    <2>1. UNCHANGED <<mode, main, up, carrier, engine, stream>>
      BY <1>6 DEF Gateway, TakeOrder, ProcessOrder, SendOrder, SendFails, SendCancel, PushSimFill,
                  PublishSimFill, CancelPending, GatewayStep
    <2>2. gateway # "idle" \/ "gateway" \in up \/ gateway' = "idle"
      BY <1>6 DEF Gateway, TakeOrder, ProcessOrder, SendOrder, SendFails, SendCancel, PushSimFill,
                  PublishSimFill, CancelPending, GatewayStep
    <2> QED BY <2>1, <2>2, ThreadsInv
  <1>7. CASE Stream
    BY <1>7, ThreadsInv DEF Stream, ReadReport, ReadReject, PushRealFill, PublishRealFill, StreamStep
  <1>8. CASE Ended \/ UNCHANGED vars BY <1>8, ThreadsInv DEF Ended, vars
  <1> QED BY <1>1, <1>2, <1>3, <1>4, <1>5, <1>6, <1>7, <1>8 DEF Next

\* What is up, and which threads run, at each call of main (lines 253-294, 403-470).
THEOREM MainThreadCorrect == Spec => []MainInv
  BY MainInit, MainStep, PTL DEF Spec

LEMMA MainImpliesNoCall == MainInv => NoCallAfterStop
  <1> SUFFICES ASSUME MainInv PROVE NoCallAfterStop OBVIOUS
  <1>1. Carrying => {"engine", "zmq", "log"} \subseteq up
    BY SMT DEF MainInv, Carrying
  <1>2. gateway # "idle" => {"gateway", "engine", "zmq"} \subseteq up
    BY SMT DEF MainInv
  <1>3. stream # "idle" => {"stream", "gateway", "engine", "zmq"} \subseteq up
    BY SMT DEF MainInv
  <1>4. engine # "idle" => "engine" \in up
    BY SMT DEF MainInv
  <1> QED BY <1>1, <1>2, <1>3, <1>4 DEF NoCallAfterStop

\* The order of the stops is safe: no thread is inside a component, or about to
\* call one, that main has stopped (lines 172-175, 290-294, 461-470).
THEOREM StopsAreSafe == Spec => []NoCallAfterStop
  BY MainThreadCorrect, MainImpliesNoCall, PTL

-----------------------------------------------------------------------------
(* Queues *)

\* What is left of a queue, and what was taken from it.
LEMMA TakenFrom ==
    ASSUME NEW S, NEW q \in Seq(S), q # << >>
    PROVE  /\ Head(q) \in S /\ Head(q) \in Range(q) /\ Tail(q) \in Seq(S)
           /\ Len(Tail(q)) \in Nat /\ Len(Tail(q)) <= Len(q)
           /\ Range(q) = {Head(q)} \cup Range(Tail(q))
<1>1. /\ Len(q) \in Nat \ {0} /\ Head(q) = q[1] /\ Head(q) \in S /\ Tail(q) \in Seq(S)
      /\ DOMAIN q = 1..Len(q) /\ DOMAIN Tail(q) = 1..Len(q) - 1
      /\ \A i \in 1..Len(q) - 1 : Tail(q)[i] = q[i + 1]
      /\ Len(Tail(q)) = Len(q) - 1
  OBVIOUS
<1>2. \A i \in 1..Len(q) : i = 1 \/ i - 1 \in 1..Len(q) - 1 BY <1>1
<1>3. ASSUME NEW n \in Range(q) PROVE n \in {Head(q)} \cup Range(Tail(q))
  <2>1. PICK i \in 1..Len(q) : n = q[i] BY <1>1, <1>3 DEF Range
  <2>2. CASE i = 1 BY <1>1, <2>1, <2>2
  <2>3. CASE i - 1 \in 1..Len(q) - 1
    <3>1. n = Tail(q)[i - 1] BY <1>1, <2>1, <2>3
    <3> QED BY <1>1, <2>3, <3>1 DEF Range
  <2> QED BY <1>2, <2>1, <2>2, <2>3
<1>4. ASSUME NEW n \in Range(Tail(q)) PROVE n \in Range(q)
  <2>1. PICK i \in 1..Len(q) - 1 : n = Tail(q)[i] BY <1>1, <1>4 DEF Range
  <2>2. n = q[i + 1] /\ i + 1 \in 1..Len(q) BY <1>1, <2>1
  <2> QED BY <1>1, <2>2 DEF Range
<1>5. Head(q) \in Range(q) BY <1>1 DEF Range
<1>6. Len(Tail(q)) \in Nat /\ Len(Tail(q)) <= Len(q) BY <1>1
<1> QED BY <1>1, <1>3, <1>4, <1>5, <1>6

\* A queue of increasing numbers: the one taken is less than the others.
LEMMA TailOf ==
    ASSUME NEW q \in Seq(Nat), q # << >>, Increasing(q)
    PROVE  Increasing(Tail(q)) /\ \A n \in Range(Tail(q)) : Head(q) < n
<1>1. /\ Len(q) \in Nat \ {0} /\ Head(q) = q[1]
      /\ DOMAIN q = 1..Len(q) /\ DOMAIN Tail(q) = 1..Len(q) - 1
      /\ \A i \in 1..Len(q) - 1 : Tail(q)[i] = q[i + 1]
  OBVIOUS
<1>2. ASSUME NEW i \in 1..Len(q) - 1, NEW j \in 1..Len(q) - 1, i < j
      PROVE  Tail(q)[i] < Tail(q)[j]
  <2>1. i + 1 \in 1..Len(q) /\ j + 1 \in 1..Len(q) /\ i + 1 < j + 1 BY <1>1, <1>2
  <2>2. q[i + 1] < q[j + 1] BY <1>1, <2>1 DEF Increasing
  <2> QED BY <1>1, <2>2
<1>3. ASSUME NEW n \in Range(Tail(q)) PROVE Head(q) < n
  <2>1. PICK i \in 1..Len(q) - 1 : n = Tail(q)[i] BY <1>1, <1>3 DEF Range
  <2>2. n = q[i + 1] /\ 1 < i + 1 /\ i + 1 \in 1..Len(q) /\ 1 \in 1..Len(q) BY <1>1, <2>1
  <2> QED BY <1>1, <2>2 DEF Increasing
<1> QED BY <1>1, <1>2, <1>3 DEF Increasing

\* What try_push leaves: the queue, or the queue and the element behind it.
LEMMA PushOf ==
    ASSUME NEW q \in Seq(Nat), NEW size \in Nat, NEW n \in Nat, Len(q) <= size
    PROVE  /\ Push(q, size, n) \in Seq(Nat) /\ Len(Push(q, size, n)) <= size
           /\ \/ /\ Push(q, size, n) = q /\ Refused(q, size, n) = {n}
              \/ /\ Push(q, size, n) = Append(q, n) /\ Refused(q, size, n) = {}
                 /\ Range(Push(q, size, n)) = Range(q) \cup {n}
           /\ Increasing(q) /\ (\A m \in Range(q) : m < n) => Increasing(Push(q, size, n))
<1>1. CASE Len(q) < size
  <2> DEFINE a == Append(q, n)
  <2>1. /\ a \in Seq(Nat) /\ Len(q) \in Nat /\ Len(a) = Len(q) + 1
        /\ DOMAIN q = 1..Len(q) /\ DOMAIN a = 1..Len(q) + 1
        /\ a[Len(q) + 1] = n /\ \A i \in 1..Len(q) : a[i] = q[i]
    OBVIOUS
  <2>2. Push(q, size, n) = a /\ Refused(q, size, n) = {} BY <1>1 DEF Push, Refused
  <2> HIDE DEF a
  <2>3. \A i \in 1..Len(q) + 1 : i \in 1..Len(q) \/ i = Len(q) + 1 BY <2>1
  <2>4. 1..Len(q) \subseteq 1..Len(q) + 1 /\ Len(q) + 1 \in 1..Len(q) + 1 BY <2>1
  <2>5. Range(a) = Range(q) \cup {n} BY <2>1, <2>3, <2>4 DEF Range
  <2>6. ASSUME Increasing(q), \A m \in Range(q) : m < n PROVE Increasing(a)
    <3>1. \A i \in 1..Len(q) : q[i] \in Range(q) BY <2>1 DEF Range
    <3>2. SUFFICES ASSUME NEW i \in 1..Len(q) + 1, NEW j \in 1..Len(q) + 1, i < j
                   PROVE  a[i] < a[j]
      BY <2>1 DEF Increasing
    <3>3. i \in 1..Len(q) BY <2>1, <3>2
    <3>4. CASE j \in 1..Len(q) BY <2>1, <2>6, <3>2, <3>3, <3>4 DEF Increasing
    <3>5. CASE j = Len(q) + 1 BY <2>1, <2>6, <3>1, <3>3, <3>5
    <3> QED BY <2>3, <3>4, <3>5
  <2>7. Len(a) <= size BY <1>1, <2>1
  <2> QED BY <2>1, <2>2, <2>5, <2>6, <2>7 DEF a
<1>2. CASE ~(Len(q) < size) BY <1>2 DEF Push, Refused
<1> QED BY <1>1, <1>2

-----------------------------------------------------------------------------
(* Type correctness *)

QueuesOK == /\ mdQueue \in Seq(Nat) /\ tickQueue \in Seq(Nat)
            /\ orderQueue \in Seq(Requests) /\ fillQueue \in Seq(Nat)
            /\ Len(mdQueue) <= MdQueueSize /\ Len(tickQueue) <= TickQueueSize
            /\ Len(orderQueue) <= OrderQueueSize /\ Len(fillQueue) <= FillQueueSize

\* The variables that are not queues.
RestOK == /\ mode \in Modes /\ running \in BOOLEAN /\ main \in MainCalls /\ up \subseteq Components
          /\ carrier \in {"off", "outer", "inner", "push", "zmq", "log", "done"}
          /\ tick \in Nat /\ made \in Nat
          /\ engine \in {"idle", "callback"} /\ nextId \in 1..(OrderBound + 1)
          /\ gateway \in {"idle", "send", "fill", "publish"} /\ order \in Requests \cup {NoRequest}
          /\ stream \in {"idle", "fill", "publish"} /\ report \in Nat
          /\ processed \subseteq Nat /\ filled \subseteq Nat /\ atExchange \subseteq Nat
          /\ closed \subseteq Nat /\ lostTicks \subseteq Nat /\ lostFills \subseteq Nat
          /\ published \subseteq Nat

\* The type invariant, queues and the rest apart.
LEMMA TypeParts == TypeOK <=> QueuesOK /\ RestOK
  BY DEF TypeOK, QueuesOK, RestOK

\* main's calls move no tick, no order and no fill.
LEMMA MainFrame ==
    ASSUME Main
    PROVE  /\ UNCHANGED <<mode, running, tick, made, mdQueue, tickQueue, orderQueue, fillQueue>>
           /\ UNCHANGED <<engine, processed, nextId, filled, gateway, order, stream, report>>
           /\ UNCHANGED <<atExchange, closed, lostTicks, lostFills, published>>
           /\ carrier' = carrier \/ carrier' = "outer"
           /\ up' \subseteq up \/ \E c \in Components : up' = up \cup {c}
           /\ "feed" \in up' => "feed" \in up \/ main = "startFeed"
           /\ main' = main \/ \E call \in MainCalls \ {"done"} : main = call /\ main' = Then[call]
<1> USE DEF mainVars, engineVars, gatewayVars, streamVars, exchangeVars, MainCall, MainCalls, Components
<1>1. CASE StartEngine \/ StartGateway \/ StartFeed \/ StartStream
  BY <1>1, SMT DEF StartEngine, StartGateway, StartFeed, StartStream, Start
<1>2. CASE Run BY <1>2, SMT DEF Run
<1>3. CASE Join BY <1>3, SMT DEF Join
<1>4. CASE StopStream \/ StopGateway \/ StopEngine
  BY <1>4, SMT DEF StopStream, StopGateway, StopEngine, Clear
<1>5. CASE StopFeed \/ StopZmq \/ StopLog
  BY <1>5, SMT DEF StopFeed, StopZmq, StopLog, Stop
<1>6. CASE JoinStream \/ JoinGateway \/ JoinEngine
  BY <1>6, SMT DEF JoinStream, JoinGateway, JoinEngine, Stop
<1> QED BY <1>1, <1>2, <1>3, <1>4, <1>5, <1>6 DEF Main, Shutdown

\* Nor do they break the types.
LEMMA MainTypes == ASSUME QueuesOK, RestOK, Main PROVE QueuesOK' /\ RestOK'
<1>1. main' \in MainCalls
  <2>1. \A call \in MainCalls \ {"done"} : Then[call] \in MainCalls BY SMT, ThenIs DEF MainCalls
  <2> QED BY <2>1, MainFrame DEF RestOK
<1>2. up' \subseteq Components BY MainFrame DEF RestOK
<1> QED BY <1>1, <1>2, MainFrame DEF QueuesOK, RestOK

\* The carrier and the feed touch ticks and nothing else.
LEMMA CarrierFrame ==
    ASSUME Carrier \/ Feed
    PROVE  /\ UNCHANGED <<mode, running, main, up, orderQueue, fillQueue, engine, processed, nextId>>
           /\ UNCHANGED <<filled, gateway, order, stream, report, atExchange, closed, lostFills>>
           /\ UNCHANGED published
<1> USE DEF mainVars, carrierVars, engineVars, gatewayVars, streamVars, exchangeVars
<1>1. CASE Carrier
  BY <1>1, SMT DEF Carrier, EnterLoop, LeaveLoop, PopMarketData, MarketDataEmpty, Advance, PushTick,
                   PublishTick, WriteTick, CarrierStep
<1>2. CASE Feed BY <1>2 DEF Feed
<1> QED BY <1>1, <1>2

\* The ticks, with the carrier's place.
LEMMA CarrierTypes ==
    ASSUME QueuesOK, RestOK, Carrier \/ Feed
    PROVE  QueuesOK' /\ RestOK'
<1> DEFINE TicksOK == /\ mdQueue \in Seq(Nat) /\ Len(mdQueue) <= MdQueueSize
                      /\ tickQueue \in Seq(Nat) /\ Len(tickQueue) <= TickQueueSize
                      /\ carrier \in {"off", "outer", "inner", "push", "zmq", "log", "done"}
                      /\ tick \in Nat /\ made \in Nat /\ lostTicks \subseteq Nat
<1>1. TicksOK BY DEF QueuesOK, RestOK
<1> SUFFICES TicksOK' BY CarrierFrame DEF QueuesOK, RestOK
<1> USE SizeAssumption DEF CarrierStep, carrierVars
<1>2. ASSUME NEW q \in Seq(Nat), NEW size \in Nat, NEW n \in Nat, Len(q) <= size
      PROVE  /\ Push(q, size, n) \in Seq(Nat) /\ Len(Push(q, size, n)) <= size
             /\ Refused(q, size, n) \subseteq Nat
  BY <1>2, PushOf DEF Refused
<1>3. CASE EnterLoop \/ LeaveLoop \/ MarketDataEmpty \/ PublishTick \/ WriteTick
  BY <1>1, <1>3 DEF EnterLoop, LeaveLoop, MarketDataEmpty, PublishTick, WriteTick
<1>4. CASE PopMarketData
  <2>1. Head(mdQueue) \in Nat /\ Tail(mdQueue) \in Seq(Nat) /\ Len(Tail(mdQueue)) <= MdQueueSize
    <3>1. mdQueue # << >> /\ Len(mdQueue) \in Nat BY <1>1, <1>4 DEF PopMarketData
    <3> QED BY <1>1, <3>1, TakenFrom
  <2> QED BY <1>1, <1>4, <2>1 DEF PopMarketData
<1>5. CASE Advance
  <2>1. /\ made' = made + 1 /\ (tick' = made + 1 \/ tick' = tick)
        /\ carrier' \in {"push", "outer"} /\ UNCHANGED <<mdQueue, tickQueue, lostTicks>>
    BY <1>5 DEF Advance
  <2> QED BY <1>1, <2>1
<1>6. CASE PushTick BY <1>1, <1>2, <1>6 DEF PushTick
<1>7. CASE Feed BY <1>1, <1>2, <1>7 DEF Feed
<1> QED BY <1>3, <1>4, <1>5, <1>6, <1>7 DEF Carrier

\* The engine's thread takes ticks and fills and appends requests.
LEMMA EngineTypes == ASSUME QueuesOK, RestOK, Engine PROVE QueuesOK' /\ RestOK'
<1> USE DEF mainVars, carrierVars, gatewayVars, streamVars, exchangeVars, EngineStep, Dispatch
<1> USE DEF QueuesOK, RestOK
<1>1. CASE PopTick
  <2>1. /\ Head(tickQueue) \in Nat /\ Tail(tickQueue) \in Seq(Nat)
        /\ Len(Tail(tickQueue)) <= TickQueueSize
    <3>1. tickQueue # << >> /\ Len(tickQueue) \in Nat BY <1>1 DEF PopTick
    <3> QED BY SizeAssumption, <3>1, TakenFrom
  <2> QED BY <1>1, <2>1 DEF PopTick
<1>2. CASE PopFill
  <2>1. /\ Head(fillQueue) \in Nat /\ Tail(fillQueue) \in Seq(Nat)
        /\ Len(Tail(fillQueue)) <= FillQueueSize
    <3>1. fillQueue # << >> /\ Len(fillQueue) \in Nat BY <1>2 DEF PopFill
    <3> QED BY SizeAssumption, <3>1, TakenFrom
  <2> QED BY <1>2, <2>1 DEF PopFill
<1>3. CASE Timer \/ Return BY <1>3 DEF Timer, Return
<1>4. ASSUME NEW kind \in {"new", "cancel"}, NEW id \in Nat, Len(orderQueue) < OrderQueueSize
      PROVE  /\ Append(orderQueue, [kind |-> kind, id |-> id]) \in Seq(Requests)
             /\ Len(Append(orderQueue, [kind |-> kind, id |-> id])) <= OrderQueueSize
  <2>1. [kind |-> kind, id |-> id] \in Requests BY DEF Requests
  <2> QED BY SizeAssumption, <1>4, <2>1
<1>5. nextId \in Nat /\ OrderBound \in Nat /\ 1..(nextId - 1) \subseteq Nat BY BoundAssumption
<1>6. CASE SubmitOrder
  <2>1. nextId + 1 \in 1..(OrderBound + 1) BY <1>5, <1>6 DEF SubmitOrder
  <2> QED BY <1>4, <1>5, <1>6, <2>1 DEF SubmitOrder, Request
<1>7. CASE CancelOrder
  <2>1. PICK id \in 1..(nextId - 1) : Request("cancel", id) /\ UNCHANGED nextId
    BY <1>7 DEF CancelOrder
  <2> QED BY <1>4, <1>5, <2>1 DEF Request
<1> QED BY <1>1, <1>2, <1>3, <1>6, <1>7 DEF Engine

\* The gateway's thread takes requests and appends fills.
LEMMA GatewayTypes == ASSUME QueuesOK, RestOK, Gateway PROVE QueuesOK' /\ RestOK'
<1> USE DEF mainVars, carrierVars, engineVars, streamVars, exchangeVars, GatewayStep
<1> USE DEF QueuesOK, RestOK
<1>1. order.id \in Nat /\ NoRequest \in Requests \cup {NoRequest} BY DEF Requests, NoRequest
<1>2. CASE TakeOrder
  <2>1. /\ Head(orderQueue) \in Requests /\ Tail(orderQueue) \in Seq(Requests)
        /\ Len(Tail(orderQueue)) <= OrderQueueSize
    <3>1. orderQueue # << >> /\ Len(orderQueue) \in Nat BY <1>2 DEF TakeOrder
    <3> QED BY SizeAssumption, <3>1, TakenFrom
  <2> QED BY <1>2, <2>1 DEF TakeOrder
<1>3. CASE SendOrder BY <1>1, <1>3 DEF SendOrder
<1>4. CASE SendFails BY <1>1, <1>4 DEF SendFails
<1>5. CASE SendCancel BY <1>1, <1>5 DEF SendCancel
<1>6. CASE PushSimFill
  <2>1. /\ Push(fillQueue, FillQueueSize, order.id) \in Seq(Nat)
        /\ Len(Push(fillQueue, FillQueueSize, order.id)) <= FillQueueSize
        /\ Refused(fillQueue, FillQueueSize, order.id) \subseteq Nat
    BY SizeAssumption, <1>1, PushOf DEF Refused
  <2> QED BY <1>6, <2>1 DEF PushSimFill
<1>7. CASE PublishSimFill BY <1>1, <1>7 DEF PublishSimFill
<1>8. CASE CancelPending BY <1>8 DEF CancelPending
<1> QED BY <1>2, <1>3, <1>4, <1>5, <1>6, <1>7, <1>8 DEF Gateway, ProcessOrder

\* So does the user stream's, with what the exchange reports.
LEMMA StreamTypes == ASSUME QueuesOK, RestOK, Stream PROVE QueuesOK' /\ RestOK'
<1> USE DEF mainVars, carrierVars, engineVars, gatewayVars, exchangeVars, StreamStep
<1> USE DEF QueuesOK, RestOK
<1>1. CASE ReadReport BY <1>1 DEF ReadReport
<1>2. CASE ReadReject BY <1>2 DEF ReadReject
<1>3. CASE PushRealFill
  <2>1. /\ Push(fillQueue, FillQueueSize, report) \in Seq(Nat)
        /\ Len(Push(fillQueue, FillQueueSize, report)) <= FillQueueSize
        /\ Refused(fillQueue, FillQueueSize, report) \subseteq Nat
    BY SizeAssumption, PushOf DEF Refused
  <2> QED BY <1>3, <2>1 DEF PushRealFill
<1>4. CASE PublishRealFill BY <1>4 DEF PublishRealFill
<1> QED BY <1>1, <1>2, <1>3, <1>4 DEF Stream

\* Every thread keeps the types, and no queue outgrows its capacity.
THEOREM TypeCorrect == Spec => []TypeOK
<1>1. Init => TypeOK
  BY SizeAssumption, BoundAssumption DEF Init, TypeOK, MainCalls, Components
<1>2. TypeOK /\ [Next]_vars => TypeOK'
  <2> SUFFICES ASSUME QueuesOK, RestOK, [Next]_vars PROVE QueuesOK' /\ RestOK'
    <3>1. QueuesOK' /\ RestOK' => TypeOK' BY DEF TypeOK, QueuesOK, RestOK
    <3> QED BY TypeParts, <3>1
  <2>1. CASE Main BY <2>1, MainTypes
  <2>2. CASE Carrier \/ Feed BY <2>2, CarrierTypes
  <2>3. CASE Engine BY <2>3, EngineTypes
  <2>4. CASE Gateway BY <2>4, GatewayTypes
  <2>5. CASE Stream BY <2>5, StreamTypes
  <2>6. CASE Signal \/ Ended \/ UNCHANGED vars
    BY <2>6 DEF Signal, Ended, vars, mainVars, carrierVars, engineVars, gatewayVars, streamVars,
                exchangeVars, QueuesOK, RestOK
  <2> QED BY <2>1, <2>2, <2>3, <2>4, <2>5, <2>6 DEF Next
<1> QED BY <1>1, <1>2, PTL DEF Spec

-----------------------------------------------------------------------------
(* The order of ticks *)

\* Ticks move from the source to the strategy without overtaking: those behind
\* the carrier are older than the one it carries, those in front are newer;
\* only the feed of the live mode uses its queue.
TickChain ==
    /\ tick <= made
    /\ "feed" \in up \/ mdQueue # << >> => Live
    /\ Increasing(mdQueue) /\ \A n \in Range(mdQueue) : tick < n /\ n <= made
    /\ \A n \in Range(tickQueue) \cup processed \cup lostTicks :
          n <= tick /\ (carrier = "push" => n # tick)

TicksInv == TickChain /\ TicksInOrder

\* No step of any thread breaks the chain.
LEMMA TicksStep == QueuesOK /\ RestOK /\ MainInv /\ TicksInv /\ [Next]_vars => TicksInv'
<1> SUFFICES ASSUME QueuesOK, RestOK, MainInv, TicksInv, [Next]_vars PROVE TicksInv' OBVIOUS
<1> USE DEF mainVars, carrierVars, engineVars, gatewayVars, streamVars, exchangeVars, CarrierStep
<1>1. /\ mdQueue \in Seq(Nat) /\ tickQueue \in Seq(Nat) /\ tick \in Nat /\ made \in Nat
      /\ Len(mdQueue) <= MdQueueSize /\ Len(tickQueue) <= TickQueueSize
      /\ MdQueueSize \in Nat /\ TickQueueSize \in Nat
      /\ processed \subseteq Nat /\ lostTicks \subseteq Nat
      /\ Range(mdQueue) \subseteq Nat /\ Range(tickQueue) \subseteq Nat
  BY SizeAssumption DEF QueuesOK, RestOK, Range
<1>2. ASSUME UNCHANGED <<mode, mdQueue, tickQueue, tick, made, processed, lostTicks>>,
             carrier' = "push" => carrier = "push",
             "feed" \in up' => "feed" \in up \/ Live
      PROVE  TicksInv'
  BY <1>2 DEF TicksInv, TickChain, TicksInOrder, Live
<1>3. CASE PopMarketData
  <2>1. /\ Head(mdQueue) \in Range(mdQueue) /\ tick' = Head(mdQueue) /\ mdQueue' = Tail(mdQueue)
        /\ Increasing(mdQueue') /\ \A n \in Range(mdQueue') : tick' < n
        /\ Range(mdQueue') \subseteq Range(mdQueue)
        /\ UNCHANGED <<made, tickQueue, processed, lostTicks>>
    <3>1. /\ mdQueue # << >> /\ tick' = Head(mdQueue) /\ mdQueue' = Tail(mdQueue)
          /\ UNCHANGED <<made, tickQueue, processed, lostTicks>>
      BY <1>3 DEF PopMarketData
    <3>2. Increasing(mdQueue) BY DEF TicksInv, TickChain
    <3>3. /\ Head(mdQueue) \in Range(mdQueue)
          /\ Range(Tail(mdQueue)) \subseteq Range(mdQueue)
      BY <1>1, <3>1, TakenFrom
    <3>4. Increasing(Tail(mdQueue)) /\ \A n \in Range(Tail(mdQueue)) : Head(mdQueue) < n
      BY <1>1, <3>1, <3>2, TailOf
    <3> QED BY <3>1, <3>3, <3>4
  <2>2. tick' \in Nat /\ tick < tick' /\ tick' <= made
    BY <1>1, <2>1 DEF TicksInv, TickChain
  <2>3. ASSUME NEW n \in Range(tickQueue) \cup processed \cup lostTicks
        PROVE  n <= tick' /\ n # tick'
    <3>1. n \in Nat /\ n <= tick BY <1>1 DEF TicksInv, TickChain
    <3> QED BY <1>1, <2>2, <3>1
  <2>4. UNCHANGED <<mode, up>> BY <1>3 DEF PopMarketData
  <2>5. TickChain' BY <1>1, <2>1, <2>2, <2>3, <2>4 DEF TicksInv, TickChain, Live
  <2>6. TicksInOrder' BY <2>1 DEF TicksInv, TicksInOrder
  <2> QED BY <2>5, <2>6 DEF TicksInv
<1>4. CASE Advance
  <2>1. ~Live /\ UNCHANGED <<mode, up, mdQueue, tickQueue, processed, lostTicks>>
    BY <1>4 DEF Advance
  <2>2. Range(mdQueue) = {} /\ Increasing(mdQueue)
    BY <2>1 DEF TicksInv, TickChain, Range, Increasing
  <2>3. ASSUME made' = made + 1, tick' = made + 1 \/ (tick' = tick /\ carrier' = "outer")
        PROVE  TicksInv'
    <3>1. ASSUME NEW n \in Range(tickQueue) \cup processed \cup lostTicks
          PROVE  n <= tick' /\ (carrier' = "push" => n # tick')
      <4>1. n \in Nat /\ n <= tick /\ tick <= made BY <1>1 DEF TicksInv, TickChain
      <4> QED BY <1>1, <2>3, <4>1
    <3>2. tick' <= made' BY <1>1, <2>3 DEF TicksInv, TickChain
    <3>3. TickChain' BY <2>1, <2>2, <3>1, <3>2 DEF TicksInv, TickChain, Live
    <3>4. TicksInOrder' BY <2>1 DEF TicksInv, TicksInOrder
    <3> QED BY <3>3, <3>4 DEF TicksInv
  <2>4. made' = made + 1 BY <1>4 DEF Advance
  <2>5. tick' = made + 1 \/ (tick' = tick /\ carrier' = "outer") BY <1>4 DEF Advance
  <2> QED BY <2>3, <2>4, <2>5
<1>5. CASE PushTick
  <2>1. /\ carrier = "push" /\ carrier' = "zmq"
        /\ UNCHANGED <<mode, up, tick, made, mdQueue, processed>>
        /\ tickQueue' = Push(tickQueue, TickQueueSize, tick)
        /\ lostTicks' = lostTicks \cup Refused(tickQueue, TickQueueSize, tick)
    BY <1>5 DEF PushTick
  <2>2. ASSUME NEW n \in Range(tickQueue) \cup processed \cup lostTicks PROVE n < tick
    <3>1. n \in Nat /\ n <= tick /\ n # tick BY <1>1, <2>1 DEF TicksInv, TickChain
    <3> QED BY <1>1, <3>1
  <2>3. /\ Increasing(tickQueue')
        /\ \/ tickQueue' = tickQueue /\ lostTicks' = lostTicks \cup {tick}
           \/ Range(tickQueue') = Range(tickQueue) \cup {tick} /\ lostTicks' = lostTicks
    <3>1. /\ Increasing(tickQueue) /\ \A n \in Range(tickQueue) : n < tick
      BY <2>2 DEF TicksInv, TicksInOrder
    <3>2. /\ Increasing(Push(tickQueue, TickQueueSize, tick))
          /\ \/ /\ Push(tickQueue, TickQueueSize, tick) = tickQueue
                /\ Refused(tickQueue, TickQueueSize, tick) = {tick}
             \/ /\ Range(Push(tickQueue, TickQueueSize, tick)) = Range(tickQueue) \cup {tick}
                /\ Refused(tickQueue, TickQueueSize, tick) = {}
      BY <1>1, <3>1, PushOf
    <3> QED BY <2>1, <3>2
  <2>4. TickChain'
    <3>1. Range(tickQueue') \cup lostTicks' \subseteq Range(tickQueue) \cup lostTicks \cup {tick}
      BY <2>3
    <3> QED BY <1>1, <2>1, <2>2, <3>1 DEF TicksInv, TickChain, Live
  <2>5. /\ Range(tickQueue') \cap (processed \cup lostTicks') = {}
        /\ processed \cap lostTicks' = {}
        /\ \A old \in processed, new \in Range(tickQueue') : old < new
    <3>1. CASE tickQueue' = tickQueue /\ lostTicks' = lostTicks \cup {tick}
      <4>1. tick \notin Range(tickQueue) /\ tick \notin processed BY <1>1, <2>2
      <4> QED BY <3>1, <4>1 DEF TicksInv, TicksInOrder
    <3>2. CASE Range(tickQueue') = Range(tickQueue) \cup {tick} /\ lostTicks' = lostTicks
      <4>1. tick \notin processed /\ tick \notin lostTicks BY <1>1, <2>2
      <4> QED BY <2>2, <3>2, <4>1 DEF TicksInv, TicksInOrder
    <3> QED BY <2>3, <3>1, <3>2
  <2> QED BY <2>1, <2>3, <2>4, <2>5 DEF TicksInv, TicksInOrder
<1>6. CASE Feed
  <2>1. /\ Live /\ UNCHANGED <<mode, up>>
        /\ made' = made + 1 /\ mdQueue' = Push(mdQueue, MdQueueSize, made + 1)
        /\ UNCHANGED <<carrier, tick, tickQueue, processed, lostTicks>>
    BY <1>6 DEF Feed, TicksInv, TickChain
  <2>2. \A n \in Range(mdQueue) : n < made + 1 BY <1>1 DEF TicksInv, TickChain
  <2>3. Increasing(mdQueue') /\ Range(mdQueue') \subseteq Range(mdQueue) \cup {made + 1}
    <3>1. Increasing(mdQueue) /\ made + 1 \in Nat BY <1>1 DEF TicksInv, TickChain
    <3>2. /\ Increasing(Push(mdQueue, MdQueueSize, made + 1))
          /\ Range(Push(mdQueue, MdQueueSize, made + 1)) \subseteq Range(mdQueue) \cup {made + 1}
      BY <1>1, <2>2, <3>1, PushOf
    <3> QED BY <2>1, <3>2
  <2>4. TickChain'
    <3>1. tick <= made' /\ Increasing(mdQueue') BY <1>1, <2>1, <2>3 DEF TicksInv, TickChain
    <3>2. ASSUME NEW n \in Range(mdQueue') PROVE tick < n /\ n <= made'
      BY <1>1, <2>1, <2>3 DEF TicksInv, TickChain
    <3> QED BY <2>1, <3>1, <3>2 DEF TicksInv, TickChain, Live
  <2>5. TicksInOrder' BY <2>1 DEF TicksInv, TicksInOrder
  <2> QED BY <2>4, <2>5 DEF TicksInv
<1>7. CASE PopTick
  <2>1. /\ tickQueue # << >> /\ tickQueue' = Tail(tickQueue)
        /\ processed' = processed \cup {Head(tickQueue)}
        /\ UNCHANGED <<mode, up, carrier, tick, made, mdQueue, lostTicks>>
    BY <1>7 DEF PopTick, Dispatch, EngineStep
  <2>2. /\ Head(tickQueue) \in Range(tickQueue) /\ Increasing(tickQueue')
        /\ Range(tickQueue) = {Head(tickQueue)} \cup Range(tickQueue')
        /\ \A n \in Range(tickQueue') : Head(tickQueue) < n
    <3>1. Increasing(tickQueue) BY DEF TicksInv, TicksInOrder
    <3>2. /\ Head(tickQueue) \in Range(tickQueue)
          /\ Range(tickQueue) = {Head(tickQueue)} \cup Range(Tail(tickQueue))
      BY <1>1, <2>1, TakenFrom
    <3> QED BY <1>1, <2>1, <3>1, <3>2, TailOf
  <2>3. TickChain' BY <2>1, <2>2 DEF TicksInv, TickChain, Live
  <2>4. TicksInOrder'
    <3>1. Head(tickQueue) \notin Range(tickQueue') BY <1>1, <2>2
    <3> QED BY <1>1, <2>1, <2>2, <3>1 DEF TicksInv, TicksInOrder
  <2> QED BY <2>3, <2>4 DEF TicksInv
<1>8. CASE Main
  <2>1. main = "startFeed" => Live BY DEF MainInv
  <2> QED BY <1>2, <1>8, <2>1, MainFrame
<1>9. CASE EnterLoop \/ LeaveLoop \/ MarketDataEmpty \/ PublishTick \/ WriteTick \/ Signal
  BY <1>9, <1>2 DEF EnterLoop, LeaveLoop, MarketDataEmpty, PublishTick, WriteTick, Signal
<1>10. CASE PopFill \/ Timer \/ SubmitOrder \/ CancelOrder \/ Return
  BY <1>10, <1>2 DEF PopFill, Timer, SubmitOrder, CancelOrder, Return, Request, Dispatch, EngineStep
<1>11. CASE Gateway
  BY <1>11, <1>2 DEF Gateway, TakeOrder, ProcessOrder, SendOrder, SendFails, SendCancel, PushSimFill,
                     PublishSimFill, CancelPending, GatewayStep
<1>12. CASE Stream
  BY <1>12, <1>2 DEF Stream, ReadReport, ReadReject, PushRealFill, PublishRealFill, StreamStep
<1>13. CASE Ended \/ UNCHANGED vars BY <1>2, <1>13 DEF Ended, vars
<1> QED
  BY <1>3, <1>4, <1>5, <1>6, <1>7, <1>8, <1>9, <1>10, <1>11, <1>12, <1>13 DEF Next, Carrier, Engine

\* The chain from the source to the strategy is never broken.
LEMMA TicksStayInOrder == Spec => []TicksInv
<1>1. Init => TicksInv
  BY DEF Init, TicksInv, TickChain, TicksInOrder, Increasing, Range
<1>2. TypeOK /\ MainInv /\ TicksInv /\ [Next]_vars => TicksInv' BY TypeParts, TicksStep
<1> QED BY <1>1, <1>2, TypeCorrect, MainThreadCorrect, PTL DEF Spec

\* Ticks reach the strategy in the order of the source and none twice, whatever
\* the queues refuse (lines 263-269, 425-448).
THEOREM TicksKeepOrder == Spec => []TicksInOrder
  BY TicksStayInOrder, PTL DEF TicksInv

-----------------------------------------------------------------------------
(* The orders *)

Once(q) == \A i, j \in DOMAIN q : q[i] = q[j] => i = j
Apart(places) == \A i, j \in DOMAIN places : i # j => places[i] \cap places[j] = {}

\* An order moved from one place to another is still in one place.
LEMMA Moved ==
    ASSUME NEW P, NEW Q, NEW D, DOMAIN P = D, DOMAIN Q = D, Apart(P),
           NEW from \in D, NEW to \in D, from # to, NEW id \in P[from],
           Q[from] = P[from] \ {id}, Q[to] = P[to] \cup {id},
           \A k \in D \ {from, to} : Q[k] = P[k]
    PROVE  Apart(Q) /\ UNION Range(Q) = UNION Range(P)
<1>1. \A k \in D : k # from => id \notin P[k] BY DEF Apart
<1>2. ASSUME NEW i \in D, NEW j \in D, i # j PROVE Q[i] \cap Q[j] = {}
  <2>1. P[i] \cap P[j] = {} BY <1>2 DEF Apart
  <2>2. CASE i = to /\ j = from BY <1>2, <2>1, <2>2
  <2>3. CASE i = to /\ j # from BY <1>1, <1>2, <2>1, <2>3
  <2>4. CASE j = to /\ i = from BY <1>2, <2>1, <2>4
  <2>5. CASE j = to /\ i # from BY <1>1, <1>2, <2>1, <2>5
  <2>6. CASE i # to /\ j # to
    <3>1. Q[i] \subseteq P[i] /\ Q[j] \subseteq P[j] BY <2>6
    <3> QED BY <2>1, <3>1
  <2> QED BY <2>2, <2>3, <2>4, <2>5, <2>6
<1>3. ASSUME NEW x PROVE (\E k \in D : x \in Q[k]) <=> \E k \in D : x \in P[k]
  <2>1. ASSUME NEW k \in D, x \in Q[k] PROVE \E l \in D : x \in P[l]
    BY <2>1
  <2>2. ASSUME NEW k \in D, x \in P[k] PROVE \E l \in D : x \in Q[l]
    <3>1. CASE x = id BY <3>1
    <3>2. CASE x # id BY <2>2, <3>2
    <3> QED BY <3>1, <3>2
  <2> QED BY <2>1, <2>2
<1> QED BY <1>2, <1>3 DEF Apart, Range

\* An order that is nowhere may be put into one place.
LEMMA Placed ==
    ASSUME NEW P, NEW Q, NEW D, DOMAIN P = D, DOMAIN Q = D, Apart(P),
           NEW to \in D, NEW id, id \notin UNION Range(P),
           Q[to] = P[to] \cup {id}, \A k \in D \ {to} : Q[k] = P[k]
    PROVE  Apart(Q) /\ UNION Range(Q) = (UNION Range(P)) \cup {id}
<1>1. \A k \in D : id \notin P[k] BY DEF Range
<1>2. ASSUME NEW i \in D, NEW j \in D, i # j PROVE Q[i] \cap Q[j] = {}
  <2>1. P[i] \cap P[j] = {} BY <1>2 DEF Apart
  <2>2. CASE i = to BY <1>1, <1>2, <2>1, <2>2
  <2>3. CASE j = to BY <1>1, <1>2, <2>1, <2>3
  <2>4. CASE i # to /\ j # to BY <2>1, <2>4
  <2> QED BY <2>2, <2>3, <2>4
<1>3. ASSUME NEW x PROVE (\E k \in D : x \in Q[k]) <=> x = id \/ \E k \in D : x \in P[k]
  OBVIOUS
<1>4. UNION Range(Q) = (UNION Range(P)) \cup {id} BY <1>3 DEF Range
<1> QED BY <1>2, <1>4 DEF Apart

\* The fill queue keeps no order, but it holds a fill once.
LEMMA TailOnce ==
    ASSUME NEW q \in Seq(Nat), q # << >>, Once(q)
    PROVE  Once(Tail(q)) /\ Range(Tail(q)) = Range(q) \ {Head(q)}
<1>1. /\ Len(q) \in Nat \ {0} /\ Head(q) = q[1] /\ DOMAIN q = 1..Len(q)
      /\ DOMAIN Tail(q) = 1..Len(q) - 1
      /\ \A i \in 1..Len(q) - 1 : Tail(q)[i] = q[i + 1]
  OBVIOUS
<1>2. ASSUME NEW i \in 1..Len(q) - 1
      PROVE  i + 1 \in 1..Len(q) /\ i + 1 # 1 /\ 1 \in 1..Len(q)
  BY <1>1
<1>3. Once(Tail(q))
  <2>1. SUFFICES ASSUME NEW i \in 1..Len(q) - 1, NEW j \in 1..Len(q) - 1, Tail(q)[i] = Tail(q)[j]
                 PROVE  i = j
    BY <1>1 DEF Once
  <2>2. i + 1 = j + 1 BY <1>1, <1>2, <2>1 DEF Once
  <2> QED BY <1>1, <2>2
<1>4. Head(q) \notin Range(Tail(q)) BY <1>1, <1>2 DEF Once, Range
<1> QED BY <1>3, <1>4, TakenFrom

\* A new fill behind the others.
LEMMA PushOnce ==
    ASSUME NEW q \in Seq(Nat), NEW size \in Nat, NEW n \in Nat, Len(q) <= size,
           Once(q), n \notin Range(q)
    PROVE  Once(Push(q, size, n))
<1>1. CASE Push(q, size, n) = q BY <1>1
<1>2. CASE Push(q, size, n) = Append(q, n)
  <2> DEFINE a == Append(q, n)
  <2>1. /\ Len(q) \in Nat /\ DOMAIN q = 1..Len(q) /\ DOMAIN a = 1..Len(q) + 1
        /\ a[Len(q) + 1] = n /\ \A i \in 1..Len(q) : a[i] = q[i]
    OBVIOUS
  <2> HIDE DEF a
  <2>2. \A i \in 1..Len(q) + 1 : i \in 1..Len(q) \/ i = Len(q) + 1 BY <2>1
  <2>3. \A i \in 1..Len(q) : q[i] # n BY <2>1 DEF Range
  <2>4. Once(a) BY <2>1, <2>2, <2>3 DEF Once
  <2> QED BY <1>2, <2>4 DEF a
<1> QED BY <1>1, <1>2, PushOf

\* The new orders among the requests of a queue, each there once.
Ids(q) == {x.id : x \in {y \in Range(q) : y.kind = "new"}}
NewOnce(q) ==
    \A i, j \in DOMAIN q :
        q[i].kind = "new" /\ q[j].kind = "new" /\ q[i].id = q[j].id => i = j

\* A request taken from the queue.
LEMMA TailNew ==
    ASSUME NEW q \in Seq(Requests), q # << >>, NewOnce(q)
    PROVE  /\ NewOnce(Tail(q))
           /\ Head(q).kind = "new" => /\ Head(q).id \in Ids(q)
                                      /\ Ids(Tail(q)) = Ids(q) \ {Head(q).id}
           /\ Head(q).kind # "new" => Ids(Tail(q)) = Ids(q)
<1> DEFINE h == Head(q)
           t == Tail(q)
<1>1. /\ Len(q) \in Nat \ {0} /\ h = q[1] /\ DOMAIN q = 1..Len(q) /\ DOMAIN t = 1..Len(q) - 1
      /\ \A i \in 1..Len(q) - 1 : t[i] = q[i + 1]
  OBVIOUS
<1>2. Range(q) = {h} \cup Range(t) /\ h \in Range(q) BY TakenFrom
<1> HIDE DEF h, t
<1>3. ASSUME NEW i \in 1..Len(q) - 1
      PROVE  i + 1 \in 1..Len(q) /\ i + 1 # 1 /\ 1 \in 1..Len(q)
  BY <1>1
<1>4. NewOnce(t)
  <2>1. SUFFICES ASSUME NEW i \in 1..Len(q) - 1, NEW j \in 1..Len(q) - 1,
                        t[i].kind = "new", t[j].kind = "new", t[i].id = t[j].id
                 PROVE  i = j
    BY <1>1 DEF NewOnce
  <2>2. i + 1 = j + 1 BY <1>1, <1>3, <2>1 DEF NewOnce
  <2> QED BY <1>1, <2>2
<1>5. ASSUME h.kind = "new" PROVE h.id \in Ids(q) /\ Ids(t) = Ids(q) \ {h.id}
  <2>1. ASSUME NEW y \in Range(t), y.kind = "new" PROVE y.id # h.id
    <3>1. PICK i \in 1..Len(q) - 1 : y = q[i + 1] BY <1>1, <2>1 DEF Range
    <3> QED BY <1>1, <1>3, <1>5, <2>1, <3>1 DEF NewOnce
  <2> QED BY <1>2, <1>5, <2>1 DEF Ids
<1>6. ASSUME h.kind # "new" PROVE Ids(t) = Ids(q)
  BY <1>2, <1>6 DEF Ids
<1> QED BY <1>4, <1>5, <1>6 DEF h, t

\* A request put into the queue.
LEMMA AppendNew ==
    ASSUME NEW q \in Seq(Requests), NEW x \in Requests, NewOnce(q),
           x.kind = "new" => x.id \notin Ids(q)
    PROVE  /\ NewOnce(Append(q, x))
           /\ x.kind = "new" => Ids(Append(q, x)) = Ids(q) \cup {x.id}
           /\ x.kind # "new" => Ids(Append(q, x)) = Ids(q)
<1> DEFINE a == Append(q, x)
<1>1. /\ Len(q) \in Nat /\ DOMAIN q = 1..Len(q) /\ DOMAIN a = 1..Len(q) + 1
      /\ a[Len(q) + 1] = x /\ \A i \in 1..Len(q) : a[i] = q[i]
  OBVIOUS
<1> HIDE DEF a
<1>2. \A i \in 1..Len(q) + 1 : i \in 1..Len(q) \/ i = Len(q) + 1 BY <1>1
<1>3. 1..Len(q) \subseteq 1..Len(q) + 1 /\ Len(q) + 1 \in 1..Len(q) + 1 BY <1>1
<1>4. Range(a) = Range(q) \cup {x} BY <1>1, <1>2, <1>3 DEF Range
<1>5. \A i \in 1..Len(q) : q[i].kind = "new" /\ x.kind = "new" => q[i].id # x.id
  BY <1>1 DEF Ids, Range
<1>6. NewOnce(a) BY <1>1, <1>2, <1>5 DEF NewOnce
<1>7. /\ x.kind = "new" => Ids(a) = Ids(q) \cup {x.id}
      /\ x.kind # "new" => Ids(a) = Ids(q)
  BY <1>4 DEF Ids
<1> QED BY <1>6, <1>7 DEF a

\* Where an order may be, as functions of the variables.
PlacesAre ==
    /\ DOMAIN Places = 1..8
    /\ Places[1] = Ids(orderQueue) /\ Places[2] = WithGateway /\ Places[3] = atExchange
    /\ Places[4] = WithStream /\ Places[5] = Range(fillQueue) /\ Places[6] = filled
    /\ Places[7] = lostFills /\ Places[8] = closed

\* The places are those the variables say, before a step and after it.
LEMMA PlacesHold == PlacesAre /\ PlacesAre' BY DEF PlacesAre, Places, Waiting, Ids

\* The places, one by one.
LEMMA EachPlace == \A k \in 1..8 : k \in {1, 2, 3, 4, 5, 6, 7, 8} OBVIOUS

\* The queues hold each order once, and what the gateway has a fill for is an
\* order.
OrdersInv == /\ OrdersConserved
             /\ NewOnce(orderQueue) /\ Once(fillQueue)
             /\ gateway = "fill" => order.kind = "new"

\* Steps that touch neither the orders nor the fills.
LEMMA OrdersRest ==
    ASSUME OrdersInv,
           UNCHANGED <<orderQueue, fillQueue, gateway, order, stream, report, atExchange>>,
           UNCHANGED <<closed, nextId, filled, lostFills, published>>
    PROVE  OrdersInv'
<1>1. UNCHANGED <<Places, Publishing, Offered, submitted>>
  BY DEF Places, Waiting, Publishing, Offered, WithGateway, WithStream, submitted
<1>2. OrdersConserved' BY <1>1 DEF OrdersInv, OrdersConserved
<1> QED BY <1>2 DEF OrdersInv

\* Steps that move no order from its place.
LEMMA OrdersStay ==
    ASSUME OrdersInv, UNCHANGED <<nextId, WithGateway, atExchange, WithStream, fillQueue>>,
           UNCHANGED <<filled, lostFills, closed>>, Ids(orderQueue)' = Ids(orderQueue),
           (published \cup Publishing)' = published \cup Publishing, NewOnce(orderQueue)',
           (gateway = "fill" => order.kind = "new")'
    PROVE  OrdersInv'
<1>1. UNCHANGED <<Places, Offered, submitted>>
  BY DEF Places, Waiting, Ids, Offered, submitted
<1>2. OrdersConserved' BY <1>1 DEF OrdersInv, OrdersConserved
<1> QED BY <1>2 DEF OrdersInv

\* A callback of a strategy submits an order, which the shared queue takes.
LEMMA OrdersSubmit == ASSUME QueuesOK, RestOK, OrdersInv, SubmitOrder PROVE OrdersInv'
<1> DEFINE new == [kind |-> "new", id |-> nextId]
<1>1. /\ orderQueue' = Append(orderQueue, new) /\ nextId' = nextId + 1
      /\ UNCHANGED <<fillQueue, gateway, order, stream, report, atExchange, closed, filled>>
      /\ UNCHANGED <<lostFills, published>>
  BY DEF SubmitOrder, Request, EngineStep, gatewayVars, streamVars, exchangeVars
<1>2. nextId \in Nat /\ nextId \notin submitted /\ submitted' = submitted \cup {nextId}
  <2>1. nextId \in Nat \ {0} BY BoundAssumption DEF RestOK
  <2>2. 1..(nextId + 1 - 1) = 1..(nextId - 1) \cup {nextId} BY <2>1
  <2>3. nextId \notin 1..(nextId - 1) BY <2>1
  <2> QED BY <1>1, <2>1, <2>2, <2>3 DEF submitted
<1>3. new \in Requests /\ new.kind = "new" /\ new.id = nextId BY <1>2 DEF Requests
<1>4. /\ DOMAIN Places = 1..8 /\ Places[1] = Ids(orderQueue)
      /\ submitted = UNION Range(Places) /\ Apart(Places)
  BY PlacesHold DEF PlacesAre, OrdersInv, OrdersConserved, Apart
<1>5. nextId \notin Ids(orderQueue)
  <2>1. Places[1] \subseteq submitted BY <1>4 DEF Range
  <2> QED BY <1>2, <1>4, <2>1
<1>6. Ids(orderQueue)' = Ids(orderQueue) \cup {nextId} /\ NewOnce(orderQueue)'
  <2> HIDE DEF new
  <2>1. /\ NewOnce(Append(orderQueue, new))
        /\ Ids(Append(orderQueue, new)) = Ids(orderQueue) \cup {nextId}
    BY <1>3, <1>5, AppendNew DEF QueuesOK, OrdersInv
  <2> QED BY <1>1, <2>1
<1> DEFINE P == Places
           Q == Places'
<1>7. /\ DOMAIN P = 1..8 /\ DOMAIN Q = 1..8 /\ Q[1] = P[1] \cup {nextId}
      /\ \A k \in (1..8) \ {1} : Q[k] = P[k]
  <2>1. UNCHANGED <<WithGateway, WithStream>> BY <1>1 DEF WithGateway, WithStream
  <2> QED BY <1>1, <1>6, <2>1, PlacesHold, EachPlace DEF PlacesAre
<1>8. Apart(Q) /\ UNION Range(Q) = (UNION Range(P)) \cup {nextId}
  <2>1. Apart(P) /\ nextId \notin UNION Range(P) BY <1>2, <1>4
  <2> HIDE DEF P, Q
  <2> QED BY <1>7, <2>1, Placed
<1>9. UNCHANGED <<published, Publishing, Offered>> BY <1>1 DEF Publishing, Offered
<1>10. OrdersConserved' BY <1>2, <1>8, <1>9 DEF OrdersInv, OrdersConserved, Apart
<1> QED BY <1>1, <1>6, <1>10 DEF OrdersInv

\* A cancellation in the queue is no order.
LEMMA OrdersCancel == ASSUME QueuesOK, RestOK, OrdersInv, CancelOrder PROVE OrdersInv'
<1>1. PICK id \in 1..(nextId - 1) : Request("cancel", id) /\ UNCHANGED nextId
  BY DEF CancelOrder
<1> DEFINE request == [kind |-> "cancel", id |-> id]
<1>2. /\ orderQueue' = Append(orderQueue, request)
      /\ UNCHANGED <<fillQueue, gateway, order, stream, report, atExchange, closed, filled>>
      /\ UNCHANGED <<lostFills, published>>
  BY <1>1 DEF Request, EngineStep, gatewayVars, streamVars, exchangeVars
<1>3. request \in Requests /\ request.kind # "new"
  <2>1. nextId \in Nat BY BoundAssumption DEF RestOK
  <2>2. id \in Nat BY <2>1
  <2> QED BY <2>2 DEF Requests
<1> HIDE DEF request
<1>4. Ids(orderQueue)' = Ids(orderQueue) /\ NewOnce(orderQueue)'
  BY <1>2, <1>3, AppendNew DEF QueuesOK, OrdersInv
<1>5. UNCHANGED <<WithGateway, WithStream, Publishing>> /\ (gateway = "fill" => order.kind = "new")'
  BY <1>2 DEF WithGateway, WithStream, Publishing, OrdersInv
<1> QED BY <1>1, <1>2, <1>4, <1>5, OrdersStay

\* Steps that move an order from one place to another.
LEMMA OrderMoves ==
    ASSUME OrdersInv, UNCHANGED nextId,
           NEW from \in 1..8, NEW to \in 1..8, from # to, NEW id \in Places[from],
           Places'[from] = Places[from] \ {id}, Places'[to] = Places[to] \cup {id},
           \A k \in (1..8) \ {from, to} : Places'[k] = Places[k],
           (published \cup Publishing)' = Offered', NewOnce(orderQueue'), Once(fillQueue'),
           (gateway = "fill" => order.kind = "new")'
    PROVE  OrdersInv'
<1> DEFINE P == Places
           Q == Places'
<1>1. DOMAIN P = 1..8 /\ DOMAIN Q = 1..8 BY PlacesHold DEF PlacesAre
<1>2. Apart(P) /\ submitted = UNION Range(P) BY DEF OrdersInv, OrdersConserved, Apart
<1>3. Apart(Q) /\ UNION Range(Q) = UNION Range(P)
  <2>1. /\ id \in P[from] /\ Q[from] = P[from] \ {id} /\ Q[to] = P[to] \cup {id}
        /\ \A k \in (1..8) \ {from, to} : Q[k] = P[k]
    OBVIOUS
  <2> HIDE DEF P, Q
  <2> QED BY <1>1, <1>2, <2>1, Moved
<1>4. UNCHANGED submitted BY DEF submitted
<1>5. OrdersConserved' BY <1>2, <1>3, <1>4 DEF OrdersConserved, Apart
<1> QED BY <1>5 DEF OrdersInv

\* The engine takes a fill from its queue.
LEMMA OrdersPopFill == ASSUME QueuesOK, OrdersInv, PopFill PROVE OrdersInv'
<1> DEFINE id == Head(fillQueue)
<1>1. /\ fillQueue # << >> /\ fillQueue' = Tail(fillQueue) /\ filled' = filled \cup {id}
      /\ UNCHANGED <<orderQueue, gateway, order, stream, report, atExchange, closed>>
      /\ UNCHANGED <<nextId, lostFills, published>>
  BY DEF PopFill, Dispatch, EngineStep, gatewayVars, streamVars, exchangeVars
<1>2. /\ id \in Range(fillQueue) /\ Once(fillQueue') /\ Range(fillQueue') = Range(fillQueue) \ {id}
  BY <1>1, TakenFrom, TailOnce DEF QueuesOK, OrdersInv
<1>3. UNCHANGED <<WithGateway, WithStream, Publishing>>
  BY <1>1 DEF WithGateway, WithStream, Publishing
<1> HIDE DEF id
<1>4. /\ id \in Places[5] /\ Places'[5] = Places[5] \ {id} /\ Places'[6] = Places[6] \cup {id}
      /\ \A k \in (1..8) \ {5, 6} : Places'[k] = Places[k]
  BY <1>1, <1>2, <1>3, PlacesHold, EachPlace DEF PlacesAre
<1>5. (published \cup Publishing)' = Offered'
  BY <1>1, <1>2, <1>3 DEF Offered, OrdersInv, OrdersConserved
<1>6. NewOnce(orderQueue') /\ (gateway = "fill" => order.kind = "new")' BY <1>1 DEF OrdersInv
<1> QED BY <1>1, <1>2, <1>4, <1>5, <1>6, OrderMoves

\* The gateway's thread takes an order, or a cancellation, from the shared queue.
LEMMA OrdersTakeOrder == ASSUME QueuesOK, RestOK, OrdersInv, TakeOrder PROVE OrdersInv'
<1> DEFINE h == Head(orderQueue)
<1>1. /\ orderQueue # << >> /\ orderQueue' = Tail(orderQueue)
      /\ gateway = "idle" /\ gateway' = "send" /\ order' = h
      /\ UNCHANGED <<fillQueue, stream, report, atExchange, closed, filled>>
      /\ UNCHANGED <<nextId, lostFills, published>>
  BY DEF TakeOrder, GatewayStep, engineVars, streamVars, exchangeVars
<1>2. /\ NewOnce(orderQueue')
      /\ h.kind = "new" => h.id \in Ids(orderQueue) /\ Ids(orderQueue') = Ids(orderQueue) \ {h.id}
      /\ h.kind # "new" => Ids(orderQueue') = Ids(orderQueue)
  BY <1>1, TailNew DEF QueuesOK, OrdersInv
<1> HIDE DEF h
<1>3. /\ WithGateway = {} /\ WithGateway' = IF h.kind = "new" THEN {h.id} ELSE {}
      /\ UNCHANGED <<WithStream, Publishing, Offered>>
  BY <1>1 DEF WithGateway, WithStream, Publishing, Offered
<1>4. /\ (published \cup Publishing)' = Offered' /\ Once(fillQueue')
      /\ (gateway = "fill" => order.kind = "new")'
  BY <1>1, <1>3 DEF OrdersInv, OrdersConserved
<1>5. CASE h.kind = "new"
  <2> DEFINE id == h.id
  <2>1. /\ id \in Ids(orderQueue) /\ Ids(orderQueue') = Ids(orderQueue) \ {id}
        /\ WithGateway' = {id}
    BY <1>2, <1>3, <1>5
  <2> HIDE DEF id
  <2>2. /\ id \in Places[1] /\ Places'[1] = Places[1] \ {id} /\ Places'[2] = Places[2] \cup {id}
        /\ \A k \in (1..8) \ {1, 2} : Places'[k] = Places[k]
    BY <1>1, <1>3, <2>1, PlacesHold, EachPlace DEF PlacesAre
  <2> QED BY <1>1, <1>2, <1>4, <2>2, OrderMoves
<1>6. CASE h.kind # "new"
  <2>1. UNCHANGED WithGateway /\ Ids(orderQueue)' = Ids(orderQueue) /\ NewOnce(orderQueue)'
    BY <1>2, <1>3, <1>6
  <2>2. (published \cup Publishing)' = published \cup Publishing BY <1>1, <1>3
  <2> QED BY <1>1, <1>3, <1>4, <2>1, <2>2, OrdersStay
<1> QED BY <1>5, <1>6

\* The order goes to the simulation of the fill, or to the exchange.
LEMMA OrdersSendOrder == ASSUME OrdersInv, SendOrder PROVE OrdersInv'
<1> DEFINE id == order.id
<1>1. /\ gateway = "send" /\ order.kind = "new"
      /\ UNCHANGED <<orderQueue, fillQueue, stream, report, filled, closed>>
      /\ UNCHANGED <<nextId, lostFills, published>>
  BY DEF SendOrder, GatewayStep, engineVars, streamVars
<1>2. WithGateway = {id} /\ UNCHANGED <<WithStream, Offered>>
  BY <1>1 DEF WithGateway, WithStream, Offered
<1>3. CASE gateway' = "fill" /\ UNCHANGED <<order, atExchange>>
  <2>1. UNCHANGED <<WithGateway, Publishing>> BY <1>1, <1>3 DEF WithGateway, Publishing
  <2>2. Ids(orderQueue)' = Ids(orderQueue) /\ NewOnce(orderQueue)' BY <1>1 DEF OrdersInv
  <2> QED BY <1>1, <1>2, <1>3, <2>1, <2>2, OrdersStay
<1>4. CASE gateway' = "idle" /\ atExchange' = atExchange \cup {id}
  <2>1. WithGateway' = {} /\ UNCHANGED Publishing
    BY <1>1, <1>4 DEF WithGateway, Publishing
  <2> HIDE DEF id
  <2>2. /\ id \in Places[2] /\ Places'[2] = Places[2] \ {id} /\ Places'[3] = Places[3] \cup {id}
        /\ \A k \in (1..8) \ {2, 3} : Places'[k] = Places[k]
    BY <1>1, <1>2, <1>4, <2>1, PlacesHold, EachPlace DEF PlacesAre
  <2>3. /\ (published \cup Publishing)' = Offered' /\ NewOnce(orderQueue') /\ Once(fillQueue')
        /\ (gateway = "fill" => order.kind = "new")'
    BY <1>1, <1>2, <1>4, <2>1 DEF OrdersInv, OrdersConserved
  <2> QED BY <1>1, <2>2, <2>3, OrderMoves
<1> QED BY <1>3, <1>4 DEF SendOrder, GatewayStep

\* A send that fails.
LEMMA OrdersSendFails == ASSUME OrdersInv, SendFails PROVE OrdersInv'
<1> DEFINE id == order.id
<1>1. /\ gateway = "send" /\ order.kind = "new" /\ gateway' = "idle" /\ closed' = closed \cup {id}
      /\ UNCHANGED <<orderQueue, fillQueue, stream, report, filled, atExchange>>
      /\ UNCHANGED <<nextId, lostFills, published>>
  BY DEF SendFails, GatewayStep, engineVars, streamVars
<1>2. WithGateway = {id} /\ WithGateway' = {} /\ UNCHANGED <<WithStream, Offered, Publishing>>
  BY <1>1 DEF WithGateway, WithStream, Offered, Publishing
<1> HIDE DEF id
<1>3. /\ id \in Places[2] /\ Places'[2] = Places[2] \ {id} /\ Places'[8] = Places[8] \cup {id}
      /\ \A k \in (1..8) \ {2, 8} : Places'[k] = Places[k]
  BY <1>1, <1>2, PlacesHold, EachPlace DEF PlacesAre
<1>4. /\ (published \cup Publishing)' = Offered' /\ NewOnce(orderQueue') /\ Once(fillQueue')
      /\ (gateway = "fill" => order.kind = "new")'
  BY <1>1, <1>2 DEF OrdersInv, OrdersConserved
<1> QED BY <1>1, <1>3, <1>4, OrderMoves

\* An order that ends at the exchange, whoever ends it.
LEMMA OrderEnds ==
    ASSUME OrdersInv, NEW id \in atExchange,
           atExchange' = atExchange \ {id}, closed' = closed \cup {id},
           UNCHANGED <<orderQueue, fillQueue, filled, nextId, lostFills, published>>,
           UNCHANGED <<WithGateway, WithStream, Publishing>>,
           (gateway = "fill" => order.kind = "new")'
    PROVE  OrdersInv'
<1>1. /\ id \in Places[3] /\ Places'[3] = Places[3] \ {id} /\ Places'[8] = Places[8] \cup {id}
      /\ \A k \in (1..8) \ {3, 8} : Places'[k] = Places[k]
  BY PlacesHold, EachPlace DEF PlacesAre
<1>2. (published \cup Publishing)' = Offered' /\ NewOnce(orderQueue') /\ Once(fillQueue')
  BY DEF OrdersInv, OrdersConserved, Offered
<1> QED BY <1>1, <1>2, OrderMoves

\* A cancellation at the exchange, from a strategy or from the gateway's stop, and
\* a rejection by the exchange.
LEMMA OrdersEnd ==
    ASSUME OrdersInv, SendCancel \/ CancelPending \/ ReadReject
    PROVE  OrdersInv'
<1> USE DEF GatewayStep, StreamStep, engineVars, gatewayVars, streamVars, exchangeVars
<1>1. /\ UNCHANGED <<orderQueue, fillQueue, filled, nextId, lostFills, published>>
      /\ UNCHANGED <<WithGateway, WithStream, Publishing>>
      /\ (gateway = "fill" => order.kind = "new")'
  <2>1. CASE SendCancel
    BY <2>1 DEF SendCancel, WithGateway, WithStream, Publishing
  <2>2. CASE CancelPending
    BY <2>2 DEF CancelPending, WithGateway, WithStream, Publishing
  <2>3. CASE ReadReject
    BY <2>3 DEF ReadReject, WithGateway, WithStream, Publishing, OrdersInv
  <2> QED BY <2>1, <2>2, <2>3
<1>2. \/ \E id \in atExchange : atExchange' = atExchange \ {id} /\ closed' = closed \cup {id}
      \/ UNCHANGED <<atExchange, closed>>
  BY DEF SendCancel, CancelPending, ReadReject
<1>3. CASE \E id \in atExchange : atExchange' = atExchange \ {id} /\ closed' = closed \cup {id}
  BY <1>1, <1>3, OrderEnds
<1>4. CASE UNCHANGED <<atExchange, closed>>
  <2>1. Ids(orderQueue)' = Ids(orderQueue) /\ NewOnce(orderQueue)' BY <1>1 DEF OrdersInv
  <2> QED BY <1>1, <1>4, <2>1, OrdersStay
<1> QED BY <1>2, <1>3, <1>4

\* An execution report comes from the exchange.
LEMMA OrdersReadReport == ASSUME OrdersInv, ReadReport PROVE OrdersInv'
<1>1. PICK id \in atExchange : report' = id /\ atExchange' = atExchange \ {id}
  BY DEF ReadReport
<1>2. /\ stream = "idle" /\ stream' = "fill"
      /\ UNCHANGED <<orderQueue, fillQueue, gateway, order, filled, closed>>
      /\ UNCHANGED <<nextId, lostFills, published>>
  BY DEF ReadReport, StreamStep, gatewayVars, engineVars
<1>3. WithStream = {} /\ WithStream' = {id} /\ UNCHANGED <<WithGateway, Publishing, Offered>>
  BY <1>1, <1>2 DEF WithGateway, WithStream, Publishing, Offered
<1>4. /\ id \in Places[3] /\ Places'[3] = Places[3] \ {id} /\ Places'[4] = Places[4] \cup {id}
      /\ \A k \in (1..8) \ {3, 4} : Places'[k] = Places[k]
  BY <1>1, <1>2, <1>3, PlacesHold, EachPlace DEF PlacesAre
<1>5. /\ (published \cup Publishing)' = Offered' /\ NewOnce(orderQueue') /\ Once(fillQueue')
      /\ (gateway = "fill" => order.kind = "new")'
  BY <1>2, <1>3 DEF OrdersInv, OrdersConserved
<1> QED BY <1>2, <1>4, <1>5, OrderMoves

\* pushFill, whichever thread calls it: the fill is in the queue or lost.
LEMMA OrdersPushFill ==
    ASSUME QueuesOK, OrdersInv, NEW from \in {2, 4}, NEW id \in Nat,
           Places[from] = {id}, Places'[from] = {},
           \A k \in {2, 4} \ {from} : Places'[k] = Places[k],
           fillQueue' = Push(fillQueue, FillQueueSize, id),
           lostFills' = lostFills \cup Refused(fillQueue, FillQueueSize, id),
           UNCHANGED <<orderQueue, atExchange, closed, filled, nextId, published>>,
           Publishing' = Publishing \cup {id}, (gateway = "fill" => order.kind = "new")'
    PROVE  OrdersInv'
<1>1. /\ Places[5] = Range(fillQueue) /\ Places'[5] = Range(fillQueue')
      /\ Places[7] = lostFills /\ Places'[7] = lostFills'
      /\ Places'[1] = Places[1] /\ Places'[3] = Places[3] /\ Places'[6] = Places[6]
      /\ Places'[8] = Places[8] /\ DOMAIN Places = 1..8
  BY PlacesHold DEF PlacesAre
<1>2. id \notin Range(fillQueue)
  <2>1. Places[from] \cap Places[5] = {} /\ from \in 1..8 /\ from # 5
    BY <1>1 DEF OrdersInv, OrdersConserved
  <2> QED BY <1>1, <2>1
<1>3. /\ FillQueueSize \in Nat /\ fillQueue \in Seq(Nat) /\ Len(fillQueue) <= FillQueueSize
      /\ Once(fillQueue)
  BY SizeAssumption DEF QueuesOK, OrdersInv
<1>4. Once(fillQueue') BY <1>2, <1>3, PushOnce
<1>5. \/ fillQueue' = fillQueue /\ lostFills' = lostFills \cup {id}
      \/ Range(fillQueue') = Range(fillQueue) \cup {id} /\ lostFills' = lostFills
  BY <1>3, PushOf
<1>6. (published \cup Publishing)' = Offered'
  BY <1>5 DEF Offered, OrdersInv, OrdersConserved
<1>7. PICK to \in {5, 7} : /\ Places'[to] = Places[to] \cup {id}
                           /\ \A k \in {5, 7} \ {to} : Places'[k] = Places[k]
  BY <1>1, <1>5
<1>8. \A k \in (1..8) \ {from, to} : Places'[k] = Places[k]
  BY <1>1, <1>7, EachPlace
<1>9. /\ from \in 1..8 /\ to \in 1..8 /\ from # to /\ id \in Places[from]
      /\ Places'[from] = Places[from] \ {id} /\ NewOnce(orderQueue')
  BY <1>7 DEF OrdersInv
<1> QED BY <1>4, <1>6, <1>7, <1>8, <1>9, OrderMoves

\* The callback in the gateway's thread.
LEMMA OrdersPushSimFill == ASSUME QueuesOK, RestOK, OrdersInv, PushSimFill PROVE OrdersInv'
<1> DEFINE id == order.id
<1>1. /\ gateway = "fill" /\ gateway' = "publish"
      /\ UNCHANGED <<orderQueue, atExchange, closed, order, stream, report, filled, nextId, published>>
      /\ fillQueue' = Push(fillQueue, FillQueueSize, id)
      /\ lostFills' = lostFills \cup Refused(fillQueue, FillQueueSize, id)
  BY DEF PushSimFill, GatewayStep, engineVars, streamVars, exchangeVars
<1>2. order.kind = "new" /\ id \in Nat
  BY <1>1 DEF OrdersInv, RestOK, Requests, NoRequest
<1>3. /\ WithGateway = {id} /\ WithGateway' = {} /\ UNCHANGED WithStream
      /\ Publishing' = Publishing \cup {id}
  BY <1>1, <1>2 DEF WithGateway, WithStream, Publishing
<1> HIDE DEF id
<1>4. Places[2] = {id} /\ Places'[2] = {} /\ \A k \in {2, 4} \ {2} : Places'[k] = Places[k]
  BY <1>3, PlacesHold DEF PlacesAre
<1> QED BY <1>1, <1>2, <1>3, <1>4, OrdersPushFill

\* The callback in the user stream's thread.
LEMMA OrdersPushRealFill == ASSUME QueuesOK, RestOK, OrdersInv, PushRealFill PROVE OrdersInv'
<1>1. /\ stream = "fill" /\ stream' = "publish"
      /\ UNCHANGED <<orderQueue, atExchange, closed, gateway, order, report, filled, nextId>>
      /\ UNCHANGED published
      /\ fillQueue' = Push(fillQueue, FillQueueSize, report)
      /\ lostFills' = lostFills \cup Refused(fillQueue, FillQueueSize, report)
  BY DEF PushRealFill, StreamStep, gatewayVars, engineVars, exchangeVars
<1>2. /\ WithStream = {report} /\ WithStream' = {} /\ UNCHANGED WithGateway
      /\ Publishing' = Publishing \cup {report} /\ (gateway = "fill" => order.kind = "new")'
  BY <1>1 DEF WithGateway, WithStream, Publishing, OrdersInv
<1>3. Places[4] = {report} /\ Places'[4] = {} /\ \A k \in {2, 4} \ {4} : Places'[k] = Places[k]
  BY <1>2, PlacesHold DEF PlacesAre
<1> QED BY <1>1, <1>2, <1>3, OrdersPushFill DEF RestOK

\* publishFill.
LEMMA OrdersPublish ==
    ASSUME OrdersInv, PublishSimFill \/ PublishRealFill
    PROVE  OrdersInv'
<1> USE DEF GatewayStep, StreamStep, engineVars, gatewayVars, streamVars, exchangeVars
<1>1. /\ UNCHANGED <<orderQueue, fillQueue, atExchange, closed, filled, nextId, lostFills>>
      /\ UNCHANGED <<WithGateway, WithStream>> /\ (gateway = "fill" => order.kind = "new")'
      /\ (published \cup Publishing)' = published \cup Publishing
  <2>1. CASE PublishSimFill
    BY <2>1 DEF PublishSimFill, WithGateway, WithStream, Publishing
  <2>2. CASE PublishRealFill
    BY <2>2 DEF PublishRealFill, WithGateway, WithStream, Publishing, OrdersInv
  <2> QED BY <2>1, <2>2
<1>2. Ids(orderQueue)' = Ids(orderQueue) /\ NewOnce(orderQueue)' BY <1>1 DEF OrdersInv
<1> QED BY <1>1, <1>2, OrdersStay

\* No step of any thread loses or repeats an order.
LEMMA OrdersStep == ASSUME QueuesOK, RestOK, OrdersInv, [Next]_vars PROVE OrdersInv'
<1> USE DEF mainVars, carrierVars, engineVars, gatewayVars, streamVars, exchangeVars
<1>1. CASE Main BY <1>1, MainFrame, OrdersRest
<1>2. CASE Carrier \/ Feed BY <1>2, CarrierFrame, OrdersRest
<1>3. CASE Signal \/ Ended \/ UNCHANGED vars BY <1>3, OrdersRest DEF Signal, Ended, vars
<1>4. CASE PopTick \/ Timer \/ Return
  BY <1>4, OrdersRest DEF PopTick, Timer, Return, Dispatch, EngineStep
<1>5. CASE PopFill \/ SubmitOrder \/ CancelOrder
  BY <1>5, OrdersPopFill, OrdersSubmit, OrdersCancel
<1>6. CASE Gateway
  BY <1>6, OrdersTakeOrder, OrdersSendOrder, OrdersSendFails, OrdersEnd, OrdersPushSimFill, OrdersPublish
     DEF Gateway, ProcessOrder
<1>7. CASE Stream
  BY <1>7, OrdersReadReport, OrdersEnd, OrdersPushRealFill, OrdersPublish DEF Stream
<1> QED BY <1>1, <1>2, <1>3, <1>4, <1>5, <1>6, <1>7 DEF Next, Engine

\* An order that a callback of a strategy submitted is sent once and filled at
\* most once, and none is forgotten, past sends that fail and cancellations, from
\* the queue that took it to the fill the engine counts or could not take, or to
\* its end without one (main.cpp:172-182, strategy_engine.hpp:19-28).
THEOREM OrdersAreConserved == Spec => []OrdersConserved
<1>1. Init => OrdersInv
  BY DEF Init, OrdersInv, OrdersConserved, Places, Range, Waiting, WithGateway, WithStream, Offered,
         Publishing, submitted, NewOnce, Once
<1>2. TypeOK /\ OrdersInv /\ [Next]_vars => OrdersInv' BY TypeParts, OrdersStep
<1>3. OrdersInv => OrdersConserved BY DEF OrdersInv
<1> QED BY <1>1, <1>2, <1>3, TypeCorrect, PTL DEF Spec
=============================================================================
