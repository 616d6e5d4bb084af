------------------------------ MODULE Startup ------------------------------
(***************************************************************************)
(* src/app_config.hpp and the first half of src/main.cpp: from the command *)
(* line, the configuration file and the environment to the objects of one  *)
(* of the two modes, ready to be started; Pipeline takes over there.       *)
(*                                                                         *)
(* A section of the YAML file is a function from the keys it gives to      *)
(* their values.  Malformed stands for a scalar where the code expects a   *)
(* map or a list, whose keys cannot be read, and for a value that does not *)
(* convert; a null or a list in place of a map has no keys and is << >>.   *)
(* Strings are tokens: Empty is the empty one, those of DOMAIN Variable have *)
(* the form "${...}" that resolveEnv looks up.  Numbers that the code only *)
(* passes on are kept (quantities count tenths); the rate limit and the    *)
(* proxy port change their C++ type on the way and wrap.  URLs and hosts   *)
(* that are copied and never looked at are left out.                       *)
(***************************************************************************)
EXTENDS Integers, Sequences

CONSTANTS Flags,     \* the command lines: [replay, config, positional, exchange, live, simulate]
          Envs,      \* the environments: functions from variables to values
          Files,     \* the configuration files: functions from section names to sections
          Names,     \* the exchanges createGatewayV2 knows
          Variable,  \* the variable a "${...}" token refers to
          Malformed, \* a value of the wrong kind
          RateModulus, PortModulus  \* 2^32 and 2^16, the ranges of uint32_t and uint16_t

Empty == "(empty)"

ASSUME ModulusAssumption == RateModulus \in Nat /\ RateModulus > 100 /\ PortModulus \in Nat \ {0}
ASSUME VariableAssumption == Empty \notin DOMAIN Variable
ASSUME InputAssumption ==
    /\ Flags \subseteq [replay : STRING, config : STRING, positional : STRING,
                        exchange : STRING, live : BOOLEAN, simulate : BOOLEAN]
    /\ \A f \in Files \ {Malformed} : "exchanges" \in DOMAIN f =>
          \/ f.exchanges \in {Malformed, << >>}
          \/ f.exchanges[1] = Malformed
          \/ "proxy_port" \in DOMAIN f.exchanges[1] =>
                f.exchanges[1].proxy_port \in Int \cup {Malformed}
    /\ \A f \in Files \ {Malformed} : "strategies" \in DOMAIN f =>
          \/ f.strategies = Malformed
          \/ Len(f.strategies) \in Nat /\ DOMAIN f.strategies = 1..Len(f.strategies)

VARIABLES
    flags, env, file,  \* what the program is given; fixed
    pc,                \* the section or call main is at
    cfg,               \* AppConfig
    up,                \* the services initialised before the pipeline
    engine,            \* what the engine has been configured with
    gateway,           \* the order gateway: its exchange, simulate_fills, HTTP client
    feed               \* the market data gateway: exchange, proxy port, subscriptions

inputs == <<flags, env, file>>
built == <<up, engine, gateway, feed>>
vars == <<inputs, pc, cfg, built>>

\* config.hpp: RiskParameters().
RiskDefaults == [max_order_value |-> 100000, max_position_value |-> 500000,
                 max_orders_per_second |-> 100, max_total_position_value |-> 1000000,
                 min_available_capital |-> 10000, max_drawdown_percent |-> 20]

StrategyDefaults == [grid_low |-> 95, grid_high |-> 105, grid_levels |-> 5,
                     quantity |-> 1, symbol_id |-> 1]

\* The members of AppConfig and their initial values.
AppConfig == [config_path |-> Empty, log_dir |-> Empty, live_mode |-> FALSE, force_simulate |-> FALSE,
              strategies |-> << >>, exchange_name |-> "binance", exchange_url |-> Empty,
              api_key |-> Empty, api_secret |-> Empty, proxy_port |-> 0, symbols |-> << >>,
              risk |-> RiskDefaults, capital |-> 100000, output_dir |-> "./logs",
              zmq |-> [endpoint |-> "tcp://*:5555", hwm |-> 10000, linger |-> 1000]]

Init == /\ flags \in Flags /\ env \in Envs /\ file \in Files
        /\ pc = "parseArgs"
        /\ cfg = AppConfig
        /\ up = {}
        /\ engine = [risk |-> RiskDefaults, capital |-> 0, strategies |-> << >>]
        /\ gateway = [exchange |-> Empty, simulated |-> TRUE, client |-> "none"]
        /\ feed = [exchange |-> Empty, proxy |-> 0, symbols |-> << >>]

\* node[key].as<T>(fallback): the fallback is also for what does not convert.
Given(section, key) == key \in DOMAIN section /\ section[key] # Malformed
As(section, key, fallback) == IF Given(section, key) THEN section[key] ELSE fallback
Has(section) == file # Malformed /\ section \in DOMAIN file
Scalar(section) == Has(section) /\ file[section] = Malformed

\* The elements of a list at the indices in K, in their order.
Those(s, K) ==
    LET upTo[i \in 0..Len(s)] == IF i = 0 THEN << >>
                                 ELSE IF i \in K THEN Append(upTo[i - 1], s[i]) ELSE upTo[i - 1]
    IN  upTo[Len(s)]

\* A step of main that does not fail, and one that ends the program with 1.
Step(at, next) == pc = at /\ pc' = next /\ UNCHANGED inputs
Configure(at, next, new) == Step(at, next) /\ cfg' = new /\ UNCHANGED built
Return1(at) == Step(at, "failed") /\ UNCHANGED <<cfg, built>>

\* An exception of yaml-cpp outside the try block of LoadFile ends the program.
Throws(at) == Step(at, "aborted") /\ UNCHANGED <<cfg, built>>

\* A part of loadConfig that reads a key of a node, and throws if that is a scalar.
Load(at, next, bad, new) == IF bad THEN Throws(at) ELSE Configure(at, next, new)

-----------------------------------------------------------------------------
(* Faults, for showing that the properties can fail *)

LoadedRiskOther(r) == [RiskDefaults EXCEPT !.max_drawdown_percent = As(r, "max_drawdown_percent", 25)]
CredentialFromFile(section, key, variable) == As(section, key, Empty)
PortUnchanged(port) == port

-----------------------------------------------------------------------------
(* parseArgs and loadConfig *)

ParseArgs ==
    LET path == IF flags.config # Empty THEN flags.config ELSE flags.positional IN
    Configure("parseArgs", IF path = Empty THEN "failed" ELSE "open",
              [cfg EXCEPT !.config_path = path, !.log_dir = flags.replay,
                          !.live_mode = flags.live, !.force_simulate = flags.simulate,
                          !.exchange_name = flags.exchange])

\* YAML::LoadFile, which may throw.
OpenFile == \/ Return1("open")
            \/ Configure("open", "engine", cfg)

\* The first key that is read of the whole file is engine.
LoadEngine ==
    Load("engine", "strategies", file = Malformed \/ Scalar("engine"),
              IF Has("engine") THEN [cfg EXCEPT !.capital = As(file.engine, "initial_capital", 100000)]
                               ELSE cfg)

\* One entry of strategies; symbol_ids[0] is 1 if there is none or it does not convert.
Parameters(p) ==
    LET ids == As(p, "symbol_ids", << >>) IN
    [grid_low |-> As(p, "grid_low", 95), grid_high |-> As(p, "grid_high", 105),
     grid_levels |-> As(p, "grid_levels", 5), quantity |-> As(p, "quantity", 1),
     symbol_id |-> As(ids, 1, 1)]

StrategyCfg(s) ==
    [type |-> As(s, "name", "GridStrategy"),
     cfg |-> IF "parameters" \in DOMAIN s THEN Parameters(s.parameters) ELSE StrategyDefaults]

\* An entry is skipped if it says so; a scalar does not get that far.
Enabled(s) == s = Malformed \/ As(s, "enabled", TRUE)
EnabledStrategies ==
    IF Has("strategies") /\ file.strategies # Malformed
    THEN Those(file.strategies, {i \in DOMAIN file.strategies : Enabled(file.strategies[i])})
    ELSE << >>

\* A key of a scalar, or symbol_ids[0] of one, throws BadSubscript.
Unsubscriptable(s) ==
    \/ s = Malformed
    \/ /\ "parameters" \in DOMAIN s
       /\ s.parameters # Malformed => /\ "symbol_ids" \in DOMAIN s.parameters
                                     /\ s.parameters.symbol_ids = Malformed

LoadStrategies ==
    LET es == EnabledStrategies
    IN  Load("strategies", "exchanges", \E i \in DOMAIN es : Unsubscriptable(es[i]),
             [cfg EXCEPT !.strategies = [i \in DOMAIN es |-> StrategyCfg(es[i])]])

Getenv(variable) == As(env, variable, Empty)
ResolveEnv(token) == IF token \in DOMAIN Variable THEN Getenv(Variable[token]) ELSE token
OrElse(value, fallback) == IF value = Empty THEN fallback ELSE value

\* The key of the file, a variable it names, or the variable of the exchange.
Credential(section, key, variable) ==
    OrElse(ResolveEnv(As(section, key, Empty)), Getenv(variable))

HasExchange == Has("exchanges") /\ file.exchanges \notin {Malformed, << >>}
Symbols(ex) == As(ex, "symbols", << >>)
BadEntry(ex) == ex = Malformed \/ \E i \in DOMAIN Symbols(ex) : Symbols(ex)[i] = Malformed

\* Only the first entry is read, and the environment only if there is one.
LoadExchange ==
    LET ex == file.exchanges[1] IN
    \/ ~HasExchange /\ Configure("exchanges", "risk", cfg)
    \/ /\ HasExchange
       /\ Load("exchanges", "risk", BadEntry(ex),
              [cfg EXCEPT !.exchange_name = As(ex, "name", "binance"),
                          !.exchange_url = As(ex, "websocket_url", Empty),
                          !.proxy_port = As(ex, "proxy_port", 0),
                          !.api_key = Credential(ex, "api_key", "BINANCE_API_KEY"),
                          !.api_secret = Credential(ex, "api_secret", "BINANCE_API_SECRET"),
                          !.symbols = Symbols(ex)])

\* max_orders_per_second is read as an int into a uint32_t.
LoadedRisk(r) ==
    [max_order_value |-> As(r, "max_order_value", 100000),
     max_position_value |-> As(r, "max_position_value", 500000),
     max_orders_per_second |-> As(r, "max_orders_per_second", 100) % RateModulus,
     max_total_position_value |-> As(r, "max_total_position_value", 1000000),
     min_available_capital |-> As(r, "min_available_capital", 10000),
     max_drawdown_percent |-> As(r, "max_drawdown_percent", 20)]

LoadRisk == Load("risk", "output", Scalar("risk"),
                 IF Has("risk") THEN [cfg EXCEPT !.risk = LoadedRisk(file.risk)] ELSE cfg)

LoadedZmq(z) == [endpoint |-> As(z, "publish_endpoint", "tcp://*:5555"),
                 hwm |-> As(z, "high_water_mark", 10000), linger |-> As(z, "linger_ms", 1000)]

LoadOutput ==
    Load("output", "main", Scalar("log") \/ Scalar("zmq"),
        [cfg EXCEPT !.output_dir = IF Has("log") THEN As(file.log, "output_dir", "./logs") ELSE @,
                    !.zmq = IF Has("zmq") THEN LoadedZmq(file.zmq) ELSE @])

LoadConfig == OpenFile \/ LoadEngine \/ LoadStrategies \/ LoadExchange \/ LoadRisk \/ LoadOutput

-----------------------------------------------------------------------------
(* main, runFileReplay and runLive up to engine.start() *)

\* A build without the I/O layer has no live mode (lines 479-484).
ChooseMode == \/ cfg.live_mode /\ (Configure("main", "log", cfg) \/ Return1("main"))
              \/ ~cfg.live_mode /\ cfg.log_dir = Empty /\ Return1("main")
              \/ ~cfg.live_mode /\ cfg.log_dir # Empty /\ Configure("main", "openLogs", cfg)

\* Replay only: there is a tick log in the directory, or there is none.
OpenLogs == Return1("openLogs") \/ Configure("openLogs", "log", cfg)

\* A service whose initialisation may fail; the program goes on without it.
Initialise(at, next, service) == /\ Step(at, next)
                                 /\ up' \in {up, up \cup {service}}
                                 /\ UNCHANGED <<cfg, engine, gateway, feed>>

InitLog == \/ cfg.output_dir # Empty /\ Initialise("log", "zmq", "log")
           \/ cfg.output_dir = Empty /\ Configure("log", "zmq", cfg)
InitZmq == Initialise("zmq", "makeEngine", "zmq")

\* updateRiskParameters, setAvailableCapital, registerStrategies.
KnownType(s) == s.type \in {"grid", "GridStrategy"}
MakeEngine == /\ Step("makeEngine", IF cfg.live_mode THEN "checkUrl" ELSE "makeGateway")
              /\ engine' = [risk |-> cfg.risk, capital |-> cfg.capital,
                            strategies |-> Those(cfg.strategies,
                                                 {i \in DOMAIN cfg.strategies : KnownType(cfg.strategies[i])})]
              /\ UNCHANGED <<cfg, up, gateway, feed>>

CheckUrl == \/ cfg.exchange_url = Empty /\ Return1("checkUrl")
            \/ cfg.exchange_url # Empty /\ Configure("checkUrl", "makeGateway", cfg)

UseRealExecution == ~cfg.force_simulate /\ cfg.api_key # Empty /\ cfg.api_secret # Empty

\* Replay always simulates; for real execution main makes a BinanceHttpClient,
\* whatever the exchange is called.
MakeGateway == /\ Step("makeGateway", IF cfg.live_mode THEN "makeFeed" ELSE "pipeline")
               /\ gateway' = LET real == cfg.live_mode /\ UseRealExecution
                             IN  [exchange |-> IF cfg.live_mode THEN cfg.exchange_name ELSE "simulated",
                                  simulated |-> ~real, client |-> IF real THEN "binance" ELSE "none"]
               /\ UNCHANGED <<cfg, up, engine, feed>>

\* ExchangeConfig's proxy_port is a uint16_t, AppConfig's an int.
Port(port) == port % PortModulus

\* createGatewayV2 answers an empty AnyGateway for a name it does not know.
MakeFeed == \/ cfg.exchange_name \notin Names /\ Return1("makeFeed")
            \/ /\ cfg.exchange_name \in Names
               /\ Step("makeFeed", "pipeline")
               /\ feed' = [exchange |-> cfg.exchange_name, proxy |-> Port(cfg.proxy_port),
                            symbols |-> IF cfg.symbols = << >> THEN <<"btcusdt">> ELSE cfg.symbols]
               /\ UNCHANGED <<cfg, up, engine, gateway>>

Build == ChooseMode \/ OpenLogs \/ InitLog \/ InitZmq \/ MakeEngine \/ CheckUrl
         \/ MakeGateway \/ MakeFeed

Ended == pc \in {"failed", "aborted", "pipeline"} /\ UNCHANGED vars

Next == ParseArgs \/ LoadConfig \/ Build \/ Ended
Spec == Init /\ [][Next]_vars

-----------------------------------------------------------------------------
(* What must hold *)

\* The state has its types; the modes that reach the pipeline are Pipeline's.
TypeOK == /\ flags \in Flags /\ env \in Envs /\ file \in Files
          /\ pc \in {"parseArgs", "open", "engine", "strategies", "exchanges", "risk", "output",
                     "main", "openLogs", "log", "zmq", "makeEngine", "checkUrl", "makeGateway",
                     "makeFeed", "pipeline", "failed", "aborted"}
          /\ up \subseteq {"log", "zmq"}
          /\ cfg.live_mode \in BOOLEAN /\ cfg.force_simulate \in BOOLEAN
          /\ gateway.simulated \in BOOLEAN /\ gateway.client \in {"none", "binance"}
          /\ cfg.proxy_port \in Int /\ feed.proxy \in 0..(PortModulus - 1)

\* What a key or the environment supplies, whichever of them does.
Supplied(key, variable) ==
    LET ex == file.exchanges[1]
    IN  \/ Given(ex, key) /\ ex[key] \notin DOMAIN Variable \cup {Empty}
        \/ Given(ex, key) /\ ex[key] \in DOMAIN Variable /\ Getenv(Variable[ex[key]]) # Empty
        \/ Getenv(variable) # Empty

RealIsAskedFor == /\ flags.live /\ ~flags.simulate /\ HasExchange
                  /\ Supplied("api_key", "BINANCE_API_KEY")
                  /\ Supplied("api_secret", "BINANCE_API_SECRET")

\* The pipeline sends orders to the exchange exactly if the command line asks
\* for live mode and not for simulation, and both credentials are supplied by
\* the file or the environment (app_config.hpp:139-161, main.cpp:361-375); it has
\* an HTTP client then and only then.
RealExecutionIsMeant ==
    pc = "pipeline" => /\ gateway.simulated = ~RealIsAskedFor
                       /\ gateway.client = "none" <=> gateway.simulated

\* The parameter k is one the file supplies; of symbol_ids the first counts.
GivenParameter(p, k) == IF k = "symbol_id" THEN Given(As(p, "symbol_ids", << >>), 1) ELSE Given(p, k)

\* A limit or parameter the file leaves out, or gives in a form that does not
\* convert, has the value a program without that section runs with: the
\* fallbacks of loadConfig repeat the initial values of config.hpp:73-78 and
\* app_config.hpp:35-38 (which they must go on doing).
DefaultsAgree ==
    pc = "pipeline" =>
      /\ \A k \in DOMAIN RiskDefaults :
            engine.risk[k] = RiskDefaults[k] \/ (Has("risk") /\ Given(file.risk, k))
      /\ engine.capital = AppConfig.capital \/ (Has("engine") /\ Given(file.engine, "initial_capital"))
      /\ \A i \in DOMAIN engine.strategies : \E j \in DOMAIN file.strategies :
            \A k \in DOMAIN StrategyDefaults :
               \/ engine.strategies[i].cfg[k] = StrategyDefaults[k]
               \/ GivenParameter(As(file.strategies[j], "parameters", << >>), k)
=============================================================================
