----------------------------- MODULE MC_Startup -----------------------------
(* Command lines, environments and files that differ in everything loadConfig *)
(* and main look at.                                                          *)
EXTENDS Startup, TLC

Paths == {<<"file", Empty>>, <<Empty, "file">>, <<Empty, Empty>>}
AllFlags == {[replay |-> r, config |-> f[1], positional |-> f[2], exchange |-> "okx",
              live |-> l, simulate |-> sim] :
                r \in {Empty, "dir"}, f \in Paths, l \in BOOLEAN, sim \in BOOLEAN}
AllEnvs == {<< >>, "MY_KEY" :> "k", "BINANCE_API_KEY" :> "k" @@ "BINANCE_API_SECRET" :> Empty,
            "BINANCE_API_SECRET" :> "s", "BINANCE_API_KEY" :> "k" @@ "BINANCE_API_SECRET" :> "s"}
AllNames == {"binance", "okx"}
AllVariables == "${MY_KEY}" :> "MY_KEY" @@ "${NO}" :> "NO"

Url == "websocket_url" :> "wss"
Exchanges == {Malformed, << >>, <<Malformed>>, << << >> >>, <<Url>>,
              <<Url @@ "name" :> "okx">>, <<Url @@ "name" :> "kraken">>,
              <<Url @@ "api_key" :> "${MY_KEY}" @@ "api_secret" :> "${NO}">>,
              <<Url @@ "api_key" :> "key" @@ "proxy_port" :> 65536>>,
              <<Url @@ "api_key" :> Malformed @@ "api_secret" :> "secret" @@ "symbols" :> <<"eth">> >>,
              <<Url @@ "symbols" :> <<Malformed>> >>}
Rates == "max_orders_per_second" :> -1 @@ "max_drawdown_percent" :> Malformed
Strategies == {Malformed, <<Malformed>>,
               << << >>, "enabled" :> FALSE @@ "name" :> "grid" >>,
               << "parameters" :> ("grid_levels" :> 3 @@ "quantity" :> Malformed) @@ "name" :> "grid" >>,
               << "parameters" :> ("symbol_ids" :> Malformed) >>,
               << "parameters" :> ("symbol_ids" :> <<Malformed>>) @@ "name" :> "grid" >>,
               << "parameters" :> ("symbol_ids" :> <<2>>) @@ "name" :> "grid" >>, << "parameters" :> Malformed >>}
Sections(name, values) == {<< >>} \cup {name :> v : v \in values}
Others == {<< >>, "engine" :> << >> @@ "risk" :> << >> @@ "log" :> << >> @@ "zmq" :> << >>,
           "engine" :> ("initial_capital" :> Malformed) @@ "risk" :> Rates @@ "log" :> ("output_dir" :> Empty)}
\* A file, or one of the sections that are not lists, that is a scalar.
Scalars == {Malformed} \cup {name :> Malformed : name \in {"engine", "risk", "log", "zmq"}}
AllFiles == Scalars \cup {x @@ s @@ o : x \in Sections("exchanges", Exchanges),
                                       s \in Sections("strategies", Strategies), o \in Others}
=============================================================================
