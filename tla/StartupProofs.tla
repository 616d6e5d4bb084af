--------------------------- MODULE StartupProofs ---------------------------
(***************************************************************************)
(* Whatever is on the command line, in the file and in the environment:    *)
(* Startup keeps its types, and real orders are sent exactly if they are   *)
(* asked for, and what the file leaves out has its default.  The invariant *)
(* says, for each place main is at, what it has taken from the command     *)
(* line and from the exchange's entry so far.                              *)
(***************************************************************************)
EXTENDS Startup, SequenceTheorems, WellFoundedInduction, TLAPS

BeforeExchange == {"open", "engine", "strategies", "exchanges"}
AfterExchange == {"risk", "output", "main", "openLogs", "log", "zmq", "makeEngine",
                  "checkUrl", "makeGateway", "makeFeed", "pipeline"}

FlagsTaken == pc \in BeforeExchange \cup AfterExchange =>
                 cfg.live_mode = flags.live /\ cfg.force_simulate = flags.simulate
NoCredentialsYet == pc \in {"parseArgs"} \cup BeforeExchange => cfg.api_key = Empty /\ cfg.api_secret = Empty
CredentialsTaken ==
    pc \in AfterExchange =>
      /\ cfg.api_key # Empty <=> HasExchange /\ Supplied("api_key", "BINANCE_API_KEY")
      /\ cfg.api_secret # Empty <=> HasExchange /\ Supplied("api_secret", "BINANCE_API_SECRET")
GatewayMade ==
    pc \in {"makeFeed", "pipeline"} =>
      /\ gateway.simulated = ~(cfg.live_mode /\ UseRealExecution)
      /\ gateway.client = "none" <=> gateway.simulated

Members == {"config_path", "log_dir", "live_mode", "force_simulate", "strategies", "exchange_name",
            "exchange_url", "api_key", "api_secret", "proxy_port", "symbols", "risk", "capital",
            "output_dir", "zmq"}
CfgShape == DOMAIN cfg = Members
\* cfg keeps its members, and TypeOK says what they are.
TypeInv == TypeOK /\ CfgShape
StartInv == TypeInv /\ FlagsTaken /\ NoCredentialsYet /\ CredentialsTaken /\ GatewayMade

\* What loadConfig keeps as a credential is empty exactly if nothing supplies
\* it: the key of the file, the variable it names, or the default variable.
LEMMA CredentialSupplied ==
    ASSUME NEW key, NEW variable
    PROVE  Credential(file.exchanges[1], key, variable) # Empty <=> Supplied(key, variable)
BY VariableAssumption
   DEF Credential, Supplied, OrElse, ResolveEnv, Getenv, As, Given

LEMMA TypeStep == TypeInv /\ [Next]_vars => TypeInv'
<1> SUFFICES ASSUME TypeInv, [Next]_vars PROVE TypeInv'
  OBVIOUS
<1> USE DEF TypeInv, TypeOK, CfgShape, Members, Configure, Return1, Throws, Load, Step, inputs, built
<1>1. CASE ParseArgs
  BY <1>1, InputAssumption DEF ParseArgs
<1>2. CASE OpenFile
  BY <1>2 DEF OpenFile
<1>3. CASE LoadEngine
  BY <1>3 DEF LoadEngine
<1>4. CASE LoadStrategies
  BY <1>4 DEF LoadStrategies
<1>5. CASE LoadExchange
  <2>1. HasExchange /\ ~BadEntry(file.exchanges[1]) =>
          As(file.exchanges[1], "proxy_port", 0) \in Int
    BY InputAssumption DEF HasExchange, Has, As, Given, BadEntry
  <2> QED BY <1>5, <2>1 DEF LoadExchange
<1>6. CASE LoadRisk
  BY <1>6 DEF LoadRisk
<1>7. CASE LoadOutput
  BY <1>7 DEF LoadOutput
<1>8. CASE ChooseMode
  BY <1>8 DEF ChooseMode
<1>9. CASE OpenLogs
  BY <1>9 DEF OpenLogs
<1>10. CASE InitLog
  BY <1>10 DEF InitLog, Initialise
<1>11. CASE InitZmq
  BY <1>11 DEF InitZmq, Initialise
<1>12. CASE MakeEngine
  BY <1>12 DEF MakeEngine
<1>13. CASE CheckUrl
  BY <1>13 DEF CheckUrl
<1>14. CASE MakeGateway
  BY <1>14 DEF MakeGateway, UseRealExecution
<1>15. CASE MakeFeed
  <2>1. Port(cfg.proxy_port) \in 0..(PortModulus - 1)
    BY ModulusAssumption DEF Port
  <2>2. CASE cfg.exchange_name \notin Names
    BY <1>15, <2>2 DEF MakeFeed
  <2>3. CASE cfg.exchange_name \in Names
    <3>1. feed'.proxy \in 0..(PortModulus - 1) /\ UNCHANGED <<cfg, up, gateway, inputs>> /\ pc' = "pipeline"
      BY <1>15, <2>1, <2>3 DEF MakeFeed
    <3> QED BY <3>1
  <2> QED BY <2>2, <2>3
<1>16. CASE Ended
  BY <1>16 DEF Ended, vars
<1>17. CASE UNCHANGED vars
  BY <1>17 DEF vars
<1> HIDE DEF TypeInv, TypeOK, CfgShape
<1> QED BY <1>1, <1>2, <1>3, <1>4, <1>5, <1>6, <1>7, <1>8, <1>9, <1>10, <1>11, <1>12, <1>13, <1>14, <1>15, <1>16, <1>17 DEF Next, LoadConfig, Build

LEMMA TypeInit == Init => TypeInv
<1> SUFFICES ASSUME Init PROVE TypeInv
  OBVIOUS
<1>1. CfgShape
  BY DEF Init, CfgShape, AppConfig, Members
<1>2. feed.proxy \in 0..(PortModulus - 1)
  BY ModulusAssumption DEF Init
<1>3. cfg.proxy_port \in Int /\ cfg.live_mode \in BOOLEAN /\ cfg.force_simulate \in BOOLEAN
  BY DEF Init, AppConfig
<1> QED BY <1>1, <1>2, <1>3 DEF Init, TypeInv, TypeOK

\* The state of Startup keeps its types, and the proxy port fits its field.
THEOREM TypeCorrect == Spec => []TypeOK
<1>1. Init => TypeInv
  BY TypeInit
<1>2. TypeInv => TypeOK
  BY DEF TypeInv
<1> QED BY <1>1, <1>2, TypeStep, PTL DEF Spec

LEMMA StartStep == StartInv /\ [Next]_vars => StartInv'
<1> SUFFICES ASSUME StartInv, [Next]_vars PROVE StartInv'
  OBVIOUS
<1>0. TypeInv'
  BY TypeStep DEF StartInv
<1> USE DEF StartInv, FlagsTaken, NoCredentialsYet, CredentialsTaken, GatewayMade,
            BeforeExchange, AfterExchange, TypeInv, CfgShape, Members,
            Configure, Return1, Throws, Load, Step, inputs, built
<1>1. CASE ParseArgs
  BY <1>0, <1>1 DEF ParseArgs, Supplied, Getenv, As, Given, HasExchange, Has, UseRealExecution
<1>2. CASE OpenFile
  BY <1>0, <1>2 DEF OpenFile, Supplied, Getenv, As, Given, HasExchange, Has, UseRealExecution
<1>3. CASE LoadEngine
  BY <1>0, <1>3 DEF LoadEngine, Supplied, Getenv, As, Given, HasExchange, Has, UseRealExecution
<1>4. CASE LoadStrategies
  BY <1>0, <1>4 DEF LoadStrategies, Supplied, Getenv, As, Given, HasExchange, Has, UseRealExecution
<1>5. CASE LoadExchange
  <2>1. CASE ~HasExchange
    BY <1>0, <1>5, <2>1 DEF LoadExchange, HasExchange, Has, UseRealExecution
  <2>2. CASE HasExchange /\ BadEntry(file.exchanges[1])
    BY <1>0, <1>5, <2>2 DEF LoadExchange
  <2>3. CASE HasExchange /\ ~BadEntry(file.exchanges[1])
    <3>1. /\ pc' = "risk" /\ UNCHANGED <<inputs, built>>
          /\ cfg'.api_key = Credential(file.exchanges[1], "api_key", "BINANCE_API_KEY")
          /\ cfg'.api_secret = Credential(file.exchanges[1], "api_secret", "BINANCE_API_SECRET")
          /\ cfg'.live_mode = cfg.live_mode /\ cfg'.force_simulate = cfg.force_simulate
      BY <1>5, <2>3 DEF LoadExchange
    <3>2. CredentialsTaken'
      BY <3>1, <2>3, CredentialSupplied DEF HasExchange, Has, Supplied, Getenv, As, Given
    <3>3. pc = "exchanges"
      BY <1>5, <2>3 DEF LoadExchange
    <3> QED BY <1>0, <3>1, <3>2, <3>3
  <2> QED BY <2>1, <2>2, <2>3
<1>6. CASE LoadRisk
  BY <1>0, <1>6 DEF LoadRisk, Supplied, Getenv, As, Given, HasExchange, Has, UseRealExecution
<1>7. CASE LoadOutput
  BY <1>0, <1>7 DEF LoadOutput, Supplied, Getenv, As, Given, HasExchange, Has, UseRealExecution
<1>8. CASE ChooseMode
  BY <1>0, <1>8 DEF ChooseMode, Supplied, Getenv, As, Given, HasExchange, Has, UseRealExecution
<1>9. CASE OpenLogs
  BY <1>0, <1>9 DEF OpenLogs, Supplied, Getenv, As, Given, HasExchange, Has, UseRealExecution
<1>10. CASE InitLog
  BY <1>0, <1>10 DEF InitLog, Initialise, Supplied, Getenv, As, Given, HasExchange, Has, UseRealExecution
<1>11. CASE InitZmq
  BY <1>0, <1>11 DEF InitZmq, Initialise, Supplied, Getenv, As, Given, HasExchange, Has, UseRealExecution
<1>12. CASE MakeEngine
  BY <1>0, <1>12 DEF MakeEngine, Supplied, Getenv, As, Given, HasExchange, Has, UseRealExecution
<1>13. CASE CheckUrl
  BY <1>0, <1>13 DEF CheckUrl, Supplied, Getenv, As, Given, HasExchange, Has, UseRealExecution
<1>14. CASE MakeGateway
  BY <1>0, <1>14 DEF MakeGateway, Supplied, Getenv, As, Given, HasExchange, Has, UseRealExecution
<1>15. CASE MakeFeed
  BY <1>0, <1>15 DEF MakeFeed, Supplied, Getenv, As, Given, HasExchange, Has, UseRealExecution
<1>16. CASE Ended
  BY <1>0, <1>16 DEF Ended, vars, Supplied, Getenv, As, Given, HasExchange, Has, UseRealExecution
<1>17. CASE UNCHANGED vars
  BY <1>0, <1>17 DEF vars, Supplied, Getenv, As, Given, HasExchange, Has, UseRealExecution
<1> HIDE DEF StartInv
<1> QED BY <1>1, <1>2, <1>3, <1>4, <1>5, <1>6, <1>7, <1>8, <1>9, <1>10, <1>11, <1>12, <1>13, <1>14, <1>15, <1>16, <1>17 DEF Next, LoadConfig, Build

\* Real orders are sent exactly if live mode is asked for, simulation is not,
\* and both credentials are supplied (main.cpp:361-375).
THEOREM RealExecution == Spec => []RealExecutionIsMeant
<1>1. Init => TypeInv
  BY TypeInit
<1>2. Init => StartInv
  BY <1>1 DEF Init, StartInv, FlagsTaken, NoCredentialsYet, CredentialsTaken, GatewayMade,
              BeforeExchange, AfterExchange, AppConfig
<1>3. StartInv => RealExecutionIsMeant
  BY DEF StartInv, FlagsTaken, CredentialsTaken, GatewayMade, AfterExchange,
         BeforeExchange, RealExecutionIsMeant, RealIsAskedFor, UseRealExecution, TypeInv, TypeOK
<1> QED BY <1>2, <1>3, StartStep, PTL DEF Spec

-----------------------------------------------------------------------------
(* Lists: the elements that are kept are elements of the list.  The        *)
(* induction is put as a set of numbers that has 0 and the successor of    *)
(* each member.                                                            *)

\* A set of numbers with 0 and the successor of each member has every number.
LEMMA Induction ==
    ASSUME NEW S, S \subseteq Nat, 0 \in S, \A n \in S : n + 1 \in S
    PROVE  S = Nat
<1> DEFINE R == OpToRel(<, Nat)
           T == Nat \ S
<1>1. IsWellFoundedOn(R, Nat) BY NatLessThanWellFounded, Zenon
<1>2. \A m, n \in Nat : m < n => <<m, n>> \in R BY DEF OpToRel
<1> HIDE DEF R
<1>3. SUFFICES ASSUME T # {} PROVE FALSE OBVIOUS
<1>4. PICK m \in T : \A n \in T : ~(<<n, m>> \in R) BY <1>1, <1>3, WFMin
<1>5. m # 0 /\ m - 1 \in Nat /\ m - 1 < m BY <1>4
<1>6. m - 1 \in S BY <1>2, <1>4, <1>5
<1>7. (m - 1) + 1 \in S BY <1>6
<1> QED BY <1>4, <1>7

IsList(s) == Len(s) \in Nat /\ DOMAIN s = 1..Len(s)

\* F[i] is what is kept of the first i elements, for i up to n.
Keeps(F, s, K, n) ==
    /\ DOMAIN F = 0..n
    /\ \A i \in 0..n : F[i] = IF i = 0 THEN << >>
                              ELSE IF i \in K THEN Append(F[i - 1], s[i]) ELSE F[i - 1]

\* The recursive equation of Those has a solution.
LEMMA KeepsExist ==
    ASSUME NEW s, NEW K, NEW n \in Nat PROVE \E F : Keeps(F, s, K, n)
<1> DEFINE H == {m \in Nat : \E F : Keeps(F, s, K, m)}
<1>1. 0 \in H
  <2>1. Keeps([i \in 0..0 |-> << >>], s, K, 0) BY DEF Keeps
  <2> QED BY <2>1
<1>2. ASSUME NEW m \in H PROVE m + 1 \in H
  <2>1. m \in Nat OBVIOUS
  <2>2. PICK F : Keeps(F, s, K, m) OBVIOUS
  <2> DEFINE G == [i \in 0..m + 1 |->
                     IF i = m + 1 THEN IF i \in K THEN Append(F[m], s[i]) ELSE F[m] ELSE F[i]]
  <2>3. /\ DOMAIN G = 0..m + 1 /\ \A i \in 0..m : G[i] = F[i]
        /\ G[m + 1] = IF m + 1 \in K THEN Append(F[m], s[m + 1]) ELSE F[m]
    BY <2>1
  <2> HIDE DEF G
  <2>4. ASSUME NEW i \in 0..m + 1
        PROVE  G[i] = IF i = 0 THEN << >>
                      ELSE IF i \in K THEN Append(G[i - 1], s[i]) ELSE G[i - 1]
    <3>1. CASE i = m + 1
      <4>1. i # 0 /\ i - 1 = m /\ m \in 0..m BY <2>1, <3>1
      <4> QED BY <2>3, <3>1, <4>1
    <3>2. CASE i # m + 1
      <4>1. i \in 0..m /\ (i # 0 => i - 1 \in 0..m) BY <2>1, <3>2
      <4> QED BY <2>2, <2>3, <4>1 DEF Keeps
    <3> QED BY <3>1, <3>2
  <2>5. Keeps(G, s, K, m + 1) BY <2>3, <2>4 DEF Keeps
  <2> QED BY <2>1, <2>5
<1>3. H = Nat
  <2> HIDE DEF H
  <2>1. H \subseteq Nat BY DEF H
  <2> QED BY <1>1, <1>2, <2>1, Induction
<1> QED BY <1>3

\* What is kept of a list is a list of elements of it.
LEMMA ThoseAre ==
    ASSUME NEW s, IsList(s), NEW K
    PROVE  /\ IsList(Those(s, K))
           /\ \A i \in DOMAIN Those(s, K) : \E j \in DOMAIN s : Those(s, K)[i] = s[j]
<1> DEFINE N == Len(s)
           V == {s[j] : j \in 1..N}
           kept == CHOOSE F : F = [i \in 0..N |-> IF i = 0 THEN << >>
                                   ELSE IF i \in K THEN Append(F[i - 1], s[i]) ELSE F[i - 1]]
<1>1. Those(s, K) = kept[N] BY DEF Those
<1>2. N \in Nat /\ DOMAIN s = 1..N BY DEF IsList
<1> HIDE DEF N
<1>3. PICK F : Keeps(F, s, K, N) BY <1>2, KeepsExist
<1> DEFINE G == [i \in 0..N |-> F[i]]
<1>4. G = [i \in 0..N |-> IF i = 0 THEN << >>
                          ELSE IF i \in K THEN Append(G[i - 1], s[i]) ELSE G[i - 1]]
  BY <1>2, <1>3 DEF Keeps
<1>5. kept = [i \in 0..N |-> IF i = 0 THEN << >>
                           ELSE IF i \in K THEN Append(kept[i - 1], s[i]) ELSE kept[i - 1]]
  <2> HIDE DEF G
  <2> QED BY <1>4
<1>6. Keeps(kept, s, K, N)
  <2> HIDE DEF kept
  <2> QED BY <1>5 DEF Keeps
<1> HIDE DEF kept
<1> DEFINE H == {m \in Nat : m <= N => kept[m] \in Seq(V)}
<1>7. 0 \in H
  <2>1. kept[0] = << >> BY <1>2, <1>6 DEF Keeps
  <2>2. << >> \in Seq(V)
    <3> HIDE DEF V
    <3> QED OBVIOUS
  <2> QED BY <2>1, <2>2
<1>8. ASSUME NEW m \in H PROVE m + 1 \in H
  <2>1. m \in Nat /\ (m <= N => kept[m] \in Seq(V)) OBVIOUS
  <2>2. ASSUME m + 1 <= N PROVE kept[m + 1] \in Seq(V)
    <3>1. m + 1 \in 0..N /\ m + 1 # 0 /\ (m + 1) - 1 = m /\ m + 1 \in 1..N BY <1>2, <2>1, <2>2
    <3>2. kept[m + 1] = IF m + 1 \in K THEN Append(kept[m], s[m + 1]) ELSE kept[m]
      BY <1>6, <3>1 DEF Keeps
    <3>3. kept[m] \in Seq(V) BY <1>2, <2>1, <2>2
    <3>4. s[m + 1] \in V BY <3>1
    <3> HIDE DEF V
    <3>5. Append(kept[m], s[m + 1]) \in Seq(V) BY <3>3, <3>4
    <3> QED BY <3>2, <3>3, <3>5
  <2> QED BY <2>1, <2>2
<1>9. H = Nat
  <2> HIDE DEF H
  <2>1. H \subseteq Nat BY DEF H
  <2> QED BY <1>7, <1>8, <2>1, Induction
<1>10. kept[N] \in Seq(V) BY <1>2, <1>9
<1>11. Those(s, K) \in Seq(V) BY <1>1, <1>10
<1>12. IsList(Those(s, K)) /\ \A i \in DOMAIN Those(s, K) : Those(s, K)[i] \in V
  <2> HIDE DEF V
  <2> QED BY <1>11 DEF IsList
<1> QED BY <1>2, <1>12

-----------------------------------------------------------------------------
(* Defaults *)

\* Has, of any file.
HasIn(f, section) == f # Malformed /\ section \in DOMAIN f

\* What agrees with the defaults where the file f does not say otherwise.
RiskAgrees(f, r) ==
    \A k \in DOMAIN RiskDefaults :
       r[k] = RiskDefaults[k] \/ (HasIn(f, "risk") /\ Given(f.risk, k))
CapitalAgrees(f, c) ==
    c = AppConfig.capital \/ (HasIn(f, "engine") /\ Given(f.engine, "initial_capital"))
StrategyAgrees(f, e) ==
    \E j \in DOMAIN f.strategies : \A k \in DOMAIN StrategyDefaults :
       \/ e.cfg[k] = StrategyDefaults[k]
       \/ GivenParameter(As(f.strategies[j], "parameters", << >>), k)
ListAgrees(f, l) == IsList(l) /\ \A i \in DOMAIN l : StrategyAgrees(f, l[i])

Made == {"checkUrl", "makeGateway", "makeFeed", "pipeline"}
DefaultsInv ==
    /\ RiskAgrees(file, cfg.risk) /\ RiskAgrees(file, engine.risk)
    /\ CapitalAgrees(file, cfg.capital)
    /\ pc \in Made => CapitalAgrees(file, engine.capital)
    /\ ListAgrees(file, cfg.strategies) /\ ListAgrees(file, engine.strategies)

\* A key that is read has its fallback or is given.
LEMMA AsIs == \A section, key, fallback :
                 As(section, key, fallback) = fallback \/ Given(section, key)
  BY DEF As

\* The risk section: the rate limit's default fits its type.
LEMMA RiskLoaded ==
    ASSUME Has("risk") PROVE RiskAgrees(file, LoadedRisk(file.risk))
<1>1. 100 % RateModulus = 100 BY ModulusAssumption
<1>2. \A k \in DOMAIN RiskDefaults :
        LoadedRisk(file.risk)[k] = RiskDefaults[k] \/ Given(file.risk, k)
  BY <1>1, AsIs DEF LoadedRisk, RiskDefaults
<1> QED BY <1>2 DEF RiskAgrees, HasIn, Has

\* An entry of strategies whose keys can be read.
LEMMA StrategyLoaded ==
    ASSUME NEW j \in DOMAIN file.strategies, ~Unsubscriptable(file.strategies[j])
    PROVE  StrategyAgrees(file, StrategyCfg(file.strategies[j]))
<1>1. PICK s : s = file.strategies[j] OBVIOUS
<1>2. \A k \in DOMAIN StrategyDefaults :
         \/ StrategyCfg(s).cfg[k] = StrategyDefaults[k]
         \/ GivenParameter(As(s, "parameters", << >>), k)
  <2>1. CASE "parameters" \notin DOMAIN s BY <2>1 DEF StrategyCfg
  <2>2. CASE "parameters" \in DOMAIN s
    <3>1. s.parameters # Malformed BY <1>1, <2>2 DEF Unsubscriptable
    <3>2. As(s, "parameters", << >>) = s.parameters BY <2>2, <3>1 DEF As, Given
    <3>3. StrategyCfg(s).cfg = Parameters(s.parameters) BY <2>2 DEF StrategyCfg
    <3>4. PICK p : p = s.parameters OBVIOUS
    <3>5. \A k \in DOMAIN StrategyDefaults :
             \/ Parameters(p)[k] = StrategyDefaults[k]
             \/ GivenParameter(p, k)
      <4>1. Parameters(p).symbol_id = 1 \/ Given(As(p, "symbol_ids", << >>), 1)
        BY AsIs DEF Parameters
      <4>2. /\ Parameters(p).grid_low = 95 \/ Given(p, "grid_low")
            /\ Parameters(p).grid_high = 105 \/ Given(p, "grid_high")
            /\ Parameters(p).grid_levels = 5 \/ Given(p, "grid_levels")
            /\ Parameters(p).quantity = 1 \/ Given(p, "quantity")
        BY AsIs DEF Parameters
      <4> QED BY <4>1, <4>2 DEF StrategyDefaults, GivenParameter
    <3> QED BY <3>2, <3>3, <3>4, <3>5
  <2> QED BY <2>1, <2>2
<1> QED BY <1>1, <1>2 DEF StrategyAgrees

\* Every strategy that is loaded agrees with an entry of the file.
LEMMA StrategiesLoaded ==
    ASSUME TypeInv, LoadStrategies, pc' # "aborted"
    PROVE  file' = file /\ ListAgrees(file, cfg'.strategies)
<1>1. PICK es : es = EnabledStrategies OBVIOUS
<1>2. /\ ~(\E i \in DOMAIN es : Unsubscriptable(es[i])) /\ file' = file
      /\ cfg'.strategies = [i \in DOMAIN es |-> StrategyCfg(es[i])]
  BY <1>1 DEF LoadStrategies, Load, Throws, Configure, Step, inputs, TypeInv, CfgShape, Members
<1>3. IsList(es) /\ \A i \in DOMAIN es : \E j \in DOMAIN file.strategies : es[i] = file.strategies[j]
  <2>1. CASE Has("strategies") /\ file.strategies # Malformed
    <3>1. IsList(file.strategies)
      BY <2>1, InputAssumption DEF Has, IsList, TypeInv, TypeOK
    <3>2. PICK K : es = Those(file.strategies, K) BY <1>1, <2>1 DEF EnabledStrategies
    <3> QED BY <3>1, <3>2, ThoseAre
  <2>2. CASE ~(Has("strategies") /\ file.strategies # Malformed)
    BY <1>1, <2>2 DEF EnabledStrategies, IsList
  <2> QED BY <2>1, <2>2
<1>4. ASSUME NEW i \in DOMAIN es PROVE StrategyAgrees(file, StrategyCfg(es[i]))
  <2>1. PICK j \in DOMAIN file.strategies : es[i] = file.strategies[j] BY <1>3
  <2> QED BY <1>2, <2>1, StrategyLoaded
<1>5. /\ IsList(cfg'.strategies) /\ DOMAIN cfg'.strategies = DOMAIN es
      /\ \A i \in DOMAIN es : cfg'.strategies[i] = StrategyCfg(es[i])
  <2>1. [i \in DOMAIN es |-> StrategyCfg(es[i])] \in Seq({StrategyCfg(es[i]) : i \in DOMAIN es})
    BY <1>3 DEF IsList
  <2> QED BY <1>2, <2>1 DEF IsList
<1> QED BY <1>2, <1>4, <1>5 DEF ListAgrees

\* A step that leaves these members alone and does not go past makeEngine.
LEMMA DefaultsStay ==
    ASSUME DefaultsInv, UNCHANGED <<file, engine>>, cfg'.risk = cfg.risk,
           cfg'.capital = cfg.capital, cfg'.strategies = cfg.strategies, pc' \in Made => pc \in Made
    PROVE  DefaultsInv'
  BY DEF DefaultsInv

\* Every step keeps the defaults, until the engine has them.
LEMMA DefaultsStep ==
    ASSUME TypeInv, DefaultsInv, [Next]_vars PROVE DefaultsInv'
<1> USE DEF Configure, Return1, Throws, Load, Step, inputs, built
<1>0. {"risk", "capital", "strategies"} \subseteq DOMAIN cfg BY DEF TypeInv, CfgShape, Members
<1>1. CASE ParseArgs BY <1>0, <1>1, DefaultsStay DEF ParseArgs, Made
<1>2. CASE OpenFile BY <1>2, DefaultsStay DEF OpenFile, Made
<1>3. CASE LoadEngine
  <2>1. CASE pc' = "aborted" BY <1>3, <2>1, DefaultsStay DEF LoadEngine, Made
  <2>2. CASE pc' # "aborted"
    <3>1. /\ UNCHANGED <<file, engine>> /\ pc' \notin Made
          /\ cfg'.risk = cfg.risk /\ cfg'.strategies = cfg.strategies
      BY <1>0, <1>3, <2>2 DEF LoadEngine, Made
    <3>2. CASE Has("engine")
      <4>1. cfg'.capital = As(file.engine, "initial_capital", 100000)
        BY <1>0, <1>3, <2>2, <3>2 DEF LoadEngine
      <4>2. CapitalAgrees(file, cfg'.capital)
        BY <3>2, <4>1, AsIs DEF CapitalAgrees, AppConfig, Has, HasIn
      <4> QED BY <3>1, <4>2 DEF DefaultsInv
    <3>3. CASE ~Has("engine") BY <1>3, <3>1, <3>3 DEF LoadEngine, DefaultsInv
    <3> QED BY <3>2, <3>3
  <2> QED BY <2>1, <2>2
<1>4. CASE LoadStrategies
  <2>1. CASE pc' = "aborted" BY <1>4, <2>1, DefaultsStay DEF LoadStrategies, Made
  <2>2. CASE pc' # "aborted"
    <3>1. /\ UNCHANGED <<file, engine>> /\ pc' \notin Made
          /\ cfg'.risk = cfg.risk /\ cfg'.capital = cfg.capital
      BY <1>0, <1>4, <2>2 DEF LoadStrategies, Made
    <3>2. ListAgrees(file, cfg'.strategies) BY <1>4, <2>2, StrategiesLoaded
    <3> QED BY <3>1, <3>2 DEF DefaultsInv
  <2> QED BY <2>1, <2>2
<1>5. CASE LoadExchange BY <1>0, <1>5, DefaultsStay DEF LoadExchange, Made
<1>6. CASE LoadRisk
  <2>1. CASE pc' = "aborted" BY <1>6, <2>1, DefaultsStay DEF LoadRisk, Made
  <2>2. CASE pc' # "aborted"
    <3>1. /\ UNCHANGED <<file, engine>> /\ pc' \notin Made
          /\ cfg'.capital = cfg.capital /\ cfg'.strategies = cfg.strategies
      BY <1>0, <1>6, <2>2 DEF LoadRisk, Made
    <3>2. CASE Has("risk")
      <4>1. cfg'.risk = LoadedRisk(file.risk) BY <1>0, <1>6, <2>2, <3>2 DEF LoadRisk
      <4> QED BY <3>1, <3>2, <4>1, RiskLoaded DEF DefaultsInv
    <3>3. CASE ~Has("risk") BY <1>6, <3>1, <3>3 DEF LoadRisk, DefaultsInv
    <3> QED BY <3>2, <3>3
  <2> QED BY <2>1, <2>2
<1>7. CASE LoadOutput BY <1>0, <1>7, DefaultsStay DEF LoadOutput, Made
<1>8. CASE ChooseMode BY <1>8, DefaultsStay DEF ChooseMode, Made
<1>9. CASE OpenLogs BY <1>9, DefaultsStay DEF OpenLogs, Made
<1>10. CASE InitLog BY <1>10, DefaultsStay DEF InitLog, Initialise, Made
<1>11. CASE InitZmq BY <1>11, DefaultsStay DEF InitZmq, Initialise, Made
<1>12. CASE MakeEngine
  <2>1. PICK K : engine' = [risk |-> cfg.risk, capital |-> cfg.capital,
                            strategies |-> Those(cfg.strategies, K)]
    BY <1>12 DEF MakeEngine
  <2>2. UNCHANGED <<file, cfg>> BY <1>12 DEF MakeEngine
  <2>3. IsList(cfg.strategies) /\ \A i \in DOMAIN cfg.strategies : StrategyAgrees(file, cfg.strategies[i])
    BY DEF DefaultsInv, ListAgrees
  <2>4. PICK l : l = Those(cfg.strategies, K) OBVIOUS
  <2>5. IsList(l) /\ \A i \in DOMAIN l : \E j \in DOMAIN cfg.strategies : l[i] = cfg.strategies[j]
    BY <2>3, <2>4, ThoseAre
  <2>6. ListAgrees(file, l) BY <2>3, <2>5 DEF ListAgrees
  <2>7. engine'.risk = cfg.risk /\ engine'.capital = cfg.capital /\ engine'.strategies = l
    BY <2>1, <2>4
  <2> QED BY <2>2, <2>6, <2>7 DEF DefaultsInv
<1>13. CASE CheckUrl BY <1>13, DefaultsStay DEF CheckUrl, Made
<1>14. CASE MakeGateway BY <1>14, DefaultsStay DEF MakeGateway, Made
<1>15. CASE MakeFeed BY <1>15, DefaultsStay DEF MakeFeed, Made
<1>16. CASE Ended BY <1>16, DefaultsStay DEF Ended, vars, Made
<1>17. CASE UNCHANGED vars BY <1>17, DefaultsStay DEF vars, Made
<1> QED BY <1>1, <1>2, <1>3, <1>4, <1>5, <1>6, <1>7, <1>8, <1>9, <1>10, <1>11, <1>12, <1>13,
           <1>14, <1>15, <1>16, <1>17 DEF Next, LoadConfig, Build

\* What a file leaves out, or gives in a form that does not convert, has the
\* value of a program without that section: the fallbacks of loadConfig repeat
\* the initial values of config.hpp:73-78 and app_config.hpp:35-38.
THEOREM DefaultsAreOne == Spec => []DefaultsAgree
<1>1. Init => DefaultsInv
  <2> SUFFICES ASSUME Init PROVE DefaultsInv OBVIOUS
  <2>1. /\ cfg.risk = RiskDefaults /\ engine.risk = RiskDefaults
        /\ cfg.capital = AppConfig.capital /\ pc \notin Made
        /\ cfg.strategies = << >> /\ engine.strategies = << >>
    BY DEF Init, AppConfig, Made
  <2>2. ListAgrees(file, << >>) BY DEF ListAgrees, IsList
  <2>3. RiskAgrees(file, RiskDefaults) BY DEF RiskAgrees
  <2> QED BY <2>1, <2>2, <2>3 DEF DefaultsInv, CapitalAgrees
<1>2. TypeInv /\ DefaultsInv /\ [Next]_vars => DefaultsInv' BY DefaultsStep
<1>3. DefaultsInv => DefaultsAgree
  BY DEF DefaultsInv, RiskAgrees, CapitalAgrees, ListAgrees, StrategyAgrees, Made, DefaultsAgree, Has, HasIn
<1>4. Init => TypeInv BY TypeInit
<1> QED BY <1>1, <1>2, <1>3, <1>4, TypeStep, PTL DEF Spec
=============================================================================
