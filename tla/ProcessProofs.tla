---------------------------- MODULE ProcessProofs ---------------------------
(***************************************************************************)
(* The process from its configuration to its exit.  For any configuration  *)
(* and environment: what a server that starts runs with, and why one that  *)
(* does not fails.  For any number of tool calls and scrapes: that the     *)
(* exit code tells why the process ended.                                  *)
(***************************************************************************)
EXTENDS Lifecycle, ServerConfig, FiniteSetTheorems, SequenceTheorems,
        WellFoundedInduction, TLAPS

-----------------------------------------------------------------------------
(* The end of the process.                                                 *)

(* What ExitTellsWhy rests on while the process is alive: a shutdown has   *)
(* been asked for, an error in errCh is the MCP server's, and nothing is   *)
(* cut off before the exit.                                                *)
AliveInv ==
    /\ main \in Draining => signalled
    /\ errCh => listener["mcp"] = "failed"

IndInv == TypeOK /\ AliveInv /\ ExitTellsWhy

-----------------------------------------------------------------------------

(* A server that is closed is one that listens no more.                    *)
LEMMA Closed ==
    ASSUME TypeOK, NEW s \in Servers, listener[s] # "off", Close(s)
    PROVE  /\ listener' \in [Servers -> {"off", "starting", "open", "closed", "failed"}]
           /\ listener'[s] \in {"closed", "failed"}
           /\ \A t \in Servers \ {s} : listener'[t] = listener[t]
           /\ listener[s] = "failed" => listener'[s] = "failed"
  BY DEF TypeOK, Close, Servers

(* An exit cuts off the open requests, and no others.                      *)
LEMMA Cut ==
    ASSUME TypeOK, NEW code \in Exits, Exit(code)
    PROVE  /\ main' = code
           /\ request' \in [Requests -> {"none", "open", "ended", "cut"}]
           /\ \A r \in Requests : request'[r] = "cut" => request[r] \in {"open", "cut"}
  BY DEF TypeOK, Exit

(* Initially nothing has happened.                                         *)
LEMMA InitInv == Init => IndInv
  BY DEF Init, IndInv, TypeOK, AliveInv, ExitTellsWhy, Servers, Draining, Exits, Requests

-----------------------------------------------------------------------------
(* run.                                                                    *)

LEMMA ReceiveInv == IndInv /\ Receive => IndInv'
  <1> SUFFICES ASSUME IndInv, Receive PROVE IndInv'
    OBVIOUS
  <1> USE DEF IndInv, Receive
  <1>1. /\ main' = "exit 1"
        /\ request' \in [Requests -> {"none", "open", "ended", "cut"}]
    BY Cut DEF Exits
  <1>2. TypeOK'
    BY <1>1 DEF TypeOK, Exits
  <1>3. AliveInv'
    BY <1>1 DEF AliveInv, Draining
  <1>4. ExitTellsWhy'
    BY <1>1 DEF ExitTellsWhy, AliveInv
  <1>5. QED
    BY <1>2, <1>3, <1>4

LEMMA ShutdownInv == IndInv /\ Shutdown => IndInv'
  <1> SUFFICES ASSUME IndInv, Shutdown PROVE IndInv'
    OBVIOUS
  <1> DEFINE s == IF listener["metrics"] = "off" THEN "mcp" ELSE "metrics"
  <1>1. s \in Servers /\ listener[s] # "off" /\ Close(s)
    BY DEF IndInv, TypeOK, Shutdown, Servers
  <1>2. /\ listener' \in [Servers -> {"off", "starting", "open", "closed", "failed"}]
        /\ listener'[s] \in {"closed", "failed"}
        /\ \A t \in Servers \ {s} : listener'[t] = listener[t]
        /\ listener[s] = "failed" => listener'[s] = "failed"
    BY <1>1, Closed DEF IndInv
  <1>3. /\ main' = IF s = "mcp" THEN "poll mcp" ELSE "poll metrics"
        /\ signalled
        /\ main = "serving"
        /\ UNCHANGED <<errCh, signalled, graceOver, request>>
    BY DEF Shutdown
  <1>4. TypeOK'
    BY <1>2, <1>3 DEF IndInv, TypeOK, Servers, Draining
  <1>5. AliveInv'
    BY <1>2, <1>3 DEF IndInv, AliveInv, Servers
  <1>6. ExitTellsWhy'
    BY <1>3 DEF IndInv, ExitTellsWhy
  <1>7. QED
    BY <1>4, <1>5, <1>6 DEF IndInv

(* After the metrics server's Shutdown, however it ends.                   *)
LEMMA NextServerInv ==
    ASSUME IndInv, main \in {"poll metrics", "wait metrics"},
           NEW code, Return("metrics", code)
    PROVE  IndInv'
  <1>1. Close("mcp") /\ "mcp" \in Servers /\ listener["mcp"] # "off"
    BY DEF Return, IndInv, TypeOK, Servers
  <1>2. /\ listener' \in [Servers -> {"off", "starting", "open", "closed", "failed"}]
        /\ listener'["mcp"] \in {"closed", "failed"}
        /\ listener["mcp"] = "failed" => listener'["mcp"] = "failed"
    BY <1>1, Closed DEF IndInv
  <1>3. /\ main' = "poll mcp"
        /\ UNCHANGED <<errCh, signalled, graceOver, request>>
    BY DEF Return
  <1>4. TypeOK'
    BY <1>2, <1>3 DEF IndInv, TypeOK, Draining
  <1>5. AliveInv'
    BY <1>2, <1>3 DEF IndInv, AliveInv, Draining
  <1>6. ExitTellsWhy'
    BY <1>3 DEF IndInv, ExitTellsWhy
  <1>7. QED
    BY <1>4, <1>5, <1>6 DEF IndInv

LEMMA DrainMetricsInv ==
    IndInv /\ Drain("metrics", "poll metrics", "wait metrics") => IndInv'
  <1> SUFFICES ASSUME IndInv, Drain("metrics", "poll metrics", "wait metrics") PROVE IndInv'
    OBVIOUS
  <1>1. CASE /\ main = "poll metrics"
             /\ Return("metrics", "exit 0")
    BY <1>1, NextServerInv
  <1>2. CASE /\ main \in {"poll metrics", "wait metrics"}
             /\ main' \in {"poll metrics", "wait metrics"}
             /\ UNCHANGED <<listener, errCh, signalled, graceOver, request>>
    BY <1>2 DEF IndInv, TypeOK, AliveInv, ExitTellsWhy, Draining
  <1>3. CASE GiveUp("metrics", "wait metrics")
    BY <1>3, NextServerInv DEF GiveUp
  <1>4. QED
    BY <1>1, <1>2, <1>3 DEF Drain, Look, LookAgain

LEMMA DrainMcpInv ==
    IndInv /\ Drain("mcp", "poll mcp", "wait mcp") => IndInv'
  <1> SUFFICES ASSUME IndInv, Drain("mcp", "poll mcp", "wait mcp") PROVE IndInv'
    OBVIOUS
  <1> USE DEF IndInv
  <1>1. CASE /\ main = "poll mcp"
             /\ Idle("mcp")
             /\ Return("mcp", "exit 0")
    <2>1. /\ main' = "exit 0"
          /\ request' \in [Requests -> {"none", "open", "ended", "cut"}]
          /\ \A r \in Requests : request'[r] = "cut" => request[r] \in {"open", "cut"}
          /\ UNCHANGED <<listener, errCh, signalled, graceOver>>
      BY <1>1, Cut DEF Return, Exits
    <2>2. \A c \in Calls : c \in Requests /\ request[c] # "open" /\ request[c] # "cut"
      BY <1>1 DEF Idle, Server, ExitTellsWhy, Requests
    <2>3. ExitTellsWhy'
      BY <1>1, <2>1, <2>2 DEF ExitTellsWhy, AliveInv, Draining
    <2>4. QED
      BY <1>1, <2>1, <2>3 DEF TypeOK, AliveInv, Draining, Exits
  <1>2. CASE /\ main \in {"poll mcp", "wait mcp"}
             /\ main' \in {"poll mcp", "wait mcp"}
             /\ UNCHANGED <<listener, errCh, signalled, graceOver, request>>
    BY <1>2 DEF TypeOK, AliveInv, ExitTellsWhy, Draining
  <1>3. CASE GiveUp("mcp", "wait mcp")
    <2>1. /\ main = "wait mcp"
          /\ graceOver
          /\ main' = "exit 1"
          /\ request' \in [Requests -> {"none", "open", "ended", "cut"}]
          /\ UNCHANGED <<listener, errCh, signalled, graceOver>>
      BY <1>3, Cut DEF GiveUp, Return, Exits
    <2>2. ExitTellsWhy'
      BY <2>1 DEF ExitTellsWhy, AliveInv, Draining
    <2>3. QED
      BY <2>1, <2>2 DEF TypeOK, AliveInv, Draining, Exits
  <1>4. QED
    BY <1>1, <1>2, <1>3 DEF Drain, Look, LookAgain

-----------------------------------------------------------------------------
(* The servers' goroutines and the world.                                  *)

LEMMA ListenerInv ==
    ASSUME IndInv, NEW s \in Servers, Listen(s) \/ Fail(s)
    PROVE  IndInv'
  <1> USE DEF IndInv
  <1>1. TypeOK'
    BY DEF TypeOK, Listen, Fail, Servers
  <1>2. AliveInv'
    <2>1. main' = main /\ signalled' = signalled
      BY DEF Listen, Fail
    <2>2. errCh' => errCh \/ (s = "mcp" /\ Fail(s))
      BY DEF Listen, Fail
    <2>3. listener["mcp"] = "failed" => listener'["mcp"] = "failed"
      BY DEF Listen, Fail, TypeOK, Servers
    <2>4. s = "mcp" /\ Fail(s) => listener'["mcp"] = "failed"
      BY DEF Fail, TypeOK
    <2>5. QED
      BY <2>1, <2>2, <2>3, <2>4 DEF AliveInv
  <1>3. ExitTellsWhy'
    BY DEF ExitTellsWhy, Listen, Fail, Alive, Exits
  <1>4. QED
    BY <1>1, <1>2, <1>3

LEMMA WorldInv ==
    ASSUME IndInv, Signal \/ Expire \/ \E r \in Requests : Request(r) \/ End(r)
    PROVE  IndInv'
  <1> USE DEF IndInv
  <1>1. CASE Signal
    BY <1>1 DEF Signal, TypeOK, AliveInv, ExitTellsWhy, Alive, Exits
  <1>2. CASE Expire
    BY <1>2 DEF Expire, TypeOK, AliveInv, ExitTellsWhy, Draining, Exits
  <1>3. ASSUME NEW r \in Requests, Request(r) \/ End(r)
        PROVE  IndInv'
    <2>1. TypeOK'
      BY <1>3 DEF Request, End, TypeOK
    <2>2. AliveInv'
      BY <1>3 DEF Request, End, AliveInv
    <2>3. ExitTellsWhy'
      BY <1>3 DEF Request, End, TypeOK, ExitTellsWhy, Alive, Exits, Requests
    <2>4. QED
      BY <2>1, <2>2, <2>3
  <1>4. QED
    BY <1>1, <1>2, <1>3

-----------------------------------------------------------------------------

(* What the two theorems are consequences of, for every number of calls    *)
(* and scrapes.                                                            *)
LEMMA Inductive == Spec => []IndInv
  <1>1. IndInv /\ [Next]_vars => IndInv'
    <2> SUFFICES ASSUME IndInv, [Next]_vars PROVE IndInv'
      OBVIOUS
    <2>1. CASE Run
      BY <2>1, ReceiveInv, ShutdownInv, DrainMetricsInv, DrainMcpInv DEF Run
    <2>2. CASE \E s \in Servers : Listen(s) \/ Fail(s)
      BY <2>2, ListenerInv
    <2>3. CASE Signal \/ Expire \/ \E r \in Requests : Request(r) \/ End(r)
      BY <2>3, WorldInv
    <2>4. CASE UNCHANGED vars
      BY <2>4 DEF vars, IndInv, TypeOK, AliveInv, ExitTellsWhy
    <2>5. QED
      BY <2>1, <2>2, <2>3, <2>4 DEF Next
  <1>2. QED
    BY <1>1, InitInv, PTL DEF Spec

(* Every variable keeps its type, and no server takes a request once its   *)
(* shutdown has begun: ListenAndServe has ended (main.go:162-164).         *)
THEOREM TypeCorrect == Spec => []TypeOK
  BY Inductive, PTL DEF IndInv

(* The exit code tells why the process ended (main.go:50-53, 152-164): no  *)
(* tool call is cut off by an end that is called a success, and no failure *)
(* is without its reason.                                                  *)
THEOREM ExitIsExplained == Spec => []ExitTellsWhy
  BY Inductive, PTL DEF IndInv

-----------------------------------------------------------------------------
(* From the configuration to the servers.                                  *)

(* What the environment says of the agent's authentication prevails.       *)
EnvPrevails(a, e) ==
    /\ e.authEnabled \in Truthy => a.enabled
    /\ e.authEnabled \in Falsy => ~a.enabled
    /\ e.staticToken # Unset => a.staticEnabled
    /\ e.issuer # Unset => a.oidcEnabled /\ a.issuer = e.issuer

LEMMA TruthyIsNotFalsy == \A v : v \in Truthy => v \notin Falsy
  BY DEF Truthy, Falsy

LEMMA OverrideBoolIs ==
    ASSUME NEW value \in BOOLEAN, NEW v
    PROVE  /\ OverrideBool(value, v) \in BOOLEAN
           /\ v \in Truthy => OverrideBool(value, v)
           /\ v \in Falsy => ~OverrideBool(value, v)
<1>1. CASE v \in Truthy
  BY <1>1, TruthyIsNotFalsy DEF OverrideBool
<1>2. CASE v \in Falsy
  BY <1>2, TruthyIsNotFalsy DEF OverrideBool
<1>3. CASE v \notin Truthy \cup Falsy
  BY <1>3 DEF OverrideBool
<1> QED
  BY <1>1, <1>2, <1>3

LEMMA EnvTokenType ==
    ASSUME NEW e \in Environment
    PROVE  EnvToken(e) \in Seq(AuthToken)
<1>1. e.staticToken \in Text
  BY DEF Environment
<1>2. [name |-> "env", token |-> e.staticToken, tokenFile |-> Unset] \in AuthToken
  BY <1>1 DEF AuthToken, Text
<1> QED
  BY <1>2 DEF EnvToken

LEMMA WithEnvAuth ==
    ASSUME NEW c \in Config, NEW e \in Environment
    PROVE  /\ WithEnv(c, e) \in Config
           /\ LET a == WithEnv(c, e).auth
              IN  /\ a.tokens = c.auth.tokens \o EnvToken(e)
                  /\ EnvPrevails(a, e)
<1>1. /\ c.auth \in Auth /\ c.auth.tokens \in Seq(AuthToken)
      /\ e.logLevel \in Text /\ e.defaultInstance \in Text /\ e.issuer \in Text
      /\ e.audience \in Text /\ e.resource \in Text
  BY DEF Config, Auth, Environment
<1>2. c.auth.tokens \o EnvToken(e) \in Seq(AuthToken)
  BY <1>1, EnvTokenType, ConcatProperties
<1>3. /\ AuthWithEnv(c.auth, e) \in Auth
      /\ AuthWithEnv(c.auth, e).tokens = c.auth.tokens \o EnvToken(e)
      /\ EnvPrevails(AuthWithEnv(c.auth, e), e)
  <2> DEFINE enabled  == OverrideBool(c.auth.enabled, e.authEnabled)
             static   == c.auth.staticEnabled \/ e.staticToken # Unset
             tokens   == c.auth.tokens \o EnvToken(e)
             oidc     == c.auth.oidcEnabled \/ e.issuer # Unset
             issuer   == Override(c.auth.issuer, e.issuer)
             audience == Override(c.auth.audience, e.audience)
             resource == Override(c.auth.resource, e.resource)
  <2>1. /\ enabled \in BOOLEAN /\ static \in BOOLEAN /\ oidc \in BOOLEAN
        /\ e.authEnabled \in Truthy => enabled
        /\ e.authEnabled \in Falsy => ~enabled
        /\ e.staticToken # Unset => static
        /\ e.issuer # Unset => oidc /\ issuer = e.issuer
    BY <1>1, OverrideBoolIs DEF Auth, Override
  <2>2. issuer \in Text /\ audience \in Text /\ resource \in Text
    BY <1>1 DEF Auth, Override
  <2>3. AuthWithEnv(c.auth, e) =
          [c.auth EXCEPT !.enabled = enabled, !.staticEnabled = static, !.tokens = tokens,
                         !.oidcEnabled = oidc, !.issuer = issuer, !.audience = audience,
                         !.resource = resource]
    BY Zenon DEF AuthWithEnv
  <2> HIDE DEF enabled, static, tokens, oidc, issuer, audience, resource
  <2>4. tokens \in Seq(AuthToken)
    BY <1>2 DEF tokens
  <2>5. /\ AuthWithEnv(c.auth, e) \in Auth
        /\ AuthWithEnv(c.auth, e).tokens = tokens
        /\ AuthWithEnv(c.auth, e).enabled = enabled
        /\ AuthWithEnv(c.auth, e).staticEnabled = static
        /\ AuthWithEnv(c.auth, e).oidcEnabled = oidc
        /\ AuthWithEnv(c.auth, e).issuer = issuer
    BY <1>1, <2>1, <2>2, <2>3, <2>4 DEF Auth
  <2> QED
    BY <2>1, <2>5 DEF tokens, EnvPrevails
<1>4. /\ Override(c.logLevel, e.logLevel) \in Text
      /\ Override(c.defaultInstance, e.defaultInstance) \in Text
      /\ OverrideBool(c.readOnly, e.readOnly) \in BOOLEAN
  BY <1>1, OverrideBoolIs DEF Config, Override
<1>5. WithEnv(c, e) \in Config /\ WithEnv(c, e).auth = AuthWithEnv(c.auth, e)
  BY <1>3, <1>4 DEF WithEnv, Config
<1> QED
  BY <1>3, <1>5

LEMMA WithDefaultsType ==
    ASSUME NEW c \in Config
    PROVE  WithDefaults(c) \in Config /\ WithDefaults(c).auth = c.auth
<1> DEFINE ins == [n \in DOMAIN c.instances |-> WithNamespace(c.instances[n])]
<1>1. c.instances \in Seq(InstanceConfig)
  BY DEF Config
<1>2. \A n \in DOMAIN c.instances : ins[n] \in InstanceConfig
  <2>1. \A in \in InstanceConfig : WithNamespace(in) \in InstanceConfig
    BY DEF InstanceConfig, WithNamespace, Text
  <2> QED
    BY <1>1, <2>1
<1>3. ins \in Seq(InstanceConfig)
  <2>1. DOMAIN c.instances = 1 .. Len(c.instances) /\ Len(c.instances) \in Nat
    BY <1>1
  <2>2. ins \in [1 .. Len(c.instances) -> InstanceConfig]
    BY <1>2, <2>1
  <2> HIDE DEF ins
  <2> QED
    BY <2>1, <2>2
<1>4. Len(c.instances) = 1 => c.instances[1].name \in Text
  <2>1. Len(c.instances) = 1 => c.instances[1] \in InstanceConfig
    BY <1>1
  <2> QED
    BY <2>1 DEF InstanceConfig
<1> QED
  BY <1>3, <1>4 DEF WithDefaults, Config, Text

(* What holds of the configuration at each stage of startup.               *)
Loaded == {"loaded", "registered", "running"}

BuiltFrom(c) ==
    LET ins == {c.instances[n] : n \in DOMAIN c.instances}
    IN  [name \in {in.name : in \in ins} |->
            NewInstance(CHOOSE in \in ins : in.name = name)]

EnvCounts ==
    /\ env.staticToken # Unset =>
          \E n \in DOMAIN cfg.auth.tokens : cfg.auth.tokens[n].token = env.staticToken
    /\ EnvPrevails(cfg.auth, env)

(* The verifiers that are enabled.                                         *)
Enabled(a) ==
    IF ~a.enabled THEN {}
    ELSE (IF a.staticEnabled THEN {"static"} ELSE {})
           \cup (IF a.oidcEnabled THEN {"oidc"} ELSE {})

StartupInv ==
    /\ cfg \in Config /\ env \in Environment /\ world \in BOOLEAN
    /\ stage \in {"file", "env", "defaults", "refused", "failed"} \cup Loaded
    /\ stage \in {"defaults"} \cup Loaded => EnvCounts
    /\ stage = "env" => EnvCounts
    /\ stage \in Loaded => Valid(cfg)
    /\ stage \in {"registered", "running"} => registry = BuiltFrom(cfg)
    /\ stage = "running" => verifiers = Enabled(cfg.auth)
    /\ FailsOnlyForTheUnchecked

LEMMA EnvStep == StartupInv /\ ApplyEnv => StartupInv'
<1> SUFFICES ASSUME StartupInv, ApplyEnv PROVE StartupInv'
  OBVIOUS
<1>1. /\ cfg' = WithEnv(cfg, env) /\ stage' = "env"
      /\ UNCHANGED <<env, world, registry, verifiers>>
      /\ cfg \in Config /\ env \in Environment
  BY DEF ApplyEnv, StartupInv
<1>2. /\ cfg' \in Config
      /\ cfg'.auth.tokens = cfg.auth.tokens \o EnvToken(env)
      /\ EnvPrevails(cfg'.auth, env)
  BY <1>1, WithEnvAuth
<1>3. ASSUME env.staticToken # Unset
      PROVE  \E n \in DOMAIN cfg'.auth.tokens : cfg'.auth.tokens[n].token = env.staticToken
  <2>1. cfg.auth.tokens \in Seq(AuthToken)
    BY <1>1 DEF Config, Auth
  <2> DEFINE t == [name |-> "env", token |-> env.staticToken, tokenFile |-> Unset]
             k == Len(cfg.auth.tokens) + 1
  <2>2. EnvToken(env) = <<t>> /\ t.token = env.staticToken
    BY <1>3 DEF EnvToken
  <2> HIDE DEF t
  <2>3. k \in DOMAIN (cfg.auth.tokens \o <<t>>) /\ (cfg.auth.tokens \o <<t>>)[k] = t
    BY <2>1
  <2> QED
    BY <1>2, <2>2, <2>3
<1> QED
  BY <1>1, <1>2, <1>3 DEF StartupInv, EnvCounts, FailsOnlyForTheUnchecked, Loaded

LEMMA DefaultsStep == StartupInv /\ ApplyDefaults => StartupInv'
  BY WithDefaultsType
  DEF StartupInv, ApplyDefaults, EnvCounts, FailsOnlyForTheUnchecked, Loaded

LEMMA ValidateStep == StartupInv /\ Validate => StartupInv'
  BY DEF StartupInv, Validate, EnvCounts, FailsOnlyForTheUnchecked, Loaded

(* The registry of a valid configuration holds its default instance; it is *)
(* not built where an instance cannot be.                                  *)
LEMMA RegistryStep == StartupInv /\ BuildRegistry => StartupInv'
<1> SUFFICES ASSUME StartupInv, BuildRegistry PROVE StartupInv'
  OBVIOUS
<1>1. Valid(cfg) /\ EnvCounts /\ cfg \in Config /\ env \in Environment
  BY DEF StartupInv, BuildRegistry, Loaded
<1>2. cfg.defaultInstance \in {in.name : in \in {cfg.instances[n] : n \in DOMAIN cfg.instances}}
  BY <1>1 DEF Valid
<1>3. UNCHANGED <<cfg, env, world, verifiers>>
  BY DEF BuildRegistry
<1>4. \/ stage' = "registered" /\ registry' = BuiltFrom(cfg)
      \/ /\ stage' = "failed"
         /\ ~world \/ \E n \in DOMAIN cfg.instances : ~CanBeBuilt(cfg.instances[n])
  BY <1>2 DEF BuildRegistry, BuiltFrom
<1>5. FailsOnlyForTheUnchecked'
  BY <1>3, <1>4 DEF FailsOnlyForTheUnchecked
<1> QED
  BY <1>1, <1>3, <1>4, <1>5 DEF StartupInv, EnvCounts, BuiltFrom, Loaded

(* Of the agent's authentication Validate accepts nothing that cannot be   *)
(* built but an issuer that cannot be asked.                               *)
LEMMA AuthStep == StartupInv /\ BuildAuth => StartupInv'
<1> SUFFICES ASSUME StartupInv, BuildAuth PROVE StartupInv'
  OBVIOUS
<1> DEFINE a     == cfg.auth
           metadata == a.enabled /\ a.oidcEnabled /\ a.resourceMetadata
           sound == /\ a.enabled => Enabled(a) # {}
                    /\ IssuerCanBeAsked(a)
                    /\ metadata => MetadataURLParses(a)
<1>1. /\ Valid(cfg) /\ EnvCounts /\ registry = BuiltFrom(cfg)
      /\ cfg \in Config /\ env \in Environment /\ world \in BOOLEAN
  BY DEF StartupInv, BuildAuth, Loaded
<1>2. AuthIsValid(a)
  BY <1>1 DEF Valid
<1>3. a.enabled => Enabled(a) # {}
  BY <1>2 DEF AuthIsValid, Enabled
<1>4. metadata => MetadataURLParses(a)
  BY <1>2 DEF AuthIsValid, MetadataURLParses
<1>5. UNCHANGED <<cfg, env, world, registry>>
  BY DEF BuildAuth
<1>6. \/ sound /\ stage' = "running" /\ verifiers' = Enabled(a)
      \/ ~(sound /\ (a.enabled => world)) /\ stage' = "failed" /\ UNCHANGED verifiers
  BY DEF BuildAuth, Enabled
<1>7. sound <=> IssuerCanBeAsked(a)
  BY <1>3, <1>4
<1> HIDE DEF sound
<1>8. \/ stage' = "running" /\ verifiers' = Enabled(a)
      \/ stage' = "failed" /\ (~world \/ ~IssuerCanBeAsked(a))
  BY <1>6, <1>7
<1>9. FailsOnlyForTheUnchecked'
  BY <1>5, <1>8 DEF FailsOnlyForTheUnchecked
<1> QED
  BY <1>1, <1>5, <1>8, <1>9 DEF StartupInv, EnvCounts, BuiltFrom, Loaded

LEMMA StartupInductive == StartupSpec => []StartupInv
<1>1. StartupInit => StartupInv
  BY ConfigAssumption DEF StartupInit, StartupInv, FailsOnlyForTheUnchecked, Loaded
<1>2. StartupInv /\ [StartupNext]_startupVars => StartupInv'
  <2> SUFFICES ASSUME StartupInv, [StartupNext]_startupVars PROVE StartupInv'
    OBVIOUS
  <2>1. CASE Breaks
    BY <2>1 DEF Breaks, StartupInv, EnvCounts, FailsOnlyForTheUnchecked, Loaded
  <2>2. CASE UNCHANGED startupVars
    BY <2>2 DEF startupVars, StartupInv, EnvCounts, FailsOnlyForTheUnchecked, Loaded
  <2> QED
    BY <2>1, <2>2, EnvStep, DefaultsStep, ValidateStep, RegistryStep, AuthStep
    DEF StartupNext
<1> QED
  BY <1>1, <1>2, PTL DEF StartupSpec

(* After Validate, startup fails only for what lies outside of the         *)
(* configuration or for what only building parses: an address, an inline   *)
(* CA, an issuer (config.go:271-379, registry.go:20-40, credentials.go:    *)
(* 52-61, auth.go:39-112).                                                 *)
THEOREM FailureIsUnchecked == StartupSpec => []FailsOnlyForTheUnchecked
<1>1. StartupInv => FailsOnlyForTheUnchecked
  BY DEF StartupInv
<1> QED
  BY <1>1, StartupInductive, PTL

(* Exactly one mode is set where Mode finds one.                           *)
LEMMA OneMode ==
    ASSUME NEW in, in.inCluster \in BOOLEAN, Mode(in) # "none"
    PROVE  \/ /\ Mode(in) = "inCluster"
              /\ in.inCluster /\ in.server = Unset /\ in.kubeconfigFile = Unset
           \/ /\ Mode(in) = "explicit"
              /\ ~in.inCluster /\ in.server # Unset /\ in.kubeconfigFile = Unset
           \/ /\ Mode(in) = "kubeconfig"
              /\ ~in.inCluster /\ in.server = Unset /\ in.kubeconfigFile # Unset
<1> DEFINE modes == {m \in {"inCluster", "explicit", "kubeconfig"} :
                        \/ m = "inCluster" /\ in.inCluster
                        \/ m = "explicit" /\ in.server # Unset
                        \/ m = "kubeconfig" /\ in.kubeconfigFile # Unset}
<1>1. Cardinality(modes) = 1 /\ Mode(in) = CHOOSE m \in modes : TRUE
  BY DEF Mode
<1>2. IsFiniteSet(modes)
  <2>1. {"inCluster"} \cup {"explicit"} \cup {"kubeconfig"}
          = {"inCluster", "explicit", "kubeconfig"}
    OBVIOUS
  <2>2. IsFiniteSet({"inCluster"} \cup {"explicit"} \cup {"kubeconfig"})
    BY FS_Singleton, FS_AddElement
  <2> QED
    BY <2>1, <2>2, FS_Subset
<1> HIDE DEF modes
<1>3. PICK mode : modes = {mode}
  BY <1>1, <1>2, FS_Singleton
<1>4. Mode(in) = mode
  BY <1>1, <1>3
<1>5. /\ "inCluster" \in modes <=> in.inCluster
      /\ "explicit" \in modes <=> in.server # Unset
      /\ "kubeconfig" \in modes <=> in.kubeconfigFile # Unset
      /\ modes \subseteq {"inCluster", "explicit", "kubeconfig"}
  BY DEF modes
<1>6. \/ mode = "inCluster" /\ "explicit" \notin modes /\ "kubeconfig" \notin modes
      \/ mode = "explicit" /\ "inCluster" \notin modes /\ "kubeconfig" \notin modes
      \/ mode = "kubeconfig" /\ "inCluster" \notin modes /\ "explicit" \notin modes
  BY <1>3, <1>5
<1> QED
  BY <1>3, <1>4, <1>5, <1>6

LEMMA UnsetIsNoWord == "pod" # Unset
  BY Zenon DEF Unset

(* What a valid instance's client authenticates with and whom it trusts.   *)
LEMMA ValidClient ==
    ASSUME NEW in \in InstanceConfig, InstanceIsValid(in)
    PROVE  LET client == RestConfigFor(in)
           IN  /\ \/ in.inCluster /\ in.server = Unset /\ in.kubeconfigFile = Unset
                  \/ ~in.inCluster /\ (in.server = Unset) # (in.kubeconfigFile = Unset)
               /\ in.kubeconfigFile # Unset =>
                     client = Kubeconfigs[<<in.kubeconfigFile, in.context>>]
               /\ in.kubeconfigFile = Unset =>
                     /\ client.token # Unset
                     /\ client.insecure => client.ca = Unset /\ in.insecureSkipTLSVerify
                     /\ client.ca = Unset =>
                           client.insecure \/ Certificates[in.caData] = Unset
               /\ Mode(in) = "explicit" =>
                     /\ client.token = IF in.tokenFile # Unset THEN in.tokenFile ELSE in.token
                     /\ client.ca = CertificateAuthority(in)
                     /\ client.token # Unset
<1>1. in.inCluster \in BOOLEAN /\ in.insecureSkipTLSVerify \in BOOLEAN /\ Mode(in) # "none"
  BY DEF InstanceConfig, InstanceIsValid
<1>2. CASE /\ Mode(in) = "inCluster"
           /\ in.inCluster /\ in.server = Unset /\ in.kubeconfigFile = Unset
  BY <1>2, UnsetIsNoWord DEF RestConfigFor, PodClient
<1>3. CASE /\ Mode(in) = "kubeconfig"
           /\ ~in.inCluster /\ in.server = Unset /\ in.kubeconfigFile # Unset
  BY <1>3 DEF RestConfigFor
<1>4. CASE /\ Mode(in) = "explicit"
           /\ ~in.inCluster /\ in.server # Unset /\ in.kubeconfigFile = Unset
  <2>1. /\ HasCA(in) # in.insecureSkipTLSVerify
        /\ in.tokenFile # Unset \/ in.token # Unset
    BY <1>4 DEF InstanceIsValid
  <2>2. HasCA(in) <=> ~in.insecureSkipTLSVerify
    BY <1>1, <2>1 DEF HasCA
  <2>3. RestConfigFor(in) =
          [token    |-> IF in.tokenFile # Unset THEN in.tokenFile ELSE in.token,
           ca       |-> CertificateAuthority(in),
           insecure |-> in.insecureSkipTLSVerify]
    BY <1>4 DEF RestConfigFor
  <2>4. /\ ~HasCA(in) => CertificateAuthority(in) = Unset
        /\ HasCA(in) /\ CertificateAuthority(in) = Unset => Certificates[in.caData] = Unset
    BY DEF HasCA, CertificateAuthority
  <2> QED
    BY <1>1, <1>4, <2>1, <2>2, <2>3, <2>4
<1> QED
  BY <1>1, <1>2, <1>3, <1>4, OneMode

(* The registry of a running server, instance by instance.                 *)
LEMMA RegistryHolds ==
    ASSUME StartupInv, Started, NEW name \in DOMAIN registry
    PROVE  \E n \in DOMAIN cfg.instances :
               LET in == cfg.instances[n]
               IN  /\ in \in InstanceConfig /\ InstanceIsValid(in) /\ in.name = name
                   /\ registry[name].config = in
                   /\ registry[name].client = RestConfigFor(in)
                   /\ registry[name].namespaces = Namespaces(in)
                   /\ \A m \in DOMAIN cfg.instances : cfg.instances[m].name = name => m = n
<1> DEFINE ins == {cfg.instances[n] : n \in DOMAIN cfg.instances}
           in  == CHOOSE x \in ins : x.name = name
<1>1. Valid(cfg) /\ registry = BuiltFrom(cfg) /\ cfg.instances \in Seq(InstanceConfig)
  BY DEF StartupInv, Started, Loaded, Config
<1>2. /\ DOMAIN registry = {x.name : x \in ins}
      /\ registry[name] = NewInstance(in)
  BY <1>1 DEF BuiltFrom
<1>3. in \in ins /\ in.name = name
  BY <1>2
<1> HIDE DEF in
<1>4. PICK n \in DOMAIN cfg.instances : in = cfg.instances[n]
  BY <1>3
<1>5. in \in InstanceConfig /\ InstanceIsValid(in)
  BY <1>1, <1>4 DEF Valid
<1>6. \A m \in DOMAIN cfg.instances : cfg.instances[m].name = name => m = n
  BY <1>1, <1>3, <1>4 DEF Valid
<1> QED
  BY <1>2, <1>3, <1>4, <1>5, <1>6 DEF NewInstance

(* Every warning about an instance is given under the instance's name.     *)
LEMMA WarningsNamed ==
    ASSUME NEW c, NEW name, NEW n \in DOMAIN c.instances, c.instances[n].name = name,
           NEW what \in WarningsAbout(c.instances[n])
    PROVE  <<name, what>> \in Warnings(c)
  BY DEF Warnings

(* And no other is given under it where no other instance has the name.    *)
LEMMA WarningsOnly ==
    ASSUME NEW c, NEW name, NEW n \in DOMAIN c.instances,
           \A m \in DOMAIN c.instances : c.instances[m].name = name => m = n,
           NEW what, <<name, what>> \in Warnings(c)
    PROVE  what \in WarningsAbout(c.instances[n])
<1>1. PICK m \in DOMAIN c.instances :
          <<name, what>> \in {<<c.instances[m].name, w>> : w \in WarningsAbout(c.instances[m])}
  BY DEF Warnings
<1>2. c.instances[m].name = name /\ what \in WarningsAbout(c.instances[m])
  BY <1>1
<1> QED
  BY <1>2

(* Every instance of a running server has exactly one way in: what its     *)
(* kubeconfig says, or a token, and a server verified against the CA given *)
(* unless that is blank or was waived, with a warning (config.go:138-159,  *)
(* 303-322, 395-397, credentials.go:20-74).                                *)
THEOREM OneWayInHolds == StartupSpec => []OneWayIn
<1>1. StartupInv => OneWayIn
  <2> SUFFICES ASSUME StartupInv, Started, NEW name \in DOMAIN registry
               PROVE  LET in     == registry[name].config
                          client == registry[name].client
                      IN  /\ in.name = name
                          /\ \/ in.inCluster /\ in.server = Unset /\ in.kubeconfigFile = Unset
                             \/ ~in.inCluster /\ (in.server = Unset) # (in.kubeconfigFile = Unset)
                          /\ in.kubeconfigFile # Unset =>
                                client = Kubeconfigs[<<in.kubeconfigFile, in.context>>]
                          /\ in.kubeconfigFile = Unset =>
                                /\ client.token # Unset
                                /\ client.insecure =>
                                      /\ client.ca = Unset
                                      /\ <<name, "TLS verification disabled">> \in Warnings(cfg)
                                /\ client.ca = Unset =>
                                      client.insecure \/ Certificates[in.caData] = Unset
    BY DEF OneWayIn
  <2>1. PICK n \in DOMAIN cfg.instances :
            /\ cfg.instances[n] \in InstanceConfig /\ InstanceIsValid(cfg.instances[n])
            /\ cfg.instances[n].name = name
            /\ registry[name].config = cfg.instances[n]
            /\ registry[name].client = RestConfigFor(cfg.instances[n])
    BY RegistryHolds
  <2> DEFINE in     == cfg.instances[n]
             client == RestConfigFor(in)
  <2>2. /\ \/ in.inCluster /\ in.server = Unset /\ in.kubeconfigFile = Unset
           \/ ~in.inCluster /\ (in.server = Unset) # (in.kubeconfigFile = Unset)
        /\ in.kubeconfigFile # Unset =>
              client = Kubeconfigs[<<in.kubeconfigFile, in.context>>]
        /\ in.kubeconfigFile = Unset =>
              /\ client.token # Unset
              /\ client.insecure => client.ca = Unset /\ in.insecureSkipTLSVerify
              /\ client.ca = Unset => client.insecure \/ Certificates[in.caData] = Unset
    BY <2>1, ValidClient
  <2>3. in.insecureSkipTLSVerify => "TLS verification disabled" \in WarningsAbout(in)
    BY DEF WarningsAbout
  <2>4. in.insecureSkipTLSVerify => <<name, "TLS verification disabled">> \in Warnings(cfg)
    BY <2>1, <2>3, WarningsNamed
  <2> HIDE DEF in, client
  <2>5. registry[name].config = in /\ registry[name].client = client /\ in.name = name
    BY <2>1 DEF in, client
  <2> QED
    BY <2>2, <2>4, <2>5
<1> QED
  BY <1>1, StartupInductive, PTL

(* A client uses what the warnings say takes precedence, and no inline     *)
(* token without one (config.go:383-398, credentials.go:34-60).            *)
THEOREM WarningsAreTrue == StartupSpec => []ClientsUseWhatWarningsSay
<1>1. StartupInv => ClientsUseWhatWarningsSay
  <2> SUFFICES ASSUME StartupInv, Started, NEW name \in DOMAIN registry,
                      Mode(registry[name].config) = "explicit"
               PROVE  LET in     == registry[name].config
                          client == registry[name].client
                      IN  /\ <<name, "tokenFile takes precedence">> \in Warnings(cfg)
                                => client.token = in.tokenFile
                          /\ <<name, "CA file takes precedence">> \in Warnings(cfg)
                                => client.ca = in.caFile
                          /\ client.token = in.token
                                => <<name, "inline token">> \in Warnings(cfg)
    BY DEF ClientsUseWhatWarningsSay
  <2>1. PICK n \in DOMAIN cfg.instances :
            /\ cfg.instances[n] \in InstanceConfig /\ InstanceIsValid(cfg.instances[n])
            /\ cfg.instances[n].name = name
            /\ registry[name].config = cfg.instances[n]
            /\ registry[name].client = RestConfigFor(cfg.instances[n])
            /\ \A m \in DOMAIN cfg.instances : cfg.instances[m].name = name => m = n
    BY RegistryHolds
  <2> DEFINE in     == cfg.instances[n]
             client == RestConfigFor(in)
  <2>2. /\ client.token = IF in.tokenFile # Unset THEN in.tokenFile ELSE in.token
        /\ in.caFile # Unset => client.ca = in.caFile
        /\ client.token # Unset
    BY <2>1, ValidClient DEF CertificateAuthority
  <2>3. /\ <<name, "tokenFile takes precedence">> \in Warnings(cfg) => in.tokenFile # Unset
        /\ <<name, "CA file takes precedence">> \in Warnings(cfg) => in.caFile # Unset
        /\ in.token # Unset => <<name, "inline token">> \in Warnings(cfg)
    <3>1. /\ "tokenFile takes precedence" \in WarningsAbout(in) => in.tokenFile # Unset
          /\ "CA file takes precedence" \in WarningsAbout(in) => in.caFile # Unset
          /\ in.token # Unset => "inline token" \in WarningsAbout(in)
      BY DEF WarningsAbout
    <3>2. /\ <<name, "tokenFile takes precedence">> \in Warnings(cfg)
                => "tokenFile takes precedence" \in WarningsAbout(in)
          /\ <<name, "CA file takes precedence">> \in Warnings(cfg)
                => "CA file takes precedence" \in WarningsAbout(in)
      BY <2>1, WarningsOnly
    <3>3. "inline token" \in WarningsAbout(in)
            => <<name, "inline token">> \in Warnings(cfg)
      BY <2>1, WarningsNamed
    <3> QED
      BY <3>1, <3>2, <3>3
  <2> HIDE DEF in, client
  <2>4. registry[name].config = in /\ registry[name].client = client
    BY <2>1 DEF in, client
  <2> QED
    BY <2>2, <2>3, <2>4
<1> QED
  BY <1>1, StartupInductive, PTL

(* Distinct names are as many as the tokens that carry them.               *)
LEMMA DistinctNames ==
    ASSUME NEW S, NEW tokens \in Seq(S),
           \A n, m \in DOMAIN tokens : tokens[m].name = tokens[n].name => m = n
    PROVE  Cardinality({tokens[n].name : n \in DOMAIN tokens}) = Len(tokens)
<1> DEFINE names == {tokens[n].name : n \in DOMAIN tokens}
           f     == [n \in 1 .. Len(tokens) |-> tokens[n].name]
<1>1. DOMAIN tokens = 1 .. Len(tokens) /\ Len(tokens) \in Nat
  OBVIOUS
<1>2. f \in Bijection(1 .. Len(tokens), names)
  BY <1>1 DEF Bijection, Injection, Surjection, IsInjective
<1> QED
  BY <1>1, <1>2, FS_CountingElements DEF ExistsBijection

(* A server that starts runs with exactly the verifiers enabled, those the *)
(* environment asks for among them, is open or not as the environment says *)
(* in any spelling ParseBool takes, and each of its static tokens has a    *)
(* name of its own (config.go:202-239, 335-379, auth.go:39-101).           *)
THEOREM VerifiersHold == StartupSpec => []VerifiersAsConfigured
<1>1. StartupInv => VerifiersAsConfigured
  <2> SUFFICES ASSUME StartupInv, Started PROVE VerifiersAsConfigured
    BY DEF VerifiersAsConfigured
  <2>1. /\ EnvCounts /\ AuthIsValid(cfg.auth)
        /\ verifiers = Enabled(cfg.auth)
        /\ cfg.auth.tokens \in Seq(AuthToken)
    BY DEF StartupInv, Started, Loaded, Valid, Config, Auth
  <2>2. /\ verifiers # {} <=> cfg.auth.enabled
        /\ "static" \in verifiers <=> cfg.auth.enabled /\ cfg.auth.staticEnabled
        /\ "oidc" \in verifiers <=> cfg.auth.enabled /\ cfg.auth.oidcEnabled
    BY <2>1 DEF Enabled, AuthIsValid
  <2>3. ASSUME "static" \in verifiers
        PROVE  Cardinality({cfg.auth.tokens[n].name : n \in DOMAIN cfg.auth.tokens})
                 = Len(cfg.auth.tokens)
    <3>1. \A n, m \in DOMAIN cfg.auth.tokens :
             cfg.auth.tokens[m].name = cfg.auth.tokens[n].name => m = n
      BY <2>1, <2>2, <2>3 DEF AuthIsValid
    <3> QED
      BY <2>1, <3>1, DistinctNames
  <2> QED
    BY <2>1, <2>2, <2>3, Zenon DEF VerifiersAsConfigured, EnvCounts, EnvPrevails
<1> QED
  BY <1>1, StartupInductive, PTL

-----------------------------------------------------------------------------
(* The namespaces of an instance, merged one by one.                       *)

(* Every set of naturals has a least element: what stands in for induction *)
(* below.                                                                  *)
LEMMA LeastNumber ==
    ASSUME NEW T \in SUBSET Nat, T # {}
    PROVE  \E n \in T : \A m \in T : n <= m
<1> DEFINE R == OpToRel(<, Nat)
<1>1. \A m, n \in Nat : m < n => <<m, n>> \in R
  BY Zenon DEF OpToRel
<1>2. IsWellFoundedOn(R, Nat)
  BY NatLessThanWellFounded
<1> HIDE DEF R
<1>3. PICK n \in T : \A m \in T : ~(<<m, n>> \in R)
  BY <1>2, WFMin
<1>4. \A m \in T : ~(m < n)
  BY <1>1, <1>3, Zenon
<1> QED
  BY <1>4

(* g is what MergeAll has put together after each of the first n.          *)
MergesUpTo(g, n, primary, others) ==
    g = [k \in 0..n |-> IF k = 0 THEN primary ELSE Merge(g[k - 1], others[k])]

LEMMA MergesExist ==
    ASSUME NEW primary, NEW others, NEW n \in Nat
    PROVE  \E g : MergesUpTo(g, n, primary, others)
<1> DEFINE None == {m \in Nat : ~ \E g : MergesUpTo(g, m, primary, others)}
<1> SUFFICES ASSUME None # {} PROVE FALSE
  OBVIOUS
<1>1. PICK m \in None : \A k \in None : m <= k
  BY LeastNumber
<1>2. CASE m = 0
  <2> DEFINE g == [k \in 0..0 |-> primary]
  <2>1. MergesUpTo(g, 0, primary, others)
    BY DEF MergesUpTo
  <2> QED
    BY <1>2, <2>1
<1>3. CASE m # 0
  <2>1. m - 1 \in Nat /\ m - 1 \notin None
    BY <1>1, <1>3
  <2>2. PICK g : MergesUpTo(g, m - 1, primary, others)
    BY <2>1
  <2> DEFINE h == [k \in 0..m |-> IF k = m THEN Merge(g[m - 1], others[m]) ELSE g[k]]
  <2>3. ASSUME NEW k \in 0..m
        PROVE  h[k] = IF k = 0 THEN primary ELSE Merge(h[k - 1], others[k])
    BY <1>3, <2>1, <2>2 DEF MergesUpTo
  <2>4. MergesUpTo(h, m, primary, others)
    BY <2>3 DEF MergesUpTo
  <2> QED
    BY <2>4
<1> QED
  BY <1>2, <1>3

LEMMA MergeAllDef ==
    ASSUME NEW primary, NEW others, Len(others) \in Nat
    PROVE  \E g : /\ MergesUpTo(g, Len(others), primary, others)
                  /\ MergeAll(primary, others) = g[Len(others)]
<1> DEFINE g == CHOOSE f : MergesUpTo(f, Len(others), primary, others)
<1>1. MergesUpTo(g, Len(others), primary, others)
  BY MergesExist
<1>2. MergeAll(primary, others) = g[Len(others)]
  BY DEF MergeAll, MergesUpTo
<1> QED
  BY <1>1, <1>2

(* What one namespace more does to those merged.                           *)
Kept(out, primary, seen) ==
    /\ out \in Seq(Text) /\ out # <<>>
    /\ Head(out) = primary
    /\ ToSet(out) = {primary} \cup seen
    /\ \A n, m \in DOMAIN out : out[n] = out[m] => n = m

LEMMA MergeKeeps ==
    ASSUME NEW out, NEW primary, NEW seen, Kept(out, primary, seen),
           NEW ns \in Text, ns # Unset
    PROVE  Kept(Merge(out, ns), primary, seen \cup {ns})
<1>1. CASE Contains(out, ns)
  <2>1. ns \in ToSet(out)
    BY <1>1 DEF Contains, ToSet, Kept
  <2>2. Merge(out, ns) = out
    BY <1>1 DEF Merge
  <2> QED
    BY <2>1, <2>2 DEF Kept
<1>2. CASE ~Contains(out, ns)
  <2> DEFINE new == Append(out, ns)
             len == Len(out)
  <2>1. /\ Merge(out, ns) = new
        /\ new \in Seq(Text) /\ DOMAIN new = 1..(len + 1) /\ len \in Nat \ {0}
        /\ DOMAIN out = 1..len
        /\ \A n \in 1..len : new[n] = out[n] /\ out[n] # ns
        /\ new[len + 1] = ns
    BY <1>2 DEF Merge, Contains, Kept
  <2>2. new # <<>> /\ Head(new) = primary
    BY <2>1 DEF Kept
  <2>3. ToSet(new) = ToSet(out) \cup {ns}
    <3> HIDE DEF new, len
    <3>1. DOMAIN new = DOMAIN out \cup {len + 1}
      BY <2>1
    <3> QED
      BY <2>1, <3>1 DEF ToSet
  <2>4. \A n, m \in DOMAIN new : new[n] = new[m] => n = m
    <3> HIDE DEF new, len
    <3> QED
      BY <2>1 DEF Kept
  <2> QED
    BY <2>1, <2>2, <2>3, <2>4 DEF Kept
<1> QED
  BY <1>1, <1>2

LEMMA OneNamespace ==
    ASSUME NEW primary \in Text
    PROVE  Kept(<<primary>>, primary, {})
  BY DEF Kept, ToSet

LEMMA MergeAllKeeps ==
    ASSUME NEW primary \in Text, NEW others \in Seq(Text),
           \A n \in DOMAIN others : others[n] # Unset
    PROVE  Kept(MergeAll(<<primary>>, others), primary, ToSet(others))
<1> DEFINE len      == Len(others)
           first(n) == {others[k] : k \in 1..n}
<1>1. len \in Nat /\ DOMAIN others = 1..len
  OBVIOUS
<1>2. PICK g : MergesUpTo(g, len, <<primary>>, others) /\ MergeAll(<<primary>>, others) = g[len]
  BY <1>1, MergeAllDef
<1> HIDE DEF len
<1>3. g[0] = <<primary>> /\ \A n \in 1..len : g[n] = Merge(g[n - 1], others[n])
  <2>1. g = [k \in 0..len |-> IF k = 0 THEN <<primary>> ELSE Merge(g[k - 1], others[k])]
    BY <1>2 DEF MergesUpTo
  <2>2. \A k \in 0..len : g[k] = IF k = 0 THEN <<primary>> ELSE Merge(g[k - 1], others[k])
    BY <2>1, Zenon
  <2>3. 0 \in 0..len /\ \A n \in 1..len : n \in 0..len /\ n # 0
    BY <1>1
  <2> QED
    BY <2>2, <2>3, Zenon
<1>4. \A n \in 1..len : others[n] \in Text /\ others[n] # Unset
  BY <1>1
<1> DEFINE Wrong == {n \in 0..len : ~Kept(g[n], primary, first(n))}
<1>5. /\ Wrong \subseteq 0..len
      /\ \A n \in 0..len : n \in Wrong <=> ~Kept(g[n], primary, first(n))
  OBVIOUS
<1>6. first(0) = {} /\ \A n \in 1..len : first(n) = first(n - 1) \cup {others[n]}
  <2>1. 1..0 = {} /\ \A n \in 1..len : 1..n = 1..(n - 1) \cup {n}
    BY <1>1
  <2> QED
    BY <2>1
<1>7. first(len) = ToSet(others)
  BY <1>1 DEF ToSet
<1> HIDE DEF Wrong, first
<1>8. Wrong = {}
  <2> SUFFICES ASSUME Wrong # {} PROVE FALSE
    OBVIOUS
  <2>1. PICK n \in Wrong : \A m \in Wrong : n <= m
    BY <1>1, <1>5, LeastNumber
  <2>2. CASE n = 0
    BY <1>3, <1>5, <1>6, <2>1, <2>2, OneNamespace
  <2>3. CASE n # 0
    <3>1. n \in 1..len /\ n - 1 \in 0..len /\ n - 1 \notin Wrong
      BY <1>1, <1>5, <2>1, <2>3
    <3>2. Kept(g[n - 1], primary, first(n - 1))
      BY <1>5, <3>1
    <3>3. Kept(g[n], primary, first(n))
      BY <1>3, <1>4, <1>6, <3>1, <3>2, MergeKeeps
    <3> QED
      BY <1>5, <2>1, <3>3
  <2> QED
    BY <2>2, <2>3
<1>9. len \in 0..len
  BY <1>1
<1> QED
  BY <1>2, <1>5, <1>7, <1>8, <1>9

LEMMA NamespacesKeep ==
    ASSUME NEW in \in InstanceConfig,
           \A n \in DOMAIN in.applicationNamespaces : in.applicationNamespaces[n] # Unset
    PROVE  Kept(Namespaces(in), in.namespace, ToSet(in.applicationNamespaces))
<1>1. in.namespace \in Text /\ in.applicationNamespaces \in Seq(Text)
  BY DEF InstanceConfig
<1> QED
  BY <1>1, MergeAllKeeps DEF Namespaces

(* A running server has every namespace of an instance once, the primary   *)
(* one first (config.go:161-177): what NamespacesAssumption of Listings    *)
(* asks for.                                                               *)
THEOREM NamespacesListedOnce == StartupSpec => []NamespacesOnce
<1>1. StartupInv => NamespacesOnce
  <2> SUFFICES ASSUME StartupInv, Started, NEW name \in DOMAIN registry
               PROVE  Kept(registry[name].namespaces, registry[name].config.namespace,
                           ToSet(registry[name].config.applicationNamespaces))
    BY DEF NamespacesOnce, Kept
  <2>1. PICK n \in DOMAIN cfg.instances :
            /\ cfg.instances[n] \in InstanceConfig /\ InstanceIsValid(cfg.instances[n])
            /\ registry[name].config = cfg.instances[n]
            /\ registry[name].namespaces = Namespaces(cfg.instances[n])
    BY RegistryHolds
  <2>2. \A k \in DOMAIN cfg.instances[n].applicationNamespaces :
            cfg.instances[n].applicationNamespaces[k] # Unset
    BY <2>1, ConfigAssumption DEF InstanceIsValid
  <2> QED
    BY <2>1, <2>2, NamespacesKeep
<1> QED
  BY <1>1, StartupInductive, PTL
=============================================================================
