---------------------------- MODULE ServerConfig ----------------------------
(***************************************************************************)
(* From the configuration to a running server: config.Load (file, AMCP_*   *)
(* environment, defaults, validation), the registry of instances with the  *)
(* credentials each will use, and the verifiers of auth.Build.             *)
(*                                                                         *)
(* Strings are atoms: which are DNS labels or URIs of which form, which    *)
(* decode and which parse is a constant.  world stands for what building   *)
(* clients and verifiers reads outside of the configuration: files,        *)
(* kubeconfigs, the pod's credentials and the OIDC issuer's documents.     *)
(***************************************************************************)
EXTENDS Integers, Sequences, SequencesExt, FiniteSets

CONSTANTS
    FileConfigs,   \* what the config file may say
    Environments,  \* what the AMCP_* variables may say
    DNSLabels,     \* the strings that are DNS labels
    URIs,          \* a function: what each URI parses to, [scheme, host, fragment];
                   \* a string that does not parse has no host
    Addresses,     \* the strings that client-go takes for a server's address
    Certificates,  \* a function: what the base64 of certificates holds, Unset
                   \* for a text of line breaks alone
    Kubeconfigs    \* a function: what the file of each <<file, context>> says

(* Go's zero value of a string: what a field that is left out holds.       *)
Unset == ""

(* Strings, among them those that the code fills in by itself.             *)
Text == STRING \cup {Unset, "info", "argocd", "env"}

InstanceConfig ==
    [inCluster : BOOLEAN, insecureSkipTLSVerify : BOOLEAN,
     name : Text, server : Text, caFile : Text, caData : Text,
     tokenFile : Text, token : Text, kubeconfigFile : Text, context : Text,
     namespace : Text, applicationNamespaces : Seq(Text)]

AuthToken == [name : Text, token : Text, tokenFile : Text]

Auth ==
    [enabled : BOOLEAN, staticEnabled : BOOLEAN, oidcEnabled : BOOLEAN,
     resourceMetadata : BOOLEAN, tokens : Seq(AuthToken),
     issuer : Text, audience : Text, resource : Text]

Config ==
    [logLevel : Text, defaultInstance : Text, readOnly : BOOLEAN,
     instances : Seq(InstanceConfig), auth : Auth]

Environment ==
    [logLevel : Text, defaultInstance : Text, readOnly : Text, authEnabled : Text,
     staticToken : Text, issuer : Text, audience : Text, resource : Text]

(* What a client authenticates with and whom it trusts; without a token it *)
(* may have a client certificate, without a CA it trusts the system's.     *)
Client == [token : Text, ca : Text, insecure : BOOLEAN]

ASSUME ConfigAssumption ==
    /\ FileConfigs \subseteq Config /\ Environments \subseteq Environment
    /\ Unset \notin DNSLabels
    /\ \A context \in DOMAIN Kubeconfigs : Kubeconfigs[context] \in Client

VARIABLES
    stage,      \* "file", "env", "defaults", "loaded", "registered" and
                \* "running", or "refused" or "failed"
    cfg,        \* the configuration, as far as it is loaded
    env,        \* the environment
    world,      \* whether everything that startup reads is as it should be
    registry,   \* the instances built, a function from their names
    verifiers   \* the agent authentication built

startupVars == <<stage, cfg, env, world, registry, verifiers>>

-----------------------------------------------------------------------------
(* What the code computes from a configuration.                            *)

Override(value, v) == IF v = Unset THEN value ELSE v

(* What strconv.ParseBool takes; anything else is ignored.                 *)
Truthy == {"1", "t", "T", "TRUE", "true", "True"}
Falsy  == {"0", "f", "F", "FALSE", "false", "False"}

OverrideBool(value, v) == IF v \in Truthy \cup Falsy THEN v \in Truthy ELSE value

EnvToken(e) ==
    IF e.staticToken = Unset THEN <<>>
    ELSE <<[name |-> "env", token |-> e.staticToken, tokenFile |-> Unset]>>

AuthWithEnv(a, e) ==
    [a EXCEPT
        !.enabled       = OverrideBool(@, e.authEnabled),
        !.staticEnabled = @ \/ e.staticToken # Unset,
        !.tokens        = @ \o EnvToken(e),
        !.oidcEnabled   = @ \/ e.issuer # Unset,
        !.issuer        = Override(@, e.issuer),
        !.audience      = Override(@, e.audience),
        !.resource      = Override(@, e.resource)]

WithEnv(c, e) ==
    [c EXCEPT
        !.logLevel        = Override(@, e.logLevel),
        !.defaultInstance = Override(@, e.defaultInstance),
        !.readOnly        = OverrideBool(@, e.readOnly),
        !.auth            = AuthWithEnv(@, e)]

WithNamespace(in) == [in EXCEPT !.namespace = IF @ = Unset THEN "argocd" ELSE @]

WithDefaults(c) ==
    [c EXCEPT
        !.logLevel  = IF @ = Unset THEN "info" ELSE @,
        !.instances = [n \in DOMAIN @ |-> WithNamespace(@[n])],
        !.defaultInstance =
            IF @ = Unset /\ Len(c.instances) = 1 THEN c.instances[1].name ELSE @]

(* Fault: the first mode that is set is taken.                             *)
FirstMode(in) ==
    IF in.inCluster THEN "inCluster"
    ELSE IF in.server # Unset THEN "explicit"
    ELSE IF in.kubeconfigFile # Unset THEN "kubeconfig" ELSE "none"

(* "none" also when the selection is ambiguous: Validate refuses both.     *)
Mode(in) ==
    LET modes == {m \in {"inCluster", "explicit", "kubeconfig"} :
                    \/ m = "inCluster" /\ in.inCluster
                    \/ m = "explicit" /\ in.server # Unset
                    \/ m = "kubeconfig" /\ in.kubeconfigFile # Unset}
    IN  IF Cardinality(modes) = 1 THEN CHOOSE m \in modes : TRUE ELSE "none"

HasCA(in) == in.caFile # Unset \/ in.caData # Unset

Merge(out, ns) == IF ns = Unset \/ Contains(out, ns) THEN out ELSE Append(out, ns)

MergeAll(primary, others) ==
    LET out[n \in 0..Len(others)] ==
            IF n = 0 THEN primary ELSE Merge(out[n - 1], others[n])
    IN  out[Len(others)]

(* Fault: the primary namespace is not noted as seen.                      *)
NamespacesTwice(in) == <<in.namespace>> \o MergeAll(<<>>, in.applicationNamespaces)

Namespaces(in) == MergeAll(<<in.namespace>>, in.applicationNamespaces)

InstanceIsValid(in) ==
    /\ in.name \in DNSLabels
    /\ in.namespace \in DNSLabels
    /\ \A n \in DOMAIN in.applicationNamespaces : in.applicationNamespaces[n] \in DNSLabels
    /\ Mode(in) # "none"
    /\ Mode(in) = "explicit" =>
        /\ HasCA(in) # in.insecureSkipTLSVerify
        /\ in.tokenFile # Unset \/ in.token # Unset
    /\ Mode(in) = "kubeconfig" => in.context # Unset

ResourceIdentifier(a) == IF a.resource # Unset THEN a.resource ELSE a.audience

IsHttps(uri) == uri \in DOMAIN URIs /\ URIs[uri].scheme = "https"

(* Fault: two tokens may have the same name.                               *)
AuthIsValidButForNames(a) ==
    a.enabled =>
        /\ a.staticEnabled \/ a.oidcEnabled
        /\ a.staticEnabled =>
            /\ a.tokens # <<>>
            /\ \A n \in DOMAIN a.tokens :
                /\ a.tokens[n].name # Unset
                /\ (a.tokens[n].token = Unset) # (a.tokens[n].tokenFile = Unset)
        /\ a.oidcEnabled =>
            /\ IsHttps(a.issuer)
            /\ a.audience # Unset
            /\ a.resourceMetadata =>
                LET r == ResourceIdentifier(a) IN
                IsHttps(r) /\ URIs[r].host /\ ~URIs[r].fragment

AuthIsValid(a) ==
    a.enabled =>
        /\ a.staticEnabled \/ a.oidcEnabled
        /\ a.staticEnabled =>
            /\ a.tokens # <<>>
            /\ \A n \in DOMAIN a.tokens :
                /\ a.tokens[n].name # Unset
                /\ (a.tokens[n].token = Unset) # (a.tokens[n].tokenFile = Unset)
                /\ \A m \in DOMAIN a.tokens : a.tokens[m].name = a.tokens[n].name => m = n
        /\ a.oidcEnabled =>
            /\ IsHttps(a.issuer)
            /\ a.audience # Unset
            /\ a.resourceMetadata =>
                LET r == ResourceIdentifier(a) IN
                IsHttps(r) /\ URIs[r].host /\ ~URIs[r].fragment

(* Fault: the name of the default instance is not looked up.               *)
ValidButForDefault(c) ==
    /\ c.logLevel \in {"debug", "info", "warn", "error"}
    /\ c.instances # <<>>
    /\ \A n \in DOMAIN c.instances : InstanceIsValid(c.instances[n])
    /\ \A n, m \in DOMAIN c.instances : c.instances[n].name = c.instances[m].name => n = m
    /\ c.defaultInstance # Unset
    /\ AuthIsValid(c.auth)

Valid(c) ==
    /\ c.logLevel \in {"debug", "info", "warn", "error"}
    /\ c.instances # <<>>
    /\ \A n \in DOMAIN c.instances : InstanceIsValid(c.instances[n])
    /\ \A n, m \in DOMAIN c.instances : c.instances[n].name = c.instances[m].name => n = m
    /\ \E n \in DOMAIN c.instances : c.instances[n].name = c.defaultInstance
    /\ AuthIsValid(c.auth)

WarningsAbout(in) ==
    {what \in {"tokenFile takes precedence", "CA file takes precedence",
               "inline token", "TLS verification disabled"} :
        \/ what = "tokenFile takes precedence" /\ in.token # Unset /\ in.tokenFile # Unset
        \/ what = "CA file takes precedence" /\ in.caData # Unset /\ in.caFile # Unset
        \/ what = "inline token" /\ in.token # Unset
        \/ what = "TLS verification disabled" /\ in.insecureSkipTLSVerify}

Warnings(c) ==
    UNION {LET in == c.instances[n] IN {<<in.name, what>> : what \in WarningsAbout(in)}
           : n \in DOMAIN c.instances}

(* What restConfigFor and the clients made from it parse, and Validate     *)
(* does not: the server's address and, unless a file is given, the inline  *)
(* CA.                                                                     *)
CanBeBuilt(in) ==
    Mode(in) = "explicit" =>
        /\ in.server \in Addresses
        /\ in.caFile = Unset /\ in.caData # Unset => in.caData \in DOMAIN Certificates

ContextExists(in) ==
    Mode(in) = "kubeconfig" => <<in.kubeconfigFile, in.context>> \in DOMAIN Kubeconfigs

CertificateAuthority(in) ==
    IF in.caFile # Unset      THEN in.caFile
    ELSE IF in.caData # Unset THEN Certificates[in.caData] ELSE Unset

PodClient == [token |-> "pod", ca |-> "pod", insecure |-> FALSE]

(* Fault: the inline token wins over the file.                             *)
InlineWins(in) ==
    IF in.inCluster                   THEN PodClient
    ELSE IF in.kubeconfigFile # Unset THEN Kubeconfigs[<<in.kubeconfigFile, in.context>>]
    ELSE [token    |-> IF in.token # Unset THEN in.token ELSE in.tokenFile,
          ca       |-> CertificateAuthority(in),
          insecure |-> in.insecureSkipTLSVerify]

(* credentials.go: what the instance's client authenticates with.          *)
RestConfigFor(in) ==
    IF in.inCluster                   THEN PodClient
    ELSE IF in.kubeconfigFile # Unset THEN Kubeconfigs[<<in.kubeconfigFile, in.context>>]
    ELSE [token    |-> IF in.tokenFile # Unset THEN in.tokenFile ELSE in.token,
          ca       |-> CertificateAuthority(in),
          insecure |-> in.insecureSkipTLSVerify]

NewInstance(in) ==
    [config |-> in, client |-> RestConfigFor(in), namespaces |-> Namespaces(in)]

-----------------------------------------------------------------------------
(* Startup, one step after the other.                                      *)

ApplyEnv ==
    /\ stage = "file"
    /\ stage' = "env"
    /\ cfg' = WithEnv(cfg, env)
    /\ UNCHANGED <<env, world, registry, verifiers>>

ApplyDefaults ==
    /\ stage = "env"
    /\ stage' = "defaults"
    /\ cfg' = WithDefaults(cfg)
    /\ UNCHANGED <<env, world, registry, verifiers>>

Validate ==
    /\ stage = "defaults"
    /\ stage' = IF Valid(cfg) THEN "loaded" ELSE "refused"
    /\ UNCHANGED <<cfg, env, world, registry, verifiers>>

(* A name met twice would replace the instance built before it.  A world   *)
(* that is not as it should be may still do for this configuration.        *)
BuildRegistry ==
    LET ins   == {cfg.instances[n] : n \in DOMAIN cfg.instances}
        names == {in.name : in \in ins}
        sound == /\ \A in \in ins : CanBeBuilt(in)
                 /\ cfg.defaultInstance \in names
    IN
    /\ stage = "loaded"
    /\ \/ /\ sound
          /\ \A in \in ins : ContextExists(in)
          /\ registry' = [name \in names |-> NewInstance(CHOOSE in \in ins : in.name = name)]
          /\ stage' = "registered"
       \/ /\ ~(world /\ sound)
          /\ stage' = "failed"
          /\ UNCHANGED registry
    /\ UNCHANGED <<cfg, env, world, verifiers>>

(* protectedResourceMetadataURL parses the resource a second time.         *)
MetadataURLParses(a) ==
    LET r == ResourceIdentifier(a) IN IsHttps(r) /\ URIs[r].host

(* Validate asks of the issuer that it begins with https://; where nothing *)
(* follows that can be asked, discovery fails.                             *)
IssuerCanBeAsked(a) == a.enabled /\ a.oidcEnabled => URIs[a.issuer].host

BuildAuth ==
    LET a        == cfg.auth
        metadata == a.enabled /\ a.oidcEnabled /\ a.resourceMetadata
        built    == IF ~a.enabled THEN {}
                    ELSE (IF a.staticEnabled THEN {"static"} ELSE {})
                           \cup (IF a.oidcEnabled THEN {"oidc"} ELSE {})
        sound    == /\ a.enabled => built # {}
                    /\ IssuerCanBeAsked(a)
                    /\ metadata => MetadataURLParses(a)
    IN
    /\ stage = "registered"
    /\ \/ sound /\ stage' = "running" /\ verifiers' = built
       \/ ~(sound /\ (a.enabled => world)) /\ stage' = "failed" /\ UNCHANGED verifiers
    /\ UNCHANGED <<cfg, env, world, registry>>

(* A bad file or issuer is there from the start; the network may also fail *)
(* between the steps.                                                      *)
Breaks ==
    /\ stage \notin {"running", "refused", "failed"}
    /\ world /\ world' = FALSE
    /\ UNCHANGED <<stage, cfg, env, registry, verifiers>>

StartupInit ==
    /\ stage = "file"
    /\ cfg \in FileConfigs
    /\ env \in Environments
    /\ world \in BOOLEAN
    /\ world => \A n \in DOMAIN cfg.instances : ContextExists(cfg.instances[n])
    /\ registry = <<>>
    /\ verifiers = {}

StartupNext ==
    \/ ApplyEnv
    \/ ApplyDefaults
    \/ Validate
    \/ BuildRegistry
    \/ BuildAuth
    \/ Breaks

StartupSpec == StartupInit /\ [][StartupNext]_startupVars

-----------------------------------------------------------------------------
(* Properties.                                                             *)

Started == stage = "running"

(* Every instance of a running server has exactly one way in: one mode of  *)
(* authentication was chosen.  A kubeconfig's client is what that file     *)
(* says, whatever else the entry does.  Any other has a token, and its     *)
(* server is verified against the CA it was given unless that was waived,  *)
(* loudly, or the CA given is blank.                                       *)
OneWayIn ==
    Started => \A name \in DOMAIN registry :
        LET in     == registry[name].config
            client == registry[name].client
        IN  /\ in.name = name
            /\ \/ in.inCluster /\ in.server = Unset /\ in.kubeconfigFile = Unset
               \/ ~in.inCluster /\ (in.server = Unset) # (in.kubeconfigFile = Unset)
            /\ in.kubeconfigFile # Unset =>
                  client = Kubeconfigs[<<in.kubeconfigFile, in.context>>]
            /\ in.kubeconfigFile = Unset =>
                  /\ client.token # Unset
                  /\ client.insecure =>
                        client.ca = Unset /\ <<name, "TLS verification disabled">> \in Warnings(cfg)
                  /\ client.ca = Unset => client.insecure \/ Certificates[in.caData] = Unset

(* After Validate startup fails for what lies outside of the configuration *)
(* or for what only building parses, the address and inline CA of a server *)
(* and the rest of the issuer, and for nothing else: the default instance  *)
(* is in the registry, some verifier is built, and the resource that was   *)
(* checked parses again.                                                   *)
FailsOnlyForTheUnchecked ==
    stage = "failed" =>
        \/ ~world
        \/ \E n \in DOMAIN cfg.instances : ~CanBeBuilt(cfg.instances[n])
        \/ ~IssuerCanBeAsked(cfg.auth)

(* Where a file and an inline value are both given, the client uses the    *)
(* one the warning says takes precedence, and no inline token is used      *)
(* without a warning.                                                      *)
ClientsUseWhatWarningsSay ==
    Started => \A name \in DOMAIN registry :
        LET in     == registry[name].config
            client == registry[name].client
        IN  Mode(in) = "explicit" =>
            /\ <<name, "tokenFile takes precedence">> \in Warnings(cfg)
                  => client.token = in.tokenFile
            /\ <<name, "CA file takes precedence">> \in Warnings(cfg) => client.ca = in.caFile
            /\ client.token = in.token => <<name, "inline token">> \in Warnings(cfg)

(* The tools search each namespace of an instance once, the primary first. *)
NamespacesOnce ==
    Started => \A name \in DOMAIN registry :
        LET in == registry[name].config
            ns == registry[name].namespaces
        IN  /\ Head(ns) = in.namespace
            /\ ToSet(ns) = {in.namespace} \cup ToSet(in.applicationNamespaces)
            /\ \A n, m \in DOMAIN ns : ns[n] = ns[m] => n = m

(* A running server has the verifiers that file and environment together  *)
(* enable, all of them, and none when authentication is off.  What the     *)
(* environment says of it prevails over the file, and its token and issuer *)
(* are among those asked.  No static token hides another of its name.      *)
VerifiersAsConfigured ==
    Started =>
        /\ env.authEnabled \in Truthy => verifiers # {}
        /\ env.authEnabled \in Falsy => verifiers = {}
        /\ verifiers # {} <=> cfg.auth.enabled
        /\ verifiers # {} =>
            /\ "static" \in verifiers <=> cfg.auth.staticEnabled
            /\ "oidc" \in verifiers <=> cfg.auth.oidcEnabled
            /\ env.issuer # Unset => "oidc" \in verifiers /\ cfg.auth.issuer = env.issuer
            /\ env.staticToken # Unset =>
                /\ "static" \in verifiers
                /\ \E n \in DOMAIN cfg.auth.tokens : cfg.auth.tokens[n].token = env.staticToken
        /\ "static" \in verifiers =>
            Cardinality({cfg.auth.tokens[n].name : n \in DOMAIN cfg.auth.tokens})
              = Len(cfg.auth.tokens)
=============================================================================
