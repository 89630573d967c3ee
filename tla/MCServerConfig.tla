--------------------------- MODULE MCServerConfig ---------------------------
(***************************************************************************)
(* Small instances of ServerConfig.                                        *)
(***************************************************************************)
EXTENDS ServerConfig, TLC

SomeURIs ==
    ("https://idp"  :> [scheme |-> "https", host |-> TRUE, fragment |-> FALSE]) @@
    ("http://idp"   :> [scheme |-> "http", host |-> TRUE, fragment |-> FALSE]) @@
    ("https:///mcp" :> [scheme |-> "https", host |-> FALSE, fragment |-> FALSE]) @@
    ("https://m#f"  :> [scheme |-> "https", host |-> TRUE, fragment |-> TRUE])

InCluster ==
    [name |-> "local", inCluster |-> TRUE, server |-> "", caFile |-> "", caData |-> "",
     tokenFile |-> "", token |-> "", insecureSkipTLSVerify |-> FALSE,
     kubeconfigFile |-> "", context |-> "", namespace |-> "",
     applicationNamespaces |-> <<>>]

SomeCertificates == ("PEM" :> "certificate") @@ ("blank" :> "")

Says(token, ca, insecure) == [token |-> token, ca |-> ca, insecure |-> insecure]

SomeKubeconfigs ==
    (<<"/kc", "admin">> :> Says("s", "/ca", FALSE)) @@
    (<<"/kc", "lax">>   :> Says("s", "", TRUE)) @@
    (<<"/kc", "cert">>  :> Says("", "", FALSE))

Remote == [InCluster EXCEPT !.name = "remote", !.inCluster = FALSE, !.server = "https://api"]

Kubeconfig ==
    [InCluster EXCEPT !.name = "kube", !.inCluster = FALSE, !.kubeconfigFile = "/kc"]

SomeInstances ==
    {[Remote EXCEPT !.server = a, !.caFile = f, !.caData = d, !.insecureSkipTLSVerify = s,
                    !.tokenFile = tf, !.token = t] :
        a \in {"https://api", "no address"}, f \in {"", "/ca"},
        d \in {"", "PEM", "blank", "junk"}, s \in BOOLEAN, tf \in {"", "/t"}, t \in {"", "s"}}
    \cup {[InCluster EXCEPT !.name = n, !.namespace = p, !.applicationNamespaces = a] :
        n \in {"", "Local", "local"}, p \in {"", "team", "No Label"},
        a \in {<<>>, <<"team">>, <<"argocd", "team", "team">>, <<"">>}}
    \cup {[Kubeconfig EXCEPT !.context = c, !.inCluster = b, !.server = s] :
        c \in {"", "admin"}, b \in BOOLEAN, s \in {"", "https://api"}}
    \cup {[Kubeconfig EXCEPT !.context = c, !.insecureSkipTLSVerify = s, !.token = t] :
        c \in {"admin", "lax", "cert", "gone"}, s \in BOOLEAN, t \in {"", "t"}}

NoAuth ==
    [enabled |-> FALSE, staticEnabled |-> FALSE, tokens |-> <<>>, oidcEnabled |-> FALSE,
     issuer |-> "", audience |-> "", resource |-> "", resourceMetadata |-> TRUE]

Base(instances, default) ==
    [logLevel |-> "", defaultInstance |-> default, readOnly |-> FALSE,
     instances |-> instances, auth |-> NoAuth]

InstanceConfigs ==
    {Base(ins, default) :
        ins \in {<<>>} \cup {<<a>> : a \in SomeInstances}
                 \cup {<<InCluster, a>> : a \in SomeInstances},
        default \in {"", "local", "remote"}}

Token(name, secret, file) == [name |-> name, token |-> secret, tokenFile |-> file]

AuthConfigs ==
    {[Base(<<InCluster>>, "") EXCEPT !.auth =
        [enabled |-> e, staticEnabled |-> s, tokens |-> t, oidcEnabled |-> o,
         issuer |-> i, audience |-> "https://idp", resource |-> r, resourceMetadata |-> m]] :
        e \in BOOLEAN, s \in BOOLEAN,
        t \in {<<>>, <<Token("ci", "", "/t")>>, <<Token("env", "x", "")>>,
               <<Token("ci", "x", "/t")>>},
        o \in BOOLEAN, i \in {"", "https://idp", "http://idp", "https:///mcp"},
        r \in {"", "https:///mcp", "https://m#f"}, m \in BOOLEAN}

NoEnv ==
    [logLevel |-> "", defaultInstance |-> "", readOnly |-> "", authEnabled |-> "",
     staticToken |-> "", issuer |-> "", audience |-> "", resource |-> ""]

InstanceEnv ==
    {NoEnv, [NoEnv EXCEPT !.defaultInstance = "remote"],
     [NoEnv EXCEPT !.logLevel = "loud"], [NoEnv EXCEPT !.readOnly = "yes"],
     [NoEnv EXCEPT !.readOnly = "T"]}

AuthEnv ==
    {[NoEnv EXCEPT !.authEnabled = e, !.staticToken = s, !.issuer = i] :
        e \in {"", "1", "True", "f", "false", "on"}, s \in {"", "secret"},
        i \in {"", "https://idp"}}

AllConfigs == InstanceConfigs \cup AuthConfigs
AllEnv     == InstanceEnv \cup AuthEnv
=============================================================================
