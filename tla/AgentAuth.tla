----------------------------- MODULE AgentAuth ------------------------------
(***************************************************************************)
(* internal/auth: who may call the server.  Requests present a shared      *)
(* static token or a JWT; a chain of verifiers, static tokens before OIDC, *)
(* decides, and the SDK's middleware has the last word.  Token files are   *)
(* read again for every request, one after the other, while whoever        *)
(* administers them rotates them.                                          *)
(*                                                                         *)
(* A refusal is answered as the SDK answers the error of the last verifier *)
(* of the chain, and a caller is one string, whoever vouches for it.       *)
(***************************************************************************)
EXTENDS Integers, Sequences, FiniteSets

CONSTANTS
    Requests,        \* one identity per HTTP request to /mcp
    Secrets,         \* values of static tokens
    InlineToken,     \* a function: the secret of each token named in the config
    Files,           \* the names of the tokens kept in files
    Claims,          \* a function: what each JWT says, [valid, scope, scp, groups,
                     \* subject, username]; a claim is [kind, words]
    RequiredScopes,  \* auth.oidc.requiredScopes
    RequiredGroups   \* auth.oidc.requiredGroups

Inline     == DOMAIN InlineToken
JWTs       == DOMAIN Claims
Unreadable == "unreadable"
NoToken    == "no token"

ASSUME NamesAssumption == Inline \cap Files = {}

ASSUME TokensAssumption ==
    /\ Secrets \cap JWTs = {}
    /\ {Unreadable, NoToken} \cap (Secrets \cup JWTs) = {}
    /\ \A n \in Inline : InlineToken[n] \in Secrets

VARIABLES
    enabled,   \* auth.enabled
    methods,   \* which of "static" and "oidc" are enabled
    server,    \* "starting", "serving" or "failed"
    content,   \* what each token file holds
    provider,  \* whether the OIDC provider answers
    token,     \* what each request presents
    status,    \* how far each request is, or its answer
    unread,    \* the token files still to be read for it
    user,      \* whom it was attributed to
    attempts,  \* amcp_auth_requests_total
    held       \* history: the names that held the token of a request
               \* [throughout, at some moment of] its verification

config   == <<enabled, methods>>
world    == <<content, provider>>
requests == <<token, status, unread, user>>
vars     == <<config, server, world, requests, attempts, held>>

Answers == {"served", "401", "403", "500"}
Nobody  == ""
Labels  == {<<"static", "allow">>, <<"oidc", "allow">>, <<"none", "deny">>}

-----------------------------------------------------------------------------

(* auth.Build: every token file is readable once, the issuer is discovered.*)
Build ==
    /\ server = "starting"
    /\ LET ready == enabled =>
                      /\ "static" \in methods => \A f \in Files : content[f] # Unreadable
                      /\ "oidc" \in methods => provider = "up"
       IN  server' = IF ready THEN "serving" ELSE "failed"
    /\ UNCHANGED <<config, world, requests, attempts, held>>

RecordAuth(method, result) ==
    attempts' = [attempts EXCEPT ![<<method, result>>] = @ + 1]

Reply(r, answer) == status' = [status EXCEPT ![r] = answer]

OptsScopes == IF "oidc" \in methods THEN RequiredScopes ELSE {}

(* Fault: the caller is attributed before the scopes are checked.          *)
AttributesFirst(r, method, who, scopes) ==
    /\ RecordAuth(method, "allow")
    /\ user' = [user EXCEPT ![r] = who]
    /\ Reply(r, IF OptsScopes \subseteq scopes THEN "served" ELSE "403")
    /\ UNCHANGED <<config, server, world, token, unread, held>>

(* The verifier is content; RequireBearerToken checks the scopes after it. *)
Accept(r, method, who, scopes) ==
    /\ RecordAuth(method, "allow")
    /\ IF OptsScopes \subseteq scopes
       THEN Reply(r, "served") /\ user' = [user EXCEPT ![r] = who]
       ELSE Reply(r, "403") /\ UNCHANGED user
    /\ UNCHANGED <<config, server, world, token, unread, held>>

(* The chain returns its last error.  That of static tokens is the SDK's   *)
(* ErrInvalidToken; those of OIDC do not wrap it.                          *)
Refusal == IF "oidc" \in methods THEN "500" ELSE "401"

(* Fault: every verifier of the chain records its own refusal.             *)
DeniesOncePerMethod(r) ==
    /\ attempts' = [attempts EXCEPT ![<<"none", "deny">>] = @ + Cardinality(methods)]
    /\ Reply(r, Refusal)
    /\ UNCHANGED <<config, server, world, token, unread, user, held>>

Deny(r) ==
    /\ RecordAuth("none", "deny")
    /\ Reply(r, Refusal)
    /\ UNCHANGED <<config, server, world, token, unread, user, held>>

(* The middleware: no verifier sees a request without a token.             *)
ReceiveUnverified(r) ==
    /\ server = "serving"
    /\ status[r] = "new"
    /\ \/ ~enabled /\ Reply(r, "served")
       \/ enabled /\ token[r] = NoToken /\ Reply(r, "401")
    /\ UNCHANGED <<config, server, world, token, unread, user, attempts, held>>

Holders(t) ==
    {n \in Inline : InlineToken[n] = t} \cup {f \in Files : content[f] = t}

Receive(r) ==
    /\ server = "serving"
    /\ status[r] = "new"
    /\ enabled /\ token[r] # NoToken
    /\ Reply(r, IF "static" \in methods THEN "inline" ELSE "oidc")
    /\ unread' = [unread EXCEPT ![r] = Files]
    /\ held' = [held EXCEPT ![r] = [throughout |-> Holders(token[r]),
                                    atSomeMoment |-> Holders(token[r])]]
    /\ UNCHANGED <<config, server, world, token, user, attempts>>

StaticID(name) == "static:" \o name

CompareInline(r) ==
    /\ status[r] = "inline"
    /\ \/ \E n \in Inline : InlineToken[n] = token[r] /\ Accept(r, "static", StaticID(n), {})
       \/ /\ \A n \in Inline : InlineToken[n] # token[r]
          /\ Reply(r, "files")
          /\ UNCHANGED <<config, server, world, token, unread, user, attempts, held>>

(* Fault: a file that cannot be read ends the verification.                *)
ReadFileOrFail(r) ==
    /\ status[r] = "files"
    /\ \E f \in unread[r] :
        \/ content[f] = token[r] /\ Accept(r, "static", StaticID(f), {})
        \/ content[f] = Unreadable /\ Deny(r)
        \/ /\ content[f] \notin {token[r], Unreadable}
           /\ unread' = [unread EXCEPT ![r] = @ \ {f}]
           /\ UNCHANGED <<config, server, world, token, status, user, attempts, held>>

(* The files are a Go map: they are read in any order.                     *)
ReadFile(r) ==
    /\ status[r] = "files"
    /\ \E f \in unread[r] :
        \/ content[f] = token[r] /\ Accept(r, "static", StaticID(f), {})
        \/ /\ content[f] # token[r]
           /\ unread' = [unread EXCEPT ![r] = @ \ {f}]
           /\ UNCHANGED <<config, server, world, token, status, user, attempts, held>>

NextVerifier(r) ==
    /\ status[r] = "files"
    /\ unread[r] = {}
    /\ \/ "oidc" \notin methods /\ Deny(r)
       \/ /\ "oidc" \in methods
          /\ Reply(r, "oidc")
          /\ UNCHANGED <<config, server, world, token, unread, user, attempts, held>>

(* Fault: one of the required is enough.                                   *)
RequireAny(required, present) == required = {} \/ required \cap present # {}

RequireAll(required, present) == required \subseteq present

(* A list of words, or a string, which is not split: more than one word of *)
(* it is nothing that could be required.                                   *)
StringSet(claim) ==
    IF claim.kind = "list" \/ (claim.kind = "string" /\ \E w \in claim.words : claim.words = {w})
    THEN claim.words
    ELSE {}

(* Fault: scp is only looked at when there is no scope.                    *)
ScopeElseScp(claims) ==
    IF claims.scope.kind = "string" THEN claims.scope.words ELSE StringSet(claims.scp)

(* Providers differ: scope is a string of words, scp is a list.            *)
ScopeSet(claims) ==
    (IF claims.scope.kind = "string" THEN claims.scope.words ELSE {}) \cup StringSet(claims.scp)

UserID(claims) == IF claims.username = "" THEN claims.subject ELSE claims.username

Acceptable(jwt) ==
    /\ Claims[jwt].valid
    /\ RequireAll(RequiredScopes, ScopeSet(Claims[jwt]))
    /\ RequireAll(RequiredGroups, StringSet(Claims[jwt].groups))

(* Signing keys may be cached, so a silent provider decides nothing.       *)
VerifyJWT(r) ==
    LET t == token[r] IN
    /\ status[r] = "oidc"
    /\ \/ /\ t \in JWTs /\ Acceptable(t)
          /\ Accept(r, "oidc", UserID(Claims[t]), ScopeSet(Claims[t]))
       \/ ~(t \in JWTs /\ Acceptable(t) /\ provider = "up") /\ Deny(r)

Handler(r) ==
    \/ ReceiveUnverified(r)
    \/ Receive(r)
    \/ CompareInline(r)
    \/ ReadFile(r)
    \/ NextVerifier(r)
    \/ VerifyJWT(r)

-----------------------------------------------------------------------------
(* Whoever rotates the token files, and the OIDC provider.                 *)

Rotate(f) ==
    /\ \E s \in Secrets \cup {Unreadable} : content' = [content EXCEPT ![f] = s]
    /\ held' = [r \in Requests |->
                  LET now == {n \in Inline : InlineToken[n] = token[r]}
                               \cup {g \in Files : content'[g] = token[r]}
                  IN  IF status[r] \in {"new"} \cup Answers THEN held[r]
                      ELSE [throughout   |-> held[r].throughout \cap now,
                            atSomeMoment |-> held[r].atSomeMoment \cup now]]
    /\ UNCHANGED <<config, server, provider, requests, attempts>>

ProviderChanges ==
    /\ provider' \in {"up", "down"} \ {provider}
    /\ UNCHANGED <<config, server, content, requests, attempts, held>>

-----------------------------------------------------------------------------

(* Config.Validate: auth that is enabled has a method.                     *)
Init ==
    /\ enabled \in BOOLEAN
    /\ methods \in SUBSET {"static", "oidc"}
    /\ enabled => methods # {}
    /\ server = "starting"
    /\ content \in [Files -> Secrets \cup {Unreadable}]
    /\ provider \in {"up", "down"}
    /\ token \in [Requests -> Secrets \cup JWTs \cup {NoToken}]
    /\ status = [r \in Requests |-> "new"]
    /\ unread = [r \in Requests |-> {}]
    /\ user = [r \in Requests |-> Nobody]
    /\ attempts = [l \in Labels |-> 0]
    /\ held = [r \in Requests |-> [throughout |-> {}, atSomeMoment |-> {}]]

Next ==
    \/ Build
    \/ \E r \in Requests : Handler(r)
    \/ \E f \in Files : Rotate(f)
    \/ ProviderChanges

Spec == Init /\ [][Next]_vars

-----------------------------------------------------------------------------
(* Properties.                                                             *)

(* Every variable has the type its comment gives it, a request is only     *)
(* attributed to a caller who is served, and none is served too early.     *)
TypeOK ==
    /\ enabled \in BOOLEAN
    /\ methods \subseteq {"static", "oidc"}
    /\ server \in {"starting", "serving", "failed"}
    /\ content \in [Files -> Secrets \cup {Unreadable}]
    /\ provider \in {"up", "down"}
    /\ token \in [Requests -> Secrets \cup JWTs \cup {NoToken}]
    /\ status \in [Requests -> {"new", "inline", "files", "oidc"} \cup Answers]
    /\ unread \in [Requests -> SUBSET Files]
    /\ \A r \in Requests : user[r] # Nobody => status[r] = "served"
    /\ \A r \in Requests : status[r] # "new" => server = "serving"
    /\ attempts \in [Labels -> Nat]
    /\ \A r \in Requests : held[r].throughout \subseteq held[r].atSomeMoment

(* The scopes a JWT grants, in whichever claim its provider puts them.     *)
Granted(jwt) ==
    {s \in RequiredScopes :
        \/ Claims[jwt].scope.kind = "string" /\ s \in Claims[jwt].scope.words
        \/ Claims[jwt].scp.kind = "list" /\ s \in Claims[jwt].scp.words
        \/ Claims[jwt].scp.kind = "string" /\ Claims[jwt].scp.words = {s}}

(* Nobody is served on a token that was rotated out before the request     *)
(* came in, and with a static token nobody as another name than one that   *)
(* held it while the request was verified.  Whoever presented a JWT        *)
(* presented a valid one with all scopes and groups required, and is who   *)
(* it says.  It may say "static:ci": the string does not tell which.       *)
ServedHeldTheToken ==
    \A r \in Requests : status[r] = "served" /\ enabled =>
        IF token[r] \in JWTs
        THEN /\ Claims[token[r]].valid
             /\ RequiredScopes \subseteq Granted(token[r])
             /\ RequiredGroups \subseteq Claims[token[r]].groups.words
             /\ user[r] \in {Claims[token[r]].username, Claims[token[r]].subject}
        ELSE \E n \in held[r].atSomeMoment : user[r] = StaticID(n)

(* No verifier turns away, be it with a 401 or a 500, who held a static    *)
(* token all the while: neither an unreadable file nor a rotation of other *)
(* names' files locks a name out.                                          *)
HolderIsNotUnauthorized ==
    \A r \in Requests :
        status[r] \in {"401", "500"} /\ "static" \in methods => held[r].throughout = {}

(* While the provider answers, nobody is turned away with a valid JWT that *)
(* has the scopes, be they in one claim or spread over two, and lists the  *)
(* groups: not by the verifier, and not by the middleware that looks for   *)
(* the scopes again, in what the verifier has made of them.                *)
GoodJwtIsServed ==
    [][\A r \in Requests :
        status[r] = "oidc" /\ status'[r] \in Answers \ {"served"} /\ token[r] \in JWTs =>
            LET claims == Claims[token[r]] IN
            \/ provider # "up"
            \/ ~claims.valid
            \/ ~(RequiredScopes \subseteq Granted(token[r]))
            \/ claims.groups.kind # "list" /\ RequiredGroups # {}
            \/ ~(RequiredGroups \subseteq claims.groups.words)]_vars

(* What the answer to a request with a token is counted as: a caller whom  *)
(* the middleware sends away with a 403 was allowed by a verifier.         *)
Outcome(r) ==
    IF status[r] \in {"401", "500"} THEN <<"none", "deny">>
    ELSE IF token[r] \in JWTs THEN <<"oidc", "allow">> ELSE <<"static", "allow">>

(* amcp_auth_requests_total counts every request that presented a token    *)
(* once it is decided, under the label of its outcome and under no other,  *)
(* whatever the chain went through.                                        *)
AttemptsAddUp ==
    enabled => \A l \in Labels :
        attempts[l] = Cardinality({r \in Requests : /\ status[r] \in Answers
                                                   /\ token[r] # NoToken
                                                   /\ Outcome(r) = l})

(* docs/auth.md:177, "A request passes if either verifier accepts it":     *)
(* also a static token's, when OIDC is enabled next to it.                 *)
PassesIfEitherAccepts ==
    \A r \in Requests :
        status[r] \in Answers /\ "static" \in methods /\ held[r].throughout # {}
            => status[r] = "served"
=============================================================================
