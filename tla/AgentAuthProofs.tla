--------------------------- MODULE AgentAuthProofs --------------------------
(***************************************************************************)
(* Who is served and who is not, for any number of requests, tokens and    *)
(* files, whatever JWTs claim and however the files are rotated.           *)
(***************************************************************************)
EXTENDS AgentAuth, FiniteSetTheorems, TLAPS

Names     == Inline \cup Files
Verifying == {"inline", "files", "oidc"}

(* What is remembered of a request that is being verified brackets who     *)
(* holds its token now, and nobody who has been asked held it all along.   *)
VerifyingInv ==
    \A r \in Requests : status[r] \in Verifying =>
        /\ enabled
        /\ Holders(token[r]) \subseteq held[r].atSomeMoment
        /\ held[r].throughout \subseteq Holders(token[r])
        /\ status[r] = "inline" => unread[r] = Files
        /\ status[r] = "files" => held[r].throughout \subseteq unread[r]
        /\ status[r] = "oidc" => "oidc" \in methods
        /\ status[r] = "oidc" /\ "static" \in methods => held[r].throughout = {}

HistoryInv ==
    /\ enabled => methods # {}
    /\ held \in [Requests -> [throughout : SUBSET Names, atSomeMoment : SUBSET Names]]
    /\ user = [r \in Requests |-> user[r]]
    /\ \A r \in Requests : status[r] = "new" => held[r].throughout = {}

IndInv ==
    TypeOK /\ HistoryInv /\ VerifyingInv /\ ServedHeldTheToken /\ HolderIsNotUnauthorized

-----------------------------------------------------------------------------
(* Sets of words.                                                          *)

LEMMA StringSetIsIn == ASSUME NEW claim PROVE StringSet(claim) \subseteq claim.words
  BY DEF StringSet

(* The verifier looks for the scopes in what the provider granted.         *)
LEMMA ScopesGranted ==
    ASSUME NEW t \in JWTs
    PROVE  RequireAll(RequiredScopes, ScopeSet(Claims[t])) <=> RequiredScopes \subseteq Granted(t)
  BY DEF RequireAll, ScopeSet, StringSet, Granted

LEMMA HoldersAreNames == \A t : Holders(t) \in SUBSET Names
  BY DEF Holders, Names

-----------------------------------------------------------------------------
(* The two ways to answer.                                                 *)

LEMMA AcceptInv ==
    ASSUME IndInv, NEW r \in Requests, status[r] \in Verifying,
           NEW method \in {"static", "oidc"}, NEW who, NEW scopes,
           Accept(r, method, who, scopes),
           method = "static" =>
               token[r] \notin JWTs /\ \E n \in Holders(token[r]) : who = StaticID(n),
           method = "oidc" =>
               /\ token[r] \in JWTs
               /\ Claims[token[r]].valid
               /\ RequiredScopes \subseteq Granted(token[r])
               /\ RequiredGroups \subseteq Claims[token[r]].groups.words
               /\ who \in {Claims[token[r]].username, Claims[token[r]].subject}
    PROVE  IndInv'
  <1> USE DEF IndInv
  <1>1. /\ UNCHANGED <<config, server, world, token, unread, held>>
        /\ attempts' = [attempts EXCEPT ![<<method, "allow">>] = @ + 1]
        /\ \/ status' = [status EXCEPT ![r] = "served"] /\ user' = [user EXCEPT ![r] = who]
           \/ status' = [status EXCEPT ![r] = "403"] /\ UNCHANGED user
    BY DEF Accept, RecordAuth, Reply
  <1>2. attempts' \in [Labels -> Nat]
    <2>1. attempts \in [Labels -> Nat] /\ <<method, "allow">> \in Labels
      BY DEF TypeOK, Labels
    <2> HIDE DEF IndInv
    <2>2. attempts[<<method, "allow">>] + 1 \in Nat
      BY <2>1
    <2> QED
      BY <1>1, <2>1, <2>2
  <1>3. /\ status' \in [Requests -> {"new", "inline", "files", "oidc"} \cup Answers]
        /\ status'[r] \in {"served", "403"}
        /\ \A q \in Requests \ {r} : status'[q] = status[q] /\ user'[q] = user[q]
        /\ status'[r] = "served" => user'[r] = who
        /\ status'[r] = "403" => user'[r] = user[r]
    BY <1>1 DEF TypeOK, HistoryInv, Answers
  <1>4. server = "serving" /\ user[r] = Nobody
    BY DEF TypeOK, Verifying
  <1>5. TypeOK'
    BY <1>1, <1>2, <1>3, <1>4 DEF TypeOK, config, world
  <1>6. HistoryInv'
    BY <1>1, <1>3 DEF HistoryInv, config
  <1>7. VerifyingInv'
    BY <1>1, <1>3 DEF VerifyingInv, Verifying, config, world, Holders
  <1>8. method = "static" => \E n \in held[r].atSomeMoment : who = StaticID(n)
    BY DEF VerifyingInv
  <1>9. ServedHeldTheToken'
    BY <1>1, <1>3, <1>8 DEF ServedHeldTheToken, Granted, config
  <1>10. HolderIsNotUnauthorized'
    BY <1>1, <1>3 DEF HolderIsNotUnauthorized, config
  <1>11. QED
    BY <1>5, <1>6, <1>7, <1>9, <1>10

LEMMA DenyInv ==
    ASSUME IndInv, NEW r \in Requests, status[r] \in Verifying, Deny(r),
           "static" \in methods => held[r].throughout = {}
    PROVE  IndInv'
  <1> USE DEF IndInv
  <1>1. /\ UNCHANGED <<config, server, world, token, unread, user, held>>
        /\ attempts' = [attempts EXCEPT ![<<"none", "deny">>] = @ + 1]
        /\ status' = [status EXCEPT ![r] = Refusal]
    BY DEF Deny, RecordAuth, Reply
  <1>2. attempts' \in [Labels -> Nat]
    <2>1. attempts \in [Labels -> Nat] /\ <<"none", "deny">> \in Labels
      BY DEF TypeOK, Labels
    <2> HIDE DEF IndInv
    <2>2. attempts[<<"none", "deny">>] + 1 \in Nat
      BY <2>1
    <2> QED
      BY <1>1, <2>1, <2>2
  <1>3. /\ status' \in [Requests -> {"new", "inline", "files", "oidc"} \cup Answers]
        /\ status'[r] \in {"401", "500"}
        /\ \A q \in Requests \ {r} : status'[q] = status[q]
    BY <1>1 DEF TypeOK, Answers, Refusal
  <1>4. server = "serving" /\ user[r] = Nobody
    BY DEF TypeOK, Verifying
  <1>5. TypeOK'
    BY <1>1, <1>2, <1>3, <1>4 DEF TypeOK, config, world
  <1>6. HistoryInv'
    BY <1>1, <1>3 DEF HistoryInv, config
  <1>7. VerifyingInv'
    BY <1>1, <1>3 DEF VerifyingInv, Verifying, config, world, Holders
  <1>8. ServedHeldTheToken'
    BY <1>1, <1>3 DEF ServedHeldTheToken, Granted, config
  <1>9. HolderIsNotUnauthorized'
    BY <1>1, <1>3 DEF HolderIsNotUnauthorized, config
  <1>10. QED
    BY <1>5, <1>6, <1>7, <1>8, <1>9

-----------------------------------------------------------------------------
(* The steps of a request.                                                 *)

LEMMA InitInv == Init => IndInv
  BY DEF Init, IndInv, TypeOK, HistoryInv, VerifyingInv, ServedHeldTheToken,
         HolderIsNotUnauthorized, Verifying, Names, Answers

LEMMA BuildInv == IndInv /\ Build => IndInv'
  BY DEF Build, IndInv, TypeOK, HistoryInv, VerifyingInv, ServedHeldTheToken, Granted,
         HolderIsNotUnauthorized, Holders, config, world, requests

LEMMA ReceiveUnverifiedInv ==
    ASSUME IndInv, NEW r \in Requests, ReceiveUnverified(r)
    PROVE  IndInv'
  <1> USE DEF IndInv
  <1>1. /\ server = "serving"
        /\ status[r] = "new"
        /\ UNCHANGED <<config, server, world, token, unread, user, attempts, held>>
        /\ \/ ~enabled /\ status' = [status EXCEPT ![r] = "served"]
           \/ status' = [status EXCEPT ![r] = "401"]
    BY DEF ReceiveUnverified, Reply
  <1>2. /\ status' \in [Requests -> {"new", "inline", "files", "oidc"} \cup Answers]
        /\ status'[r] \in {"served", "401"}
        /\ status'[r] = "served" => ~enabled
        /\ \A q \in Requests \ {r} : status'[q] = status[q]
    BY <1>1 DEF TypeOK, Answers
  <1>3. TypeOK'
    BY <1>1, <1>2 DEF TypeOK, config, world
  <1>4. HistoryInv'
    BY <1>1, <1>2 DEF HistoryInv, config
  <1>5. VerifyingInv'
    BY <1>1, <1>2 DEF VerifyingInv, Verifying, config, world, Holders
  <1>6. ServedHeldTheToken'
    BY <1>1, <1>2 DEF ServedHeldTheToken, Granted, config
  <1>7. HolderIsNotUnauthorized'
    BY <1>1, <1>2 DEF HolderIsNotUnauthorized, HistoryInv, config
  <1>8. QED
    BY <1>3, <1>4, <1>5, <1>6, <1>7

LEMMA ReceiveInv ==
    ASSUME IndInv, NEW r \in Requests, Receive(r)
    PROVE  IndInv'
  <1> USE DEF IndInv
  <1> DEFINE h == [throughout |-> Holders(token[r]), atSomeMoment |-> Holders(token[r])]
  <1>1. /\ server = "serving"
        /\ status[r] = "new"
        /\ enabled
        /\ UNCHANGED <<config, server, world, token, user, attempts>>
        /\ status' = [status EXCEPT ![r] = IF "static" \in methods THEN "inline" ELSE "oidc"]
        /\ unread' = [unread EXCEPT ![r] = Files]
        /\ held' = [held EXCEPT ![r] = h]
    BY DEF Receive, Reply
  <1>2. /\ status' \in [Requests -> {"new", "inline", "files", "oidc"} \cup Answers]
        /\ status'[r] = IF "static" \in methods THEN "inline" ELSE "oidc"
        /\ unread' \in [Requests -> SUBSET Files]
        /\ held'[r] = h
        /\ held' \in [Requests -> [throughout : SUBSET Names, atSomeMoment : SUBSET Names]]
        /\ \A q \in Requests \ {r} :
              status'[q] = status[q] /\ held'[q] = held[q] /\ unread'[q] = unread[q]
    BY <1>1, HoldersAreNames DEF TypeOK, HistoryInv
  <1>3. TypeOK'
    BY <1>1, <1>2 DEF TypeOK, config, world
  <1>4. HistoryInv'
    BY <1>1, <1>2 DEF HistoryInv, config
  <1>5. "static" \notin methods => "oidc" \in methods
    BY <1>1 DEF TypeOK, HistoryInv
  <1>6. VerifyingInv'
    BY <1>1, <1>2, <1>5 DEF VerifyingInv, Verifying, config, world, Holders
  <1>7. ServedHeldTheToken'
    BY <1>1, <1>2 DEF ServedHeldTheToken, Granted, config
  <1>8. HolderIsNotUnauthorized'
    BY <1>1, <1>2 DEF HolderIsNotUnauthorized, config
  <1>9. QED
    BY <1>3, <1>4, <1>6, <1>7, <1>8

(* A request goes on to the next thing to look at.                         *)
LEMMA GoesOnInv ==
    ASSUME IndInv, NEW r \in Requests, status[r] \in Verifying,
           NEW s \in {"files", "oidc"}, status' = [status EXCEPT ![r] = s],
           unread' \in [Requests -> SUBSET Files],
           \A q \in Requests \ {r} : unread'[q] = unread[q],
           UNCHANGED <<config, server, world, token, user, attempts, held>>,
           s = "files" => held[r].throughout \subseteq unread'[r],
           s = "oidc" => "oidc" \in methods,
           s = "oidc" /\ "static" \in methods => held[r].throughout = {}
    PROVE  IndInv'
  <1> USE DEF IndInv
  <1>1. /\ status' \in [Requests -> {"new", "inline", "files", "oidc"} \cup Answers]
        /\ status'[r] = s
        /\ \A q \in Requests \ {r} : status'[q] = status[q]
    BY DEF TypeOK
  <1>2. user[r] = Nobody /\ server = "serving"
    BY DEF TypeOK, Verifying
  <1>3. TypeOK'
    BY <1>1, <1>2 DEF TypeOK, config, world
  <1>4. HistoryInv'
    BY <1>1 DEF HistoryInv, Verifying, config
  <1>5. VerifyingInv'
    BY <1>1 DEF VerifyingInv, config, world, Holders
  <1>6. ServedHeldTheToken' /\ HolderIsNotUnauthorized'
    BY <1>1 DEF ServedHeldTheToken, HolderIsNotUnauthorized, Granted, Verifying, config
  <1>7. QED
    BY <1>3, <1>4, <1>5, <1>6

LEMMA CompareInlineInv ==
    ASSUME IndInv, NEW r \in Requests, CompareInline(r)
    PROVE  IndInv'
  <1>1. status[r] = "inline" /\ status[r] \in Verifying
    BY DEF CompareInline, Verifying
  <1>2. CASE \E n \in Inline : InlineToken[n] = token[r] /\ Accept(r, "static", StaticID(n), {})
    <2>1. PICK n \in Inline :
              InlineToken[n] = token[r] /\ Accept(r, "static", StaticID(n), {})
      BY <1>2
    <2>2. n \in Holders(token[r]) /\ token[r] \notin JWTs
      BY <2>1, TokensAssumption DEF Holders
    <2>3. QED
      BY <1>1, <2>1, <2>2, AcceptInv
  <1>3. CASE /\ \A n \in Inline : InlineToken[n] # token[r]
             /\ Reply(r, "files")
             /\ UNCHANGED <<config, server, world, token, unread, user, attempts, held>>
    <2>1. held[r].throughout \subseteq unread[r]
      BY <1>1, <1>3 DEF IndInv, VerifyingInv, Holders
    <2>2. unread \in [Requests -> SUBSET Files]
      BY DEF IndInv, TypeOK
    <2>3. QED
      BY <1>1, <1>3, <2>1, <2>2, GoesOnInv DEF Reply, Verifying
  <1>4. QED
    BY <1>2, <1>3 DEF CompareInline

LEMMA ReadFileInv ==
    ASSUME IndInv, NEW r \in Requests, ReadFile(r)
    PROVE  IndInv'
  <1>1. status[r] = "files" /\ status[r] \in Verifying
    BY DEF ReadFile, Verifying
  <1>2. PICK f \in unread[r] :
            \/ content[f] = token[r] /\ Accept(r, "static", StaticID(f), {})
            \/ /\ content[f] # token[r]
               /\ unread' = [unread EXCEPT ![r] = @ \ {f}]
               /\ UNCHANGED <<config, server, world, token, status, user, attempts, held>>
    BY DEF ReadFile
  <1>3. f \in Files /\ unread \in [Requests -> SUBSET Files]
    BY DEF IndInv, TypeOK
  <1>4. CASE content[f] = token[r] /\ Accept(r, "static", StaticID(f), {})
    <2>1. f \in Holders(token[r]) /\ token[r] \notin JWTs
      BY <1>3, <1>4, TokensAssumption DEF Holders, IndInv, TypeOK
    <2>2. QED
      BY <1>1, <1>4, <2>1, AcceptInv
  <1>5. CASE /\ content[f] # token[r]
             /\ unread' = [unread EXCEPT ![r] = @ \ {f}]
             /\ UNCHANGED <<config, server, world, token, status, user, attempts, held>>
    <2>1. f \notin Holders(token[r]) \/ f \in Inline
      BY <1>5 DEF Holders
    <2>2. f \notin held[r].throughout
      BY <1>1, <1>3, <2>1, NamesAssumption DEF IndInv, VerifyingInv, Holders
    <2>3. held[r].throughout \subseteq unread'[r]
      BY <1>1, <1>3, <1>5, <2>2 DEF IndInv, VerifyingInv
    <2>4. status' = [status EXCEPT ![r] = "files"]
      BY <1>1, <1>5 DEF IndInv, TypeOK
    <2>5. /\ unread' \in [Requests -> SUBSET Files]
          /\ \A q \in Requests \ {r} : unread'[q] = unread[q]
      BY <1>3, <1>5
    <2>6. QED
      BY <1>1, <1>5, <2>3, <2>4, <2>5, GoesOnInv DEF Verifying
  <1>6. QED
    BY <1>2, <1>4, <1>5

LEMMA NextVerifierInv ==
    ASSUME IndInv, NEW r \in Requests, NextVerifier(r)
    PROVE  IndInv'
  <1>1. /\ status[r] = "files" /\ status[r] \in Verifying
        /\ held[r].throughout = {}
    BY DEF NextVerifier, Verifying, IndInv, VerifyingInv
  <1>2. CASE Deny(r)
    BY <1>1, <1>2, DenyInv
  <1>3. CASE /\ "oidc" \in methods
             /\ Reply(r, "oidc")
             /\ UNCHANGED <<config, server, world, token, unread, user, attempts, held>>
    <2>1. unread \in [Requests -> SUBSET Files]
      BY DEF IndInv, TypeOK
    <2>2. QED
      BY <1>1, <1>3, <2>1, GoesOnInv DEF Reply, Verifying
  <1>4. QED
    BY <1>2, <1>3 DEF NextVerifier

LEMMA VerifyJWTInv ==
    ASSUME IndInv, NEW r \in Requests, VerifyJWT(r)
    PROVE  IndInv'
  <1> DEFINE t == token[r]
  <1>1. /\ status[r] = "oidc" /\ status[r] \in Verifying
        /\ "static" \in methods => held[r].throughout = {}
    BY DEF VerifyJWT, Verifying, IndInv, VerifyingInv
  <1>2. CASE /\ t \in JWTs /\ Acceptable(t)
             /\ Accept(r, "oidc", UserID(Claims[t]), ScopeSet(Claims[t]))
    <2>1. /\ Claims[t].valid
          /\ RequiredScopes \subseteq Granted(t)
      BY <1>2, ScopesGranted DEF Acceptable
    <2>2. RequiredGroups \subseteq Claims[t].groups.words
      BY <1>2, StringSetIsIn DEF Acceptable, RequireAll
    <2>3. UserID(Claims[t]) \in {Claims[t].username, Claims[t].subject}
      BY DEF UserID
    <2>4. QED
      BY <1>1, <1>2, <2>1, <2>2, <2>3, AcceptInv
  <1>3. CASE Deny(r)
    BY <1>1, <1>3, DenyInv
  <1>4. QED
    BY <1>2, <1>3 DEF VerifyJWT

-----------------------------------------------------------------------------
(* Rotations and the provider.                                             *)

LEMMA RotateInv ==
    ASSUME IndInv, NEW f \in Files, Rotate(f)
    PROVE  IndInv'
  <1> USE DEF IndInv
  <1>1. /\ UNCHANGED <<config, server, provider, token, status, unread, user, attempts>>
        /\ content' \in [Files -> Secrets \cup {Unreadable}]
    BY DEF Rotate, TypeOK, requests
  <1>2. \A r \in Requests :
           /\ status[r] \in Verifying =>
                 held'[r] = [throughout   |-> held[r].throughout \cap Holders(token[r])',
                             atSomeMoment |-> held[r].atSomeMoment \cup Holders(token[r])']
           /\ status[r] \notin Verifying => held'[r] = held[r]
    BY <1>1 DEF Rotate, Holders, TypeOK, Verifying, Answers
  <1>3. held' \in [Requests -> [throughout : SUBSET Names, atSomeMoment : SUBSET Names]]
    <2>1. held' = [r \in Requests |-> held'[r]]
      BY DEF Rotate
    <2>2. \A r \in Requests : Holders(token[r])' \in SUBSET Names
      BY DEF Holders, Names
    <2>3. QED
      BY <1>2, <2>1, <2>2 DEF HistoryInv
  <1>4. \A r \in Requests :
           /\ held'[r].throughout \subseteq held[r].throughout
           /\ held[r].atSomeMoment \subseteq held'[r].atSomeMoment
    <2> TAKE r \in Requests
    <2>1. CASE status[r] \in Verifying
      <3> DEFINE now == Holders(token[r])'
      <3>1. held'[r] = [throughout   |-> held[r].throughout \cap now,
                        atSomeMoment |-> held[r].atSomeMoment \cup now]
        BY <1>2, <2>1
      <3> HIDE DEF now
      <3>2. /\ held'[r].throughout = held[r].throughout \cap now
            /\ held'[r].atSomeMoment = held[r].atSomeMoment \cup now
        BY <3>1
      <3>3. QED
        BY <3>2
    <2>2. CASE status[r] \notin Verifying
      BY <1>2, <2>2
    <2>3. QED
      BY <2>1, <2>2
  <1>5. TypeOK'
    BY <1>1, <1>4 DEF TypeOK, config
  <1>6. HistoryInv'
    BY <1>1, <1>3, <1>4 DEF HistoryInv, config
  <1>7. VerifyingInv'
    <2> SUFFICES ASSUME NEW r \in Requests, status'[r] \in Verifying
                 PROVE  /\ enabled'
                        /\ Holders(token[r])' \subseteq held'[r].atSomeMoment
                        /\ held'[r].throughout \subseteq Holders(token[r])'
                        /\ status'[r] = "inline" => unread'[r] = Files
                        /\ status'[r] = "files" => held'[r].throughout \subseteq unread'[r]
                        /\ status'[r] = "oidc" => "oidc" \in methods'
                        /\ status'[r] = "oidc" /\ "static" \in methods' => held'[r].throughout = {}
      BY DEF VerifyingInv
    <2>1. /\ Holders(token[r])' \subseteq held'[r].atSomeMoment
          /\ held'[r].throughout \subseteq Holders(token[r])'
      <3> DEFINE now == Holders(token[r])'
      <3>1. held'[r] = [throughout   |-> held[r].throughout \cap now,
                        atSomeMoment |-> held[r].atSomeMoment \cup now]
        BY <1>1, <1>2
      <3> HIDE DEF now
      <3>2. /\ now \subseteq held'[r].atSomeMoment
            /\ held'[r].throughout \subseteq now
        BY <3>1
      <3>3. QED
        BY <3>2 DEF now
    <2>2. QED
      BY <1>1, <1>4, <2>1 DEF VerifyingInv, config
  <1>8. ServedHeldTheToken'
    BY <1>1, <1>4 DEF ServedHeldTheToken, Granted, config
  <1>9. HolderIsNotUnauthorized'
    BY <1>1, <1>4 DEF HolderIsNotUnauthorized, config
  <1>10. QED
    BY <1>5, <1>6, <1>7, <1>8, <1>9

LEMMA ProviderInv == IndInv /\ ProviderChanges => IndInv'
  BY DEF ProviderChanges, IndInv, TypeOK, HistoryInv, VerifyingInv, ServedHeldTheToken, Granted,
         HolderIsNotUnauthorized, Holders, config, requests

-----------------------------------------------------------------------------

(* What the invariants below are consequences of.                          *)
LEMMA Inductive == Spec => []IndInv
  <1>1. IndInv /\ [Next]_vars => IndInv'
    <2> SUFFICES ASSUME IndInv, [Next]_vars PROVE IndInv'
      OBVIOUS
    <2>1. ASSUME NEW r \in Requests, Handler(r) PROVE IndInv'
      BY <2>1, ReceiveUnverifiedInv, ReceiveInv, CompareInlineInv, ReadFileInv,
         NextVerifierInv, VerifyJWTInv DEF Handler
    <2>2. CASE UNCHANGED vars
      BY <2>2 DEF vars, config, world, requests, IndInv, TypeOK, HistoryInv, VerifyingInv,
                  ServedHeldTheToken, Granted, HolderIsNotUnauthorized, Holders
    <2>3. QED
      BY <2>1, <2>2, BuildInv, RotateInv, ProviderInv DEF Next
  <1>2. QED
    BY <1>1, InitInv, PTL DEF Spec

(* Every variable keeps its type.                                          *)
THEOREM TypeCorrect == Spec => []TypeOK
  BY Inductive, PTL DEF IndInv

(* Whoever is served was given the token, or a JWT with everything that is *)
(* required (auth.go:122-142, static.go:44-62, oidc.go:50-86).             *)
THEOREM ServedHeld == Spec => []ServedHeldTheToken
  BY Inductive, PTL DEF IndInv

(* No rotation of other files locks out who held a token all along         *)
(* (static.go:54-62).                                                      *)
THEOREM HolderPasses == Spec => []HolderIsNotUnauthorized
  BY Inductive, PTL DEF IndInv

(* A JWT with all that is required is not turned away while the provider   *)
(* answers: the scopes the middleware finds are those the verifier found   *)
(* (oidc.go:62-71, 80-85, auth.go:56-66).                                  *)
THEOREM GoodJwtPasses == Spec => GoodJwtIsServed
  <1> DEFINE Kept(r) ==
        status[r] = "oidc" /\ status'[r] \in Answers \ {"served"} /\ token[r] \in JWTs =>
            LET claims == Claims[token[r]] IN
            \/ provider # "up"
            \/ ~claims.valid
            \/ ~(RequiredScopes \subseteq Granted(token[r]))
            \/ claims.groups.kind # "list" /\ RequiredGroups # {}
            \/ ~(RequiredGroups \subseteq claims.groups.words)
  <1>1. IndInv /\ [Next]_vars => \A r \in Requests : Kept(r)
    <2> SUFFICES ASSUME IndInv, [Next]_vars, NEW r \in Requests,
                        status[r] = "oidc", status'[r] \in Answers \ {"served"}, token[r] \in JWTs
                 PROVE  Kept(r)
      OBVIOUS
    <2>1. status \in [Requests -> {"new", "inline", "files", "oidc"} \cup Answers]
      BY DEF IndInv, TypeOK
    <2>2. VerifyJWT(r)
      <3>1. ASSUME NEW q \in Requests, Handler(q) PROVE q = r /\ VerifyJWT(r)
        <4>1. \/ UNCHANGED status
              \/ \E a : status' = [status EXCEPT ![q] = a]
          BY <3>1 DEF Handler, ReceiveUnverified, Receive, CompareInline, ReadFile, NextVerifier,
                      VerifyJWT, Accept, Deny, Reply
        <4>2. q = r
          BY <2>1, <4>1 DEF Answers
        <4>3. QED
          BY <3>1, <4>2 DEF Handler, ReceiveUnverified, Receive, CompareInline, ReadFile,
                            NextVerifier
      <3>2. QED
        <4>1. status' # status
          BY <2>1 DEF Answers
        <4>2. \E q \in Requests : Handler(q)
          BY <4>1 DEF Next, Build, Rotate, ProviderChanges, requests, vars
        <4>3. QED
          BY <3>1, <4>2
    <2>3. CASE /\ Acceptable(token[r])
               /\ Accept(r, "oidc", UserID(Claims[token[r]]), ScopeSet(Claims[token[r]]))
      BY <2>1, <2>3 DEF Acceptable, RequireAll, Accept, OptsScopes, Reply
    <2>4. CASE ~(Acceptable(token[r]) /\ provider = "up")
      BY <2>4, ScopesGranted DEF Acceptable, RequireAll, StringSet
    <2>5. QED
      BY <2>2, <2>3, <2>4 DEF VerifyJWT
  <1>2. QED
    BY <1>1, Inductive, PTL DEF Spec, GoodJwtIsServed

-----------------------------------------------------------------------------
(* The counter.                                                            *)

Decided == {r \in Requests : status[r] \in Answers /\ token[r] # NoToken}

DecidedAs(l) == {r \in Decided : Outcome(r) = l}

CountInv ==
    /\ AttemptsAddUp
    /\ \A r \in Requests : status[r] \in Verifying => token[r] # NoToken

LEMMA Added ==
    AttemptsAddUp <=> (enabled => \A l \in Labels : attempts[l] = Cardinality(DecidedAs(l)))
  <1>1. \A l \in Labels :
          DecidedAs(l) = {r \in Requests : /\ status[r] \in Answers
                                          /\ token[r] # NoToken
                                          /\ Outcome(r) = l}
    BY DEF DecidedAs, Decided
  <1>2. QED
    BY <1>1 DEF AttemptsAddUp

(* One request is decided, and counted once, as what it has come to.       *)
LEMMA Counted ==
    ASSUME IndInv, CountInv, IsFiniteSet(Requests), UNCHANGED <<config, token>>,
           NEW r \in Requests, status[r] \in Verifying,
           NEW l \in Labels, attempts' = [attempts EXCEPT ![l] = @ + 1],
           NEW a \in Answers, status' = [status EXCEPT ![r] = a],
           l = Outcome(r)'
    PROVE  CountInv'
  <1>1. status' \in [Requests -> {"new", "inline", "files", "oidc"} \cup Answers]
    BY DEF IndInv, TypeOK, Answers
  <1>2. r \notin Decided /\ Decided' = Decided \cup {r}
    BY <1>1 DEF Decided, CountInv, Verifying, Answers, IndInv, TypeOK
  <1>3. \A q \in Decided : Outcome(q)' = Outcome(q)
    BY <1>2 DEF Outcome, Decided, IndInv, TypeOK
  <1>4. ASSUME NEW m \in Labels, attempts[m] = Cardinality(DecidedAs(m))
        PROVE  attempts'[m] = Cardinality(DecidedAs(m)')
    <2>1. IsFiniteSet(DecidedAs(m)) /\ r \notin DecidedAs(m)
      <3>1. DecidedAs(m) \subseteq Requests
        BY DEF DecidedAs, Decided
      <3>2. QED
        BY <1>2, <3>1, FS_Subset DEF DecidedAs
    <2>2. DecidedAs(m)' = IF m = l THEN DecidedAs(m) \cup {r} ELSE DecidedAs(m)
      BY <1>2, <1>3 DEF DecidedAs
    <2>3. attempts'[m] = IF m = l THEN attempts[m] + 1 ELSE attempts[m]
      BY DEF IndInv, TypeOK
    <2>4. QED
      BY <1>4, <2>1, <2>2, <2>3, FS_AddElement
  <1>5. AttemptsAddUp'
    <2>1. enabled => \A m \in Labels : attempts[m] = Cardinality(DecidedAs(m))
      BY Added DEF CountInv
    <2>2. enabled' => \A m \in Labels : attempts'[m] = Cardinality(DecidedAs(m)')
      BY <1>4, <2>1 DEF config
    <2>3. AttemptsAddUp' <=>
            (enabled' => \A m \in Labels : attempts'[m] = Cardinality(DecidedAs(m)'))
      <3>1. \A m \in Labels :
              DecidedAs(m)' = {q \in Requests : /\ status'[q] \in Answers
                                               /\ token'[q] # NoToken
                                               /\ Outcome(q)' = m}
        BY DEF DecidedAs, Decided
      <3>2. QED
        BY <3>1 DEF AttemptsAddUp
    <2>4. QED
      BY <2>2, <2>3
  <1>6. \A q \in Requests : status'[q] \in Verifying => token'[q] # NoToken
    BY DEF CountInv, Verifying, Answers, IndInv, TypeOK
  <1>7. QED
    BY <1>5, <1>6 DEF CountInv

(* None is.                                                                *)
LEMMA Uncounted ==
    ASSUME CountInv, UNCHANGED <<config, token, attempts>>,
           \A r \in Requests : status'[r] \in Answers /\ token[r] # NoToken
                             <=> status[r] \in Answers /\ token[r] # NoToken,
           \A r \in Requests : status[r] \in Answers /\ token[r] # NoToken
                             => status'[r] = status[r],
           \A r \in Requests : status'[r] \in Verifying => token[r] # NoToken
    PROVE  CountInv'
  <1>1. \A r \in Requests : status[r] \in Answers /\ token[r] # NoToken
                          => Outcome(r)' = Outcome(r)
    BY DEF Outcome
  <1>2. \A l \in Labels :
            {r \in Requests : status'[r] \in Answers /\ token'[r] # NoToken /\ Outcome(r)' = l}
              = {r \in Requests : status[r] \in Answers /\ token[r] # NoToken /\ Outcome(r) = l}
    BY <1>1
  <1>3. AttemptsAddUp'
    BY <1>2 DEF CountInv, AttemptsAddUp, config
  <1>4. QED
    BY <1>3 DEF CountInv

LEMMA CountStep ==
    ASSUME IsFiniteSet(Requests)
    PROVE  IndInv /\ CountInv /\ [Next]_vars => CountInv'
  <1> SUFFICES ASSUME IndInv, CountInv, [Next]_vars PROVE CountInv'
    OBVIOUS
  <1>1. status \in [Requests -> {"new", "inline", "files", "oidc"} \cup Answers]
    BY DEF IndInv, TypeOK
  <1>2. ASSUME NEW r \in Requests, status[r] \in Verifying, NEW method \in {"static", "oidc"},
               NEW who, NEW scopes, Accept(r, method, who, scopes),
               method = "oidc" <=> token[r] \in JWTs
        PROVE  CountInv'
    <2>1. PICK a \in {"served", "403"} : status' = [status EXCEPT ![r] = a]
      BY <1>2 DEF Accept, Reply
    <2>2. /\ UNCHANGED <<config, token>>
          /\ attempts' = [attempts EXCEPT ![<<method, "allow">>] = @ + 1]
      BY <1>2 DEF Accept, RecordAuth
    <2>3. Outcome(r)' = <<method, "allow">>
      BY <1>1, <1>2, <2>1, <2>2 DEF Outcome
    <2>4. QED
      BY <1>2, <2>1, <2>2, <2>3, Counted DEF Labels, Answers
  <1>3. ASSUME NEW r \in Requests, status[r] \in Verifying, Deny(r)
        PROVE  CountInv'
    <2>1. status' = [status EXCEPT ![r] = Refusal] /\ Refusal \in {"401", "500"}
      BY <1>3 DEF Deny, Reply, Refusal
    <2>2. /\ UNCHANGED <<config, token>>
          /\ attempts' = [attempts EXCEPT ![<<"none", "deny">>] = @ + 1]
      BY <1>3 DEF Deny, RecordAuth
    <2>3. Outcome(r)' = <<"none", "deny">>
      BY <1>1, <2>1 DEF Outcome
    <2>4. QED
      BY <1>3, <2>1, <2>2, <2>3, Counted DEF Labels, Answers
  <1>4. ASSUME NEW r \in Requests, status[r] \in Verifying, NEW s \in Verifying,
               status' = [status EXCEPT ![r] = s], UNCHANGED <<config, token, attempts>>
        PROVE  CountInv'
    BY <1>1, <1>4, Uncounted DEF Verifying, Answers, CountInv
  <1>5. ASSUME UNCHANGED <<config, token, attempts, status>>
        PROVE  CountInv'
    BY <1>5, Uncounted DEF CountInv
  <1>6. ASSUME NEW r \in Requests, ReceiveUnverified(r) PROVE CountInv'
    <2>1. CASE ~enabled
      <3>1. \A q \in Requests : status'[q] \in Verifying => token[q] # NoToken
        BY <1>1, <1>6, <2>1 DEF ReceiveUnverified, Reply, CountInv, Verifying
      <3>2. AttemptsAddUp'
        BY <1>6, <2>1 DEF ReceiveUnverified, AttemptsAddUp, config
      <3>3. QED
        BY <1>6, <3>1, <3>2 DEF ReceiveUnverified, CountInv
    <2>2. CASE token[r] = NoToken /\ Reply(r, "401")
      <3>1. UNCHANGED <<config, token, attempts>> /\ status' = [status EXCEPT ![r] = "401"]
        BY <1>6, <2>2 DEF ReceiveUnverified, Reply
      <3>2. QED
        BY <1>1, <2>2, <3>1, Uncounted DEF CountInv, Verifying
    <2>3. QED
      BY <1>6, <2>1, <2>2 DEF ReceiveUnverified
  <1>7. ASSUME NEW r \in Requests, Receive(r) PROVE CountInv'
    <2>1. /\ status[r] = "new" /\ token[r] # NoToken
          /\ status' = [status EXCEPT ![r] = IF "static" \in methods THEN "inline" ELSE "oidc"]
          /\ UNCHANGED <<config, token, attempts>>
      BY <1>7 DEF Receive, Reply
    <2>2. QED
      BY <1>1, <2>1, Uncounted DEF CountInv, Verifying, Answers
  <1>8. ASSUME NEW r \in Requests, CompareInline(r) PROVE CountInv'
    <2>1. CASE \E n \in Inline : InlineToken[n] = token[r] /\ Accept(r, "static", StaticID(n), {})
      <3>1. token[r] \notin JWTs
        BY <2>1, TokensAssumption
      <3>2. QED
        BY <1>2, <1>8, <2>1, <3>1 DEF CompareInline, Verifying
    <2>2. QED
      BY <1>4, <1>8, <2>1 DEF CompareInline, Verifying, Reply
  <1>9. ASSUME NEW r \in Requests, ReadFile(r) PROVE CountInv'
    <2>1. ASSUME NEW f \in unread[r], content[f] = token[r], Accept(r, "static", StaticID(f), {})
          PROVE  CountInv'
      <3>1. token[r] \notin JWTs
        BY <2>1, TokensAssumption DEF IndInv, TypeOK
      <3>2. QED
        BY <1>2, <1>9, <2>1, <3>1 DEF ReadFile, Verifying
    <2>2. QED
      BY <1>5, <1>9, <2>1 DEF ReadFile
  <1>10. ASSUME NEW r \in Requests, NextVerifier(r) PROVE CountInv'
    BY <1>3, <1>4, <1>10 DEF NextVerifier, Verifying, Reply
  <1>11. ASSUME NEW r \in Requests, VerifyJWT(r) PROVE CountInv'
    BY <1>2, <1>3, <1>11 DEF VerifyJWT, Verifying
  <1>12. CASE Build \/ (\E f \in Files : Rotate(f)) \/ ProviderChanges \/ UNCHANGED vars
    BY <1>5, <1>12 DEF Build, Rotate, ProviderChanges, vars, requests
  <1>13. QED
    BY <1>6, <1>7, <1>8, <1>9, <1>10, <1>11, <1>12 DEF Next, Handler

(* Every request that presented a token is counted once when it has been   *)
(* decided, under what was decided (auth.go:122-142), however many there   *)
(* are: each of the three counters is the number of its requests.          *)
THEOREM AttemptsCounted ==
    ASSUME IsFiniteSet(Requests)
    PROVE  Spec => []AttemptsAddUp
  <1>1. Init => CountInv
    <2> SUFFICES ASSUME Init PROVE CountInv
      OBVIOUS
    <2>1. \A l \in Labels : attempts[l] = 0 /\ DecidedAs(l) = {}
      BY DEF Init, DecidedAs, Decided, Answers
    <2>2. AttemptsAddUp
      BY <2>1, Added, FS_EmptySet
    <2>3. QED
      BY <2>2 DEF Init, CountInv, Verifying
  <1>2. IndInv /\ CountInv /\ [Next]_vars => CountInv'
    BY CountStep
  <1>3. CountInv => AttemptsAddUp
    BY DEF CountInv
  <1>4. QED
    BY <1>1, <1>2, <1>3, Inductive, PTL DEF Spec
=============================================================================
