------------------------------ MODULE Lifecycle -----------------------------
(***************************************************************************)
(* The life of the process after startup, the end of run in main.go: two   *)
(* HTTP servers, each in a goroutine of its own, a signal, and a shutdown  *)
(* that first drains the metrics server and then the MCP server, within    *)
(* one deadline.  A tool call may take longer than that (app_wait polls    *)
(* for up to fifteen minutes), and a streaming client never goes by itself.*)
(***************************************************************************)

CONSTANTS
    Calls,     \* requests to the MCP server
    Scrapes    \* requests to the metrics server

ASSUME RequestsAssumption == Calls \cap Scrapes = {}

VARIABLES
    main,       \* where run is
    listener,   \* what became of each server's ListenAndServe
    errCh,      \* the MCP server's ListenAndServe has failed
    signalled,  \* SIGINT or SIGTERM has arrived
    graceOver,  \* shutdownCtx has expired
    request     \* each request: not made, open, ended, or cut off by the exit

vars == <<main, listener, errCh, signalled, graceOver, request>>

Servers  == {"mcp", "metrics"}
Requests == Calls \cup Scrapes
Draining == {"poll metrics", "wait metrics", "poll mcp", "wait mcp"}
Exits    == {"exit 0", "exit 1"}

Server(r) == IF r \in Calls THEN "mcp" ELSE "metrics"

Alive == main \notin Exits

Idle(s) == \A r \in Requests : request[r] = "open" => Server(r) # s

Close(s) ==
    listener' = [listener EXCEPT ![s] = IF @ \in {"starting", "open"} THEN "closed" ELSE @]

-----------------------------------------------------------------------------
(* run.                                                                    *)

Exit(code) ==
    /\ main' = code
    /\ request' = [r \in Requests |-> IF request[r] = "open" THEN "cut" ELSE request[r]]

Receive ==
    /\ main = "serving"
    /\ errCh
    /\ Exit("exit 1")
    /\ UNCHANGED <<listener, errCh, signalled, graceOver>>

(* Fault: the metrics server is shut down although there may be none.      *)
ShutsNil ==
    /\ main = "serving"
    /\ signalled
    /\ main' = "poll metrics"
    /\ Close("metrics")
    /\ UNCHANGED <<errCh, signalled, graceOver, request>>

Shutdown ==
    /\ main = "serving"
    /\ signalled
    /\ LET s == IF listener["metrics"] = "off" THEN "mcp" ELSE "metrics"
       IN  main' = (IF s = "mcp" THEN "poll mcp" ELSE "poll metrics") /\ Close(s)
    /\ UNCHANGED <<errCh, signalled, graceOver, request>>

(* Fault: the error of Shutdown is not run's.                              *)
ReturnsNil(s, code) ==
    /\ IF s = "metrics"
       THEN main' = "poll mcp" /\ Close("mcp") /\ UNCHANGED request
       ELSE Exit("exit 0") /\ UNCHANGED listener
    /\ UNCHANGED <<errCh, signalled, graceOver>>

(* What becomes of the metrics server's Shutdown is not looked at.         *)
Return(s, code) ==
    /\ IF s = "metrics"
       THEN main' = "poll mcp" /\ Close("mcp") /\ UNCHANGED request
       ELSE Exit(code) /\ UNCHANGED listener
    /\ UNCHANGED <<errCh, signalled, graceOver>>

(* http.Server.Shutdown looks for idleness, and then, between two looks,   *)
(* at the context.                                                         *)
Look(s, poll, wait) ==
    /\ main = poll
    /\ \/ Idle(s) /\ Return(s, "exit 0")
       \/ /\ ~Idle(s)
          /\ main' = wait
          /\ UNCHANGED <<listener, errCh, signalled, graceOver, request>>

LookAgain(poll, wait) ==
    /\ main = wait
    /\ ~graceOver
    /\ main' = poll
    /\ UNCHANGED <<listener, errCh, signalled, graceOver, request>>

(* Fault: scrapes are waited for as long as they take.                     *)
OnlyMcpGivesUp(s, wait) ==
    /\ main = wait
    /\ s = "mcp"
    /\ graceOver
    /\ Return(s, "exit 1")

GiveUp(s, wait) ==
    /\ main = wait
    /\ graceOver
    /\ Return(s, "exit 1")

Drain(s, poll, wait) ==
    Look(s, poll, wait) \/ LookAgain(poll, wait) \/ GiveUp(s, wait)

Run ==
    \/ Receive
    \/ Shutdown
    \/ Drain("metrics", "poll metrics", "wait metrics")
    \/ Drain("mcp", "poll mcp", "wait mcp")

-----------------------------------------------------------------------------
(* The servers' goroutines.                                                *)

Listen(s) ==
    /\ Alive
    /\ listener[s] = "starting"
    /\ listener' = [listener EXCEPT ![s] = "open"]
    /\ UNCHANGED <<main, errCh, signalled, graceOver, request>>

(* The address cannot be bound, or accepting fails later.  Of the metrics  *)
(* server that is only logged.                                             *)
Fail(s) ==
    /\ Alive
    /\ listener[s] \in {"starting", "open"}
    /\ listener' = [listener EXCEPT ![s] = "failed"]
    /\ errCh' = (errCh \/ s = "mcp")
    /\ UNCHANGED <<main, signalled, graceOver, request>>

-----------------------------------------------------------------------------
(* The world.                                                              *)

Signal ==
    /\ Alive
    /\ signalled' = TRUE
    /\ UNCHANGED <<main, listener, errCh, graceOver, request>>

(* Ten seconds after shutdownCtx was made.                                 *)
Expire ==
    /\ main \in Draining
    /\ graceOver' = TRUE
    /\ UNCHANGED <<main, listener, errCh, signalled, request>>

Request(r) ==
    /\ Alive
    /\ request[r] = "none"
    /\ listener[Server(r)] = "open"
    /\ request' = [request EXCEPT ![r] = "open"]
    /\ UNCHANGED <<main, listener, errCh, signalled, graceOver>>

End(r) ==
    /\ Alive
    /\ request[r] = "open"
    /\ request' = [request EXCEPT ![r] = "ended"]
    /\ UNCHANGED <<main, listener, errCh, signalled, graceOver>>

-----------------------------------------------------------------------------

Init ==
    /\ main = "serving"
    /\ listener \in [Servers -> {"starting", "off"}]
    /\ listener["mcp"] = "starting"
    /\ errCh = FALSE
    /\ signalled = FALSE
    /\ graceOver = FALSE
    /\ request = [r \in Requests |-> "none"]

Next ==
    \/ Run
    \/ \E s \in Servers : Listen(s) \/ Fail(s)
    \/ Signal
    \/ Expire
    \/ \E r \in Requests : Request(r) \/ End(r)

Spec == Init /\ [][Next]_vars

(* run goes on when it can, and time passes.  Nothing is assumed of the    *)
(* listeners, nor that a request ever ends.                                *)
FairSpec == Spec /\ WF_vars(Run) /\ WF_vars(Expire)

-----------------------------------------------------------------------------
(* Properties.                                                             *)

(* Every variable has the type its comment gives it, and a server that is  *)
(* being drained is one there is, and takes no more requests.              *)
TypeOK ==
    /\ main \in {"serving"} \cup Draining \cup Exits
    /\ listener \in [Servers -> {"off", "starting", "open", "closed", "failed"}]
    /\ listener["mcp"] # "off"
    /\ {errCh, signalled, graceOver} \subseteq BOOLEAN
    /\ request \in [Requests -> {"none", "open", "ended", "cut"}]
    /\ main \in {"poll metrics", "wait metrics"} => listener["metrics"] \in {"closed", "failed"}
    /\ main \in {"poll mcp", "wait mcp"} => listener["mcp"] \in {"closed", "failed"}

(* The exit code says what happened: 0 is an asked-for end that cut no     *)
(* tool call off; 1 is an MCP server that could not listen, or a grace     *)
(* period that was used up by an asked-for end.  A metrics server that     *)
(* cannot listen ends nothing.                                             *)
ExitTellsWhy ==
    /\ main = "exit 0" => signalled /\ \A c \in Calls : request[c] # "cut"
    /\ main = "exit 1" => listener["mcp"] = "failed" \/ (signalled /\ graceOver)
    /\ \A c \in Calls : request[c] = "cut" => main = "exit 1"

(* The process ends when it is told to and when it cannot serve, whatever  *)
(* requests are open on either server, and however long they would take.   *)
EndsWhenItMust ==
    signalled \/ listener["mcp"] = "failed" ~> main \in Exits
=============================================================================
