------------------------------ MODULE Listings ------------------------------
(***************************************************************************)
(* apps_list, projects_list and appsets_list                               *)
(* (internal/mcpserver/tools_read.go): one LIST per namespace, one after   *)
(* the other, while objects come, go and change; appsets_list then lists   *)
(* the Applications of every namespace to count those each ApplicationSet  *)
(* owns.  There is one call, and no other can disturb it: it shares no     *)
(* state but the clusters'.                                                *)
(*                                                                         *)
(* An object is its namespace and its name.                                *)
(***************************************************************************)
EXTENDS Naturals, Sequences, FiniteSets

CONSTANTS
    Namespaces,   \* where the instance keeps its objects, in order
    Apps,         \* names of Applications,
    Projects,     \* of AppProjects
    Sets,         \* and of ApplicationSets
    Statuses      \* sync statuses of Applications

Where == {Namespaces[n] : n \in DOMAIN Namespaces}

(* What listNamespaces relies on InstanceConfig.Namespaces for.            *)
ASSUME NamespacesAssumption ==
    /\ Namespaces \in Seq(Where)
    /\ \A m, n \in DOMAIN Namespaces : Namespaces[m] = Namespaces[n] => m = n

ASSUME NamesAssumption ==
    /\ "" \notin Where
    /\ "" \notin Statuses /\ "absent" \notin Statuses
    /\ "nobody" \notin Sets

VARIABLES
    tool,       \* the tool that was called,
    explicit,   \* the namespace it was given, or ""
    filter,     \* and the sync status, or ""
    object,     \* the status of each object of the kind listed, or "absent"
    owner,      \* the ApplicationSet each Application is owned by, or "nobody"
    pass,       \* what the call is doing
    todo,       \* the namespaces it has still to list in this pass
    rows,       \* how often each object is in what it has gathered
    owned,      \* how many Applications it has counted for each set
    unread,     \* the namespaces whose Applications it could not count
    always,     \* history: the objects that were there and matched all along
    ever,       \* history: and those that did at some time
    ownedAlways, ownedEver    \* the same of the ownerships it counts

call     == <<tool, explicit, filter>>
listing  == <<rows, object, always, ever>>
counting == <<owned, unread, owner, ownedAlways, ownedEver>>
vars     == <<call, listing, counting, pass, todo>>

Tools  == {"apps_list", "projects_list", "appsets_list"}
Passes == {"list", "count", "ok", "error"}

Listed ==
    CASE tool = "apps_list"     -> Apps
      [] tool = "projects_list" -> Projects
      [] tool = "appsets_list"  -> Sets

Objects == Where \X Listed

(* Fault: an explicit namespace is searched before the configured ones.     *)
AddsExplicit == IF explicit = "" THEN Namespaces ELSE <<explicit>> \o Namespaces

listNamespaces == IF explicit = "" THEN Namespaces ELSE <<explicit>>

Searched == {listNamespaces[n] : n \in DOMAIN listNamespaces}

matchesFilters(status) == filter \in {"", status}

Matching == {o \in Objects : object[o] # "absent" /\ matchesFilters(object[o])}

Ownerships == {<<o, owner[o]>> : o \in {p \in Where \X Apps : owner[p] # "nobody"}}

-----------------------------------------------------------------------------
(* The call.                                                               *)

(* Fault: a namespace that cannot be listed is passed over.                *)
SkipsUnlisted(ns) ==
    \/ /\ rows' = [o \in Objects |->
            IF o[1] = ns /\ o \in Matching THEN rows[o] + 1 ELSE rows[o]]
       /\ todo' = Tail(todo)
       /\ UNCHANGED pass
    \/ todo' = Tail(todo) /\ UNCHANGED <<rows, pass>>

(* One LIST, of everything at once, or the error that ends the call.       *)
List(ns) ==
    \/ /\ rows' = [o \in Objects |->
            IF o[1] = ns /\ o \in Matching THEN rows[o] + 1 ELSE rows[o]]
       /\ todo' = Tail(todo)
       /\ UNCHANGED pass
    \/ pass' = "error" /\ UNCHANGED <<rows, todo>>

ListNext ==
    /\ pass = "list"
    /\ todo # <<>>
    /\ List(Head(todo))
    /\ UNCHANGED <<call, counting, object, always, ever>>

(* The second pass finds the Applications as they are by then.             *)
ListEnds ==
    /\ pass = "list"
    /\ todo = <<>>
    /\ IF tool = "appsets_list"
       THEN /\ pass' = "count"
            /\ todo' = listNamespaces
            /\ owner' \in [Where \X Apps -> Sets \cup {"nobody"}]
            /\ ownedAlways' = Ownerships'
            /\ ownedEver' = Ownerships'
       ELSE pass' = "ok" /\ UNCHANGED <<todo, owner, ownedAlways, ownedEver>>
    /\ UNCHANGED <<call, listing, owned, unread>>

(* Fault: sets of the same name share their count.                         *)
CountsByName(ns) ==
    owned' = [s \in Where \X Sets |->
        owned[s] + Cardinality({w \in Ownerships : w[1][1] = ns /\ w[2] = s[2]})]

(* The owner is looked for in the Application's own namespace.             *)
Count(ns) ==
    owned' = [s \in Where \X Sets |->
        owned[s] + Cardinality({w \in Ownerships : w[1][1] = ns /\ s = <<ns, w[2]>>})]

CountNext ==
    /\ pass = "count"
    /\ todo # <<>>
    /\ \/ Count(Head(todo)) /\ UNCHANGED unread
       \/ unread' = unread \cup {Head(todo)} /\ UNCHANGED owned
    /\ todo' = Tail(todo)
    /\ UNCHANGED <<call, listing, pass, owner, ownedAlways, ownedEver>>

CountEnds ==
    /\ pass = "count"
    /\ todo = <<>>
    /\ pass' = "ok"
    /\ UNCHANGED <<call, listing, counting, todo>>

ReadTool == ListNext \/ ListEnds \/ CountNext \/ CountEnds

-----------------------------------------------------------------------------
(* Everybody else: controllers and users.                                  *)

Change ==
    /\ pass = "list"
    /\ UNCHANGED <<call, counting, pass, todo, rows>>
    /\ \E o \in Objects, s \in Statuses \cup {"absent"} : object' = [object EXCEPT ![o] = s]
    /\ always' = always \cap Matching'
    /\ ever' = ever \cup Matching'

Adopt ==
    /\ pass = "count"
    /\ \E a \in Where \X Apps, s \in Sets \cup {"nobody"} : owner' = [owner EXCEPT ![a] = s]
    /\ ownedAlways' = ownedAlways \cap Ownerships'
    /\ ownedEver' = ownedEver \cup Ownerships'
    /\ UNCHANGED <<call, listing, pass, todo, owned, unread>>

-----------------------------------------------------------------------------

Init ==
    /\ tool \in Tools
    /\ explicit \in {""} \cup Where
    /\ filter \in IF tool = "apps_list" THEN {""} \cup Statuses ELSE {""}
    /\ object \in [Objects -> Statuses \cup {"absent"}]
    /\ owner = [a \in Where \X Apps |-> "nobody"]
    /\ pass = "list"
    /\ todo = listNamespaces
    /\ rows = [o \in Objects |-> 0]
    /\ owned = [s \in Where \X Sets |-> 0]
    /\ unread = {}
    /\ always = Matching
    /\ ever = Matching
    /\ ownedAlways = {}
    /\ ownedEver = {}

Next == ReadTool \/ Change \/ Adopt

Spec == Init /\ [][Next]_vars

-----------------------------------------------------------------------------
(* Properties.                                                             *)

(* Every variable has the type its comment gives it.                       *)
TypeOK ==
    /\ tool \in Tools
    /\ explicit \in {""} \cup Where
    /\ filter \in {""} \cup Statuses
    /\ object \in [Objects -> Statuses \cup {"absent"}]
    /\ owner \in [Where \X Apps -> Sets \cup {"nobody"}]
    /\ pass \in Passes
    /\ \E k \in 0..Len(listNamespaces) :
        todo = SubSeq(listNamespaces, k + 1, Len(listNamespaces))
    /\ rows \in [Objects -> 0..1]
    /\ owned \in [Where \X Sets -> Nat]
    /\ unread \subseteq Searched

In(namespaces, objects) == {o \in objects : o[1] \in namespaces}

(* An answer of the listing tools, put together from LISTs of different    *)
(* moments, leaves nothing out that was there and matched all along in a   *)
(* namespace it searched, shows nothing that never was or did not match    *)
(* while it looked, and nothing twice.  What it could not read it does not *)
(* pass over in silence.                                                   *)
ListingIsComplete ==
    pass \in {"count", "ok"} =>
        LET shown == {o \in Objects : rows[o] > 0}
        IN  /\ In(Searched, always) \subseteq shown
            /\ shown \subseteq In(Searched, ever)
            /\ \A o \in shown : rows[o] = 1

(* The number of Applications appsets_list gives for a set lies between    *)
(* those it owned all through the count and those it owned at some time in *)
(* it, whatever sets of the same name other namespaces have; only where a  *)
(* namespace could not be read may it fall short.                          *)
OwnedIsBracketed ==
    pass = "ok" /\ tool = "appsets_list" =>
        \A s \in Searched \X Sets :
            LET By(w) == <<w[1][1], w[2]>> = s
            IN  /\ owned[s] <= Cardinality({w \in ownedEver : By(w)})
                /\ s[1] \in unread \/ Cardinality({w \in ownedAlways : By(w)}) <= owned[s]
=============================================================================
