--------------------------- MODULE ListingsProofs ---------------------------
(***************************************************************************)
(* That the listing tools leave nothing out and show nothing twice, for    *)
(* any number of namespaces and objects.                                   *)
(***************************************************************************)
EXTENDS Listings, FiniteSetTheorems, SequenceTheorems, TLAPS

Elements(s)  == {s[n] : n \in DOMAIN s}
Distinct(s)  == \A m, n \in DOMAIN s : s[m] = s[n] => m = n

(* The namespaces still to be listed are distinct, and among those         *)
(* searched.                                                               *)
TodoInv ==
    /\ explicit \in {""} \cup Where
    /\ pass = "list" =>
        /\ todo \in Seq(Where)
        /\ Distinct(todo)
        /\ Elements(todo) \subseteq Searched

HistoryInv == always \subseteq Matching /\ Matching \subseteq ever

(* What ListingIsComplete says of the whole answer is true of the          *)
(* namespaces that have been listed; the others have no rows.              *)
RowsInv ==
    /\ rows \in [Objects -> {0, 1}]
    /\ pass = "list" =>
        \A o \in Objects :
            /\ o[1] \in Elements(todo) => rows[o] = 0
            /\ o[1] \in Searched \ Elements(todo) /\ o \in always => rows[o] = 1
            /\ rows[o] = 1 => o[1] \in Searched /\ o \in ever

IndInv == TodoInv /\ HistoryInv /\ RowsInv /\ ListingIsComplete

-----------------------------------------------------------------------------

(* The rest of a sequence of distinct elements has all of them but the     *)
(* first.                                                                  *)
LEMMA TailOfDistinct ==
    ASSUME NEW S, NEW s \in Seq(S), s # <<>>, Distinct(s)
    PROVE  /\ Head(s) \in Elements(s)
           /\ Tail(s) \in Seq(S)
           /\ Distinct(Tail(s))
           /\ Elements(Tail(s)) = Elements(s) \ {Head(s)}
  <1>1. /\ Len(s) \in Nat \ {0}
        /\ DOMAIN s = 1..Len(s)
        /\ Head(s) = s[1]
        /\ Tail(s) \in Seq(S)
        /\ DOMAIN Tail(s) = 1..(Len(s) - 1)
        /\ \A n \in 1..(Len(s) - 1) : Tail(s)[n] = s[n + 1]
    OBVIOUS
  <1>2. Distinct(Tail(s))
    BY <1>1 DEF Distinct
  <1>3. ASSUME NEW x \in Elements(Tail(s)) PROVE x \in Elements(s) /\ x # Head(s)
    BY <1>1, <1>3 DEF Elements, Distinct
  <1>4. ASSUME NEW x \in Elements(s), x # Head(s) PROVE x \in Elements(Tail(s))
    <2>1. PICK n \in 2..Len(s) : x = s[n]
      BY <1>1, <1>4 DEF Elements
    <2>2. n - 1 \in DOMAIN Tail(s) /\ Tail(s)[n - 1] = x
      BY <1>1, <2>1
    <2>3. QED
      BY <2>2 DEF Elements
  <1>5. Head(s) \in Elements(s)
    BY <1>1 DEF Elements
  <1>6. QED
    BY <1>1, <1>2, <1>3, <1>4, <1>5

LEMMA OneIsDistinct ==
    ASSUME NEW S, NEW x \in S
    PROVE  <<x>> \in Seq(S) /\ Distinct(<<x>>)
  <1>1. <<x>> \in Seq(S)
    OBVIOUS
  <1>2. Len(<<x>>) = 1 /\ DOMAIN <<x>> = 1..Len(<<x>>)
    OBVIOUS
  <1>3. QED
    BY <1>1, <1>2 DEF Distinct

(* No namespace is searched twice (InstanceConfig.Namespaces).             *)
LEMMA ListNamespaces ==
    ASSUME explicit \in {""} \cup Where
    PROVE  /\ listNamespaces \in Seq(Where)
           /\ Distinct(listNamespaces)
           /\ Elements(listNamespaces) = Searched
  <1>1. Elements(listNamespaces) = Searched
    BY DEF Elements, Searched
  <1>2. CASE explicit = ""
    BY <1>1, <1>2, NamespacesAssumption DEF listNamespaces, Distinct
  <1>3. CASE explicit # ""
    <2>1. listNamespaces = <<explicit>> /\ explicit \in Where
      BY <1>3 DEF listNamespaces
    <2>2. <<explicit>> \in Seq(Where) /\ Distinct(<<explicit>>)
      BY <2>1, OneIsDistinct
    <2>3. QED
      BY <1>1, <2>1, <2>2
  <1>4. QED
    BY <1>2, <1>3

-----------------------------------------------------------------------------

LEMMA InitInv == Init => IndInv
  <1> SUFFICES ASSUME Init PROVE IndInv
    OBVIOUS
  <1>1. TodoInv
    BY ListNamespaces DEF Init, TodoInv
  <1>2. HistoryInv
    BY DEF Init, HistoryInv
  <1>3. RowsInv
    <2>1. Elements(todo) = Searched
      BY DEF Init, Elements, Searched
    <2>2. \A o \in Objects : rows[o] = 0
      BY DEF Init
    <2>3. rows \in [Objects -> {0, 1}]
      BY DEF Init
    <2>4. QED
      BY <2>1, <2>2, <2>3 DEF RowsInv
  <1>4. ListingIsComplete
    BY DEF Init, ListingIsComplete
  <1>5. QED
    BY <1>1, <1>2, <1>3, <1>4 DEF IndInv

LEMMA ListNextInv == IndInv /\ ListNext => IndInv'
  <1> SUFFICES ASSUME IndInv, ListNext PROVE IndInv'
    OBVIOUS
  <1> DEFINE ns == Head(todo)
  <1>1. /\ pass = "list"
        /\ todo # <<>>
        /\ UNCHANGED <<call, object, always, ever>>
        /\ Objects' = Objects /\ Searched' = Searched /\ Matching' = Matching
    BY DEF ListNext, call, Objects, Listed, Searched, listNamespaces, Matching, matchesFilters
  <1>2. /\ ns \in Elements(todo)
        /\ Tail(todo) \in Seq(Where)
        /\ Distinct(Tail(todo))
        /\ Elements(Tail(todo)) = Elements(todo) \ {ns}
    BY <1>1, TailOfDistinct DEF IndInv, TodoInv
  <1>3. HistoryInv'
    BY <1>1 DEF IndInv, HistoryInv
  <1>4. CASE /\ rows' = [o \in Objects |->
                  IF o[1] = ns /\ o \in Matching THEN rows[o] + 1 ELSE rows[o]]
             /\ todo' = Tail(todo)
             /\ UNCHANGED pass
    <2>1. TodoInv'
      BY <1>1, <1>2, <1>4 DEF IndInv, TodoInv, call
    <2>2. \A o \in Objects : o[1] = ns => rows[o] = 0
      BY <1>1, <1>2 DEF IndInv, RowsInv
    <2>3. \A o \in Objects :
              rows'[o] = IF o[1] = ns THEN (IF o \in Matching THEN 1 ELSE 0) ELSE rows[o]
      BY <1>4, <2>2
    <2>4. rows' \in [Objects -> {0, 1}]
      BY <1>4, <2>3 DEF IndInv, RowsInv
    <2>5. ns \in Searched
      BY <1>1, <1>2 DEF IndInv, TodoInv
    <2>6. ASSUME NEW o \in Objects
          PROVE  /\ o[1] \in Elements(todo') => rows'[o] = 0
                 /\ o[1] \in Searched \ Elements(todo') /\ o \in always => rows'[o] = 1
                 /\ rows'[o] = 1 => o[1] \in Searched /\ o \in ever
      BY <1>1, <1>2, <1>4, <2>3, <2>5 DEF IndInv, RowsInv, HistoryInv
    <2>7. RowsInv'
      BY <1>1, <2>4, <2>6 DEF RowsInv
    <2>8. QED
      BY <1>1, <1>3, <1>4, <2>1, <2>7 DEF IndInv, ListingIsComplete
  <1>5. CASE pass' = "error" /\ UNCHANGED <<rows, todo>>
    BY <1>1, <1>3, <1>5 DEF IndInv, TodoInv, RowsInv, ListingIsComplete, call
  <1>6. QED
    BY <1>4, <1>5 DEF ListNext, List

LEMMA ListEndsInv == IndInv /\ ListEnds => IndInv'
  <1> SUFFICES ASSUME IndInv, ListEnds PROVE IndInv'
    OBVIOUS
  <1>1. /\ pass = "list"
        /\ todo = <<>>
        /\ pass' \in {"count", "ok"}
        /\ UNCHANGED <<call, rows, object, always, ever>>
        /\ Objects' = Objects /\ Searched' = Searched /\ Matching' = Matching
    BY DEF ListEnds, call, listing, Objects, Listed, Searched, listNamespaces, Matching, matchesFilters
  <1>2. Elements(todo) = {}
    BY <1>1 DEF Elements
  <1>3. /\ In(Searched, always) \subseteq {o \in Objects : rows[o] > 0}
        /\ {o \in Objects : rows[o] > 0} \subseteq In(Searched, ever)
        /\ \A o \in Objects : rows[o] > 0 => rows[o] = 1
    BY <1>1, <1>2 DEF IndInv, RowsInv, HistoryInv, Matching, In
  <1>4. ListingIsComplete'
    BY <1>1, <1>3 DEF ListingIsComplete, In
  <1>5. QED
    BY <1>1, <1>4 DEF IndInv, TodoInv, HistoryInv, RowsInv, call

(* Nothing that is listed changes once the listing is done.                *)
LEMMA CountInv ==
    ASSUME IndInv, pass \in {"count", "ok"}, pass' \in {"count", "ok"},
           UNCHANGED <<call, listing>>
    PROVE  IndInv'
  <1>1. Objects' = Objects /\ Searched' = Searched /\ Matching' = Matching
    BY DEF call, listing, Objects, Listed, Searched, listNamespaces, Matching, matchesFilters
  <1>2. QED
    BY <1>1 DEF IndInv, TodoInv, HistoryInv, RowsInv, ListingIsComplete, In, call, listing

LEMMA ChangeInv == IndInv /\ Change => IndInv'
  <1> SUFFICES ASSUME IndInv, Change PROVE IndInv'
    OBVIOUS
  <1>1. /\ pass = "list"
        /\ UNCHANGED <<call, pass, todo, rows>>
        /\ always' = always \cap Matching'
        /\ ever' = ever \cup Matching'
        /\ Objects' = Objects /\ Searched' = Searched
    BY DEF Change, call, Objects, Listed, Searched, listNamespaces
  <1>2. QED
    BY <1>1 DEF IndInv, TodoInv, HistoryInv, RowsInv, ListingIsComplete, call

-----------------------------------------------------------------------------

(* What the theorem is a consequence of.                                   *)
LEMMA Inductive == Spec => []IndInv
  <1>1. IndInv /\ [Next]_vars => IndInv'
    <2> SUFFICES ASSUME IndInv, [Next]_vars PROVE IndInv'
      OBVIOUS
    <2>1. CASE CountNext \/ CountEnds \/ Adopt
      <3>1. pass = "count" /\ pass' \in {"count", "ok"} /\ UNCHANGED <<call, listing>>
        BY <2>1 DEF CountNext, CountEnds, Adopt
      <3>2. QED
        BY <3>1, CountInv
    <2>2. CASE UNCHANGED vars
      <3>1. /\ UNCHANGED <<call, listing, pass, todo>>
            /\ Objects' = Objects /\ Searched' = Searched /\ Matching' = Matching
        BY <2>2 DEF vars, call, listing, Objects, Listed, Searched, listNamespaces, Matching, matchesFilters
      <3>2. QED
        BY <3>1 DEF IndInv, TodoInv, HistoryInv, RowsInv, ListingIsComplete, In, call, listing
    <2>3. QED
      BY <2>1, <2>2, ListNextInv, ListEndsInv, ChangeInv DEF Next, ReadTool
  <1>2. QED
    BY <1>1, InitInv, PTL DEF Spec

(* An answer is complete, and has nothing twice (tools_read.go:78-129,     *)
(* 191-225).                                                               *)
THEOREM ListingsComplete == Spec => []ListingIsComplete
  BY Inductive, PTL DEF IndInv

-----------------------------------------------------------------------------
(* The counts of appsets_list.                                             *)

Of(s, ownerships) == {w \in ownerships : <<w[1][1], w[2]>> = s}

Bracketed(s) ==
    /\ owned[s] <= Cardinality(Of(s, ownedEver))
    /\ s[1] \in unread \/ Cardinality(Of(s, ownedAlways)) <= owned[s]

(* The sets of the namespaces still to be read have counts of zero, those  *)
(* of the others are bracketed.                                            *)
OwnedInv ==
    /\ owned \in [Where \X Sets -> Nat]
    /\ owner \in [Where \X Apps -> Sets \cup {"nobody"}]
    /\ ownedEver \subseteq (Where \X Apps) \X Sets
    /\ pass = "list" => \A s \in Where \X Sets : owned[s] = 0
    /\ pass = "count" =>
        /\ todo \in Seq(Where)
        /\ Distinct(todo)
        /\ ownedAlways \subseteq Ownerships
        /\ Ownerships \subseteq ownedEver
        /\ \A s \in Where \X Sets : s[1] \in Elements(todo) => owned[s] = 0
        /\ \A s \in Searched \X Sets : s[1] \notin Elements(todo) => Bracketed(s)
    /\ pass = "ok" /\ tool = "appsets_list" => \A s \in Searched \X Sets : Bracketed(s)

LEMMA SearchedWhere == TodoInv => Searched \subseteq Where
<1> SUFFICES ASSUME TodoInv PROVE Searched \subseteq Where
  OBVIOUS
<1>1. listNamespaces \in Seq(Where) /\ Searched = Elements(listNamespaces)
  BY ListNamespaces DEF TodoInv
<1> QED
  BY <1>1 DEF Elements

LEMMA OwnershipsType ==
    ASSUME owner \in [Where \X Apps -> Sets \cup {"nobody"}]
    PROVE  Ownerships \subseteq (Where \X Apps) \X Sets
  BY DEF Ownerships

LEMMA OwnershipsFinite ==
    ASSUME IsFiniteSet((Where \X Apps) \X Sets), NEW W \in SUBSET ((Where \X Apps) \X Sets),
           NEW V \in SUBSET W, NEW s
    PROVE  /\ Cardinality(Of(s, W)) \in Nat
           /\ Cardinality(Of(s, V)) \in Nat
           /\ Cardinality(Of(s, V)) <= Cardinality(Of(s, W))
<1>1. IsFiniteSet(Of(s, W)) /\ Of(s, V) \in SUBSET Of(s, W)
  BY FS_Subset DEF Of
<1> QED
  BY <1>1, FS_Subset, FS_CardinalityType

LEMMA OwnedListEnds == IndInv /\ OwnedInv /\ ListEnds => OwnedInv'
<1> SUFFICES ASSUME IndInv, OwnedInv, ListEnds PROVE OwnedInv'
  OBVIOUS
<1>1. /\ pass = "list" /\ UNCHANGED <<call, owned, unread>>
      /\ Searched' = Searched /\ listNamespaces' = listNamespaces
  BY DEF ListEnds, call, Searched, listNamespaces
<1>2. CASE tool = "appsets_list"
  <2>1. /\ pass' = "count" /\ todo' = listNamespaces
        /\ owner' \in [Where \X Apps -> Sets \cup {"nobody"}]
        /\ ownedAlways' = Ownerships' /\ ownedEver' = Ownerships'
    BY <1>2 DEF ListEnds
  <2>2. Ownerships' \subseteq (Where \X Apps) \X Sets
    BY <2>1 DEF Ownerships
  <2>3. /\ listNamespaces \in Seq(Where) /\ Distinct(listNamespaces)
        /\ Elements(listNamespaces) = Searched
    BY ListNamespaces DEF IndInv, TodoInv
  <2> QED
    BY <1>1, <2>1, <2>2, <2>3 DEF OwnedInv
<1>3. CASE tool # "appsets_list"
  BY <1>1, <1>3 DEF ListEnds, OwnedInv, call
<1> QED
  BY <1>2, <1>3

LEMMA OwnedCountNext ==
    ASSUME IsFiniteSet((Where \X Apps) \X Sets)
    PROVE  IndInv /\ OwnedInv /\ CountNext => OwnedInv'
<1> SUFFICES ASSUME IndInv, OwnedInv, CountNext PROVE OwnedInv'
  OBVIOUS
<1> DEFINE ns == Head(todo)
<1>1. /\ pass = "count" /\ todo # <<>> /\ todo' = Tail(todo)
      /\ UNCHANGED <<call, pass, owner, ownedAlways, ownedEver>>
      /\ Searched' = Searched /\ Ownerships' = Ownerships
  BY DEF CountNext, call, Searched, listNamespaces, Ownerships
<1>2. /\ ns \in Elements(todo)
      /\ Tail(todo) \in Seq(Where)
      /\ Distinct(Tail(todo))
      /\ Elements(Tail(todo)) = Elements(todo) \ {ns}
  BY <1>1, TailOfDistinct DEF OwnedInv
<1>3. Searched \subseteq Where
  BY SearchedWhere DEF IndInv
<1>4. \A s : /\ Cardinality(Of(s, Ownerships)) \in Nat
             /\ Cardinality(Of(s, Ownerships)) <= Cardinality(Of(s, ownedEver))
             /\ Cardinality(Of(s, ownedAlways)) \in Nat
             /\ Cardinality(Of(s, ownedEver)) \in Nat
             /\ Cardinality(Of(s, ownedAlways)) <= Cardinality(Of(s, Ownerships))
  BY <1>1, OwnershipsType, OwnershipsFinite DEF OwnedInv
<1>5. SUFFICES
        /\ owned' \in [Where \X Sets -> Nat]
        /\ \A s \in Where \X Sets : s[1] # ns => owned'[s] = owned[s]
        /\ \A s \in Searched \X Sets : s[1] = ns => Bracketed(s)'
        /\ unread \subseteq unread'
  <2>1. \A s \in Where \X Sets : s[1] \in Elements(todo') => owned'[s] = 0
    BY <1>1, <1>2, <1>5 DEF OwnedInv
  <2>2. ASSUME NEW s \in Searched \X Sets, s[1] \notin Elements(todo') PROVE Bracketed(s)'
    <3>1. CASE s[1] = ns
      BY <1>5, <3>1
    <3>2. CASE s[1] # ns
      <4>1. s \in Where \X Sets /\ Bracketed(s)
        BY <1>1, <1>2, <1>3, <2>2, <3>2 DEF OwnedInv
      <4> QED
        BY <1>1, <1>5, <3>2, <4>1 DEF Bracketed
    <3> QED
      BY <3>1, <3>2
  <2> QED
    BY <1>1, <1>2, <1>5, <2>1, <2>2 DEF OwnedInv
<1>6. CASE Count(ns) /\ UNCHANGED unread
  <2>1. \A s \in Where \X Sets :
            owned'[s] = owned[s] + Cardinality({w \in Ownerships : w[1][1] = ns /\ s = <<ns, w[2]>>})
    BY <1>6 DEF Count
  <2>2. ASSUME NEW s \in Where \X Sets, s[1] # ns PROVE owned'[s] = owned[s]
    <3>1. {w \in Ownerships : w[1][1] = ns /\ s = <<ns, w[2]>>} = {}
      BY <2>2
    <3> QED
      BY <2>1, <3>1, FS_EmptySet DEF OwnedInv
  <2>3. ASSUME NEW s \in Where \X Sets, s[1] = ns
        PROVE  owned'[s] = Cardinality(Of(s, Ownerships))
    <3>1. {w \in Ownerships : w[1][1] = ns /\ s = <<ns, w[2]>>} = Of(s, Ownerships)
      BY <2>3 DEF Of
    <3>2. owned[s] = 0
      BY <1>1, <1>2, <2>3 DEF OwnedInv
    <3> QED
      BY <1>4, <2>1, <3>1, <3>2
  <2>4. \A s \in Where \X Sets : owned'[s] \in Nat
    BY <1>4, <2>2, <2>3 DEF OwnedInv
  <2>5. owned' \in [Where \X Sets -> Nat]
    <3>1. DOMAIN owned' = Where \X Sets
      BY <1>6 DEF Count
    <3>2. owned' = [s \in Where \X Sets |-> owned'[s]]
      BY <1>6 DEF Count
    <3> QED
      BY <2>4, <3>2
  <2>6. ASSUME NEW s \in Searched \X Sets, s[1] = ns PROVE Bracketed(s)'
    <3>1. owned'[s] = Cardinality(Of(s, Ownerships))
      BY <1>3, <2>3, <2>6
    <3> QED
      BY <1>1, <1>4, <3>1 DEF Bracketed
  <2> QED
    BY <1>6, <2>2, <2>5, <2>6
<1>7. CASE unread' = unread \cup {ns} /\ UNCHANGED owned
  <2>1. ASSUME NEW s \in Searched \X Sets, s[1] = ns PROVE Bracketed(s)'
    <3>1. owned'[s] = 0
      BY <1>1, <1>2, <1>3, <1>7, <2>1 DEF OwnedInv
    <3> QED
      BY <1>1, <1>4, <1>7, <2>1, <3>1 DEF Bracketed
  <2> QED
    BY <1>7, <2>1 DEF OwnedInv
<1> QED
  BY <1>6, <1>7 DEF CountNext

LEMMA OwnedAdopt ==
    ASSUME IsFiniteSet((Where \X Apps) \X Sets)
    PROVE  IndInv /\ OwnedInv /\ Adopt => OwnedInv'
<1> SUFFICES ASSUME IndInv, OwnedInv, Adopt PROVE OwnedInv'
  OBVIOUS
<1>1. /\ pass = "count" /\ UNCHANGED <<call, pass, todo, owned, unread>>
      /\ ownedAlways' = ownedAlways \cap Ownerships'
      /\ ownedEver' = ownedEver \cup Ownerships'
      /\ Searched' = Searched
  BY DEF Adopt, call, Searched, listNamespaces
<1>2. owner' \in [Where \X Apps -> Sets \cup {"nobody"}]
  BY DEF Adopt, OwnedInv
<1>3. Ownerships' \subseteq (Where \X Apps) \X Sets
  BY <1>2 DEF Ownerships
<1>4. ownedEver' \in SUBSET ((Where \X Apps) \X Sets) /\ ownedAlways \in SUBSET ownedEver
  BY <1>1, <1>3 DEF OwnedInv
<1>5. Searched \subseteq Where
  BY SearchedWhere DEF IndInv
<1>6. ASSUME NEW s \in Searched \X Sets, Bracketed(s) PROVE Bracketed(s)'
  <2>1. /\ Cardinality(Of(s, ownedEver)) <= Cardinality(Of(s, ownedEver'))
        /\ Cardinality(Of(s, ownedEver)) \in Nat /\ Cardinality(Of(s, ownedEver')) \in Nat
    BY <1>1, <1>4, OwnershipsFinite
  <2>2. /\ Cardinality(Of(s, ownedAlways')) <= Cardinality(Of(s, ownedAlways))
        /\ Cardinality(Of(s, ownedAlways)) \in Nat /\ Cardinality(Of(s, ownedAlways')) \in Nat
    <3>1. ownedAlways \in SUBSET ((Where \X Apps) \X Sets) /\ ownedAlways' \in SUBSET ownedAlways
      BY <1>1, <1>4 DEF OwnedInv
    <3> QED
      BY <3>1, OwnershipsFinite
  <2>3. owned[s] \in Nat
    BY <1>5 DEF OwnedInv
  <2> QED
    BY <1>1, <1>6, <2>1, <2>2, <2>3 DEF Bracketed
<1> QED
  BY <1>1, <1>2, <1>4, <1>6 DEF OwnedInv

(* What both theorems about counts are consequences of.                    *)
LEMMA OwnedInductive ==
    ASSUME IsFiniteSet((Where \X Apps) \X Sets)
    PROVE  Spec => []OwnedInv
<1>1. Init => OwnedInv
  <2> SUFFICES ASSUME Init PROVE OwnedInv
    OBVIOUS
  <2>1. owned \in [Where \X Sets -> Nat] /\ \A s \in Where \X Sets : owned[s] = 0
    BY DEF Init
  <2>2. owner \in [Where \X Apps -> Sets \cup {"nobody"}]
    BY DEF Init
  <2> QED
    BY <2>1, <2>2 DEF Init, OwnedInv
<1>2. IndInv /\ OwnedInv /\ [Next]_vars => OwnedInv'
  <2> SUFFICES ASSUME IndInv, OwnedInv, [Next]_vars PROVE OwnedInv'
    OBVIOUS
  <2>1. CASE ListNext \/ Change
    <3>1. pass = "list" /\ pass' \in {"list", "error"} /\ UNCHANGED counting
      BY <2>1 DEF ListNext, List, Change
    <3> QED
      BY <3>1 DEF OwnedInv, counting
  <2>2. CASE CountEnds
    <3>1. pass = "count" /\ Elements(todo) = {} /\ pass' = "ok" /\ UNCHANGED <<call, counting>>
      BY <2>2 DEF CountEnds, Elements
    <3>2. Searched' = Searched
      BY <3>1 DEF call, Searched, listNamespaces
    <3> QED
      BY <3>1, <3>2 DEF OwnedInv, Bracketed, counting
  <2>3. CASE UNCHANGED vars
    <3>1. Searched' = Searched /\ Ownerships' = Ownerships /\ UNCHANGED <<pass, todo, tool>>
      BY <2>3 DEF vars, call, counting, Searched, listNamespaces, Ownerships
    <3>2. UNCHANGED counting
      BY <2>3 DEF vars
    <3> QED
      BY <3>1, <3>2 DEF OwnedInv, Bracketed, counting
  <2> QED
    BY <2>1, <2>2, <2>3, OwnedListEnds, OwnedCountNext, OwnedAdopt DEF Next, ReadTool
<1> QED
  BY <1>1, <1>2, Inductive, PTL DEF Spec

(* The number of Applications appsets_list gives for a set is bracketed    *)
(* by those it owned all along and those it owned at some time, for        *)
(* finitely many Applications and sets (tools_read.go:227-241).            *)
THEOREM OwnedCounted ==
    ASSUME IsFiniteSet((Where \X Apps) \X Sets)
    PROVE  Spec => []OwnedIsBracketed
<1>1. OwnedInv => OwnedIsBracketed
  BY DEF OwnedInv, Bracketed, Of, OwnedIsBracketed
<1> QED
  BY <1>1, OwnedInductive, PTL

-----------------------------------------------------------------------------
(* The types.                                                              *)

(* Each pass goes through the namespaces in order: those still to be       *)
(* listed are a rest of them, and it can fail to read no others.           *)
TodoIsARest ==
    \E k \in 0..Len(listNamespaces) :
        todo = SubSeq(listNamespaces, k + 1, Len(listNamespaces))

CallType ==
    /\ tool \in Tools
    /\ filter \in {""} \cup Statuses
    /\ object \in [Objects -> Statuses \cup {"absent"}]
    /\ pass \in Passes
    /\ unread \subseteq Searched
    /\ TodoIsARest

LEMMA WholeIsARest ==
    ASSUME NEW S, NEW s \in Seq(S)
    PROVE  \E k \in 0..Len(s) : s = SubSeq(s, k + 1, Len(s))
<1>1. s = SubSeq(s, 0 + 1, Len(s)) /\ Len(s) \in Nat
  BY SubSeqFull
<1> QED
  BY <1>1

LEMMA RestOfARest ==
    ASSUME NEW S, NEW s \in Seq(S), NEW k \in 0..Len(s),
           SubSeq(s, k + 1, Len(s)) # <<>>
    PROVE  /\ \E n \in DOMAIN s : Head(SubSeq(s, k + 1, Len(s))) = s[n]
           /\ \E j \in 0..Len(s) :
                 Tail(SubSeq(s, k + 1, Len(s))) = SubSeq(s, j + 1, Len(s))
<1> DEFINE len == Len(s)
           i   == k + 1
<1>1. len \in Nat /\ DOMAIN s = 1..len /\ k \in Nat /\ k <= len /\ i \in Int /\ i = k + 1
  OBVIOUS
<1>2. k # len
  <2>1. ASSUME len < i PROVE FALSE
    BY <1>1, <2>1, SubSeqEmpty
  <2> HIDE DEF len, i
  <2> QED
    BY <1>1, <2>1
<1>3. i \in 1..len /\ len \in i..len
  <2> HIDE DEF len, i
  <2> QED
    BY <1>1, <1>2
<1>4. /\ Head(SubSeq(s, i, len)) = s[i]
      /\ Tail(SubSeq(s, i, len)) = SubSeq(s, i + 1, len)
  BY <1>3, HeadTailOfSubSeq
<1>5. i \in DOMAIN s /\ i \in 0..len
  <2> HIDE DEF len, i
  <2> QED
    BY <1>1, <1>3
<1> QED
  BY <1>4, <1>5, Zenon

LEMMA NextNamespace ==
    ASSUME IndInv, TodoIsARest, todo # <<>>, todo' = Tail(todo), UNCHANGED call
    PROVE  Head(todo) \in Searched /\ TodoIsARest'
<1>1. listNamespaces \in Seq(Where) /\ listNamespaces' = listNamespaces
  BY ListNamespaces DEF IndInv, TodoInv, listNamespaces, call
<1>2. PICK k \in 0..Len(listNamespaces) :
          todo = SubSeq(listNamespaces, k + 1, Len(listNamespaces))
  BY DEF TodoIsARest
<1>3. /\ \E n \in DOMAIN listNamespaces : Head(todo) = listNamespaces[n]
      /\ \E j \in 0..Len(listNamespaces) :
            Tail(todo) = SubSeq(listNamespaces, j + 1, Len(listNamespaces))
  BY <1>1, <1>2, RestOfARest
<1> QED
  BY <1>1, <1>3 DEF Searched, TodoIsARest

LEMMA CallTypeStep == IndInv /\ CallType /\ [Next]_vars => CallType'
<1> SUFFICES ASSUME IndInv, CallType, [Next]_vars PROVE CallType'
  OBVIOUS
<1>1. ASSUME UNCHANGED call
      PROVE  /\ Searched' = Searched /\ Objects' = Objects
             /\ listNamespaces' = listNamespaces
  BY <1>1 DEF call, Searched, listNamespaces, Objects, Listed
<1>2. CASE ListNext
  <2>1. /\ UNCHANGED <<call, object, unread>> /\ pass' \in Passes /\ todo # <<>>
        /\ todo' \in {todo, Tail(todo)}
    BY <1>2 DEF ListNext, List, counting, Passes, CallType
  <2>2. TodoIsARest'
    BY <1>1, <2>1, NextNamespace DEF TodoIsARest, CallType
  <2> QED
    BY <1>1, <2>1, <2>2 DEF CallType, call
<1>3. CASE ListEnds
  <2>1. /\ UNCHANGED <<call, object, unread>> /\ pass' \in Passes
        /\ todo' \in {todo, listNamespaces}
    BY <1>3 DEF ListEnds, listing, Passes
  <2>2. listNamespaces \in Seq(Where)
    BY ListNamespaces DEF IndInv, TodoInv
  <2>3. TodoIsARest'
    BY <1>1, <2>1, <2>2, WholeIsARest DEF TodoIsARest, CallType
  <2> QED
    BY <1>1, <2>1, <2>3 DEF CallType, call
<1>4. CASE CountNext
  <2>1. /\ UNCHANGED <<call, object, pass>> /\ todo # <<>> /\ todo' = Tail(todo)
        /\ unread' \subseteq unread \cup {Head(todo)}
    BY <1>4 DEF CountNext, listing
  <2>2. Head(todo) \in Searched /\ TodoIsARest'
    BY <2>1, NextNamespace DEF CallType
  <2> QED
    BY <1>1, <2>1, <2>2 DEF CallType, call
<1>5. CASE CountEnds \/ Adopt \/ UNCHANGED vars
  <2>1. UNCHANGED <<call, object, todo, unread>> /\ pass' \in {pass, "ok"}
    BY <1>5 DEF CountEnds, Adopt, listing, counting, vars
  <2> QED
    BY <1>1, <2>1 DEF CallType, TodoIsARest, call, Passes
<1>6. CASE Change
  <2>1. UNCHANGED <<call, pass, todo, unread>>
    BY <1>6 DEF Change, counting
  <2>2. object' \in [Objects -> Statuses \cup {"absent"}]
    BY <1>6 DEF Change, CallType
  <2> QED
    BY <1>1, <2>1, <2>2 DEF CallType, TodoIsARest, call
<1> QED
  BY <1>2, <1>3, <1>4, <1>5, <1>6 DEF Next, ReadTool

(* Every variable keeps to its type; what is still to be listed is always  *)
(* a rest of the namespaces in their order, for finitely many Applications *)
(* and sets (tools_read.go:78-129, 191-241).                               *)
THEOREM TypeCorrect ==
    ASSUME IsFiniteSet((Where \X Apps) \X Sets)
    PROVE  Spec => []TypeOK
<1>1. Init => CallType
  <2> SUFFICES ASSUME Init PROVE CallType
    OBVIOUS
  <2>1. TodoIsARest
    <3>1. listNamespaces \in Seq(Where)
      BY ListNamespaces DEF Init
    <3> QED
      BY <3>1, WholeIsARest DEF Init, TodoIsARest
  <2>2. filter \in {""} \cup Statuses
    BY DEF Init
  <2> QED
    BY <2>1, <2>2 DEF Init, CallType, Passes
<1>2. IndInv /\ OwnedInv /\ CallType => TypeOK
  <2> SUFFICES ASSUME IndInv, OwnedInv, CallType PROVE TypeOK
    OBVIOUS
  <2>1. rows \in [Objects -> 0..1]
    <3>1. {0, 1} = 0..1
      OBVIOUS
    <3> QED
      BY <3>1 DEF IndInv, RowsInv
  <2> QED
    BY <2>1 DEF CallType, TodoIsARest, IndInv, TodoInv, OwnedInv, TypeOK
<1> QED
  BY <1>1, <1>2, CallTypeStep, Inductive, OwnedInductive, PTL DEF Spec
=============================================================================
