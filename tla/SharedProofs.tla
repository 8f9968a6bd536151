---------------------------- MODULE SharedProofs ----------------------------
(***************************************************************************)
(* What the proofs of several modules need.                                *)
(*                                                                         *)
(* Sets in order: numbers have a least and a greatest, and the elements of *)
(* a finite set come in a sequence, in any order that is total.  What the  *)
(* library states with an operator as a parameter is stated here for sets  *)
(* and relations, from the well-founded orderings of its modules.          *)
(*                                                                         *)
(* RequestWatcher, for any urls, requests and replies.  The timer follows  *)
(* the list of requests only because that list and the Map of watchers     *)
(* never disagree, so the invariant joins the two; that a stopped request  *)
(* is not fetched again follows from it.                                   *)
(***************************************************************************)
EXTENDS RequestWatcher, Integers, FiniteSetTheorems, WellFoundedInduction, TLAPS

(* Sets in order *)

\* A set of naturals has a least element.
LEMMA Least ==
  ASSUME NEW T \in SUBSET Nat, T # {}
  PROVE  \E x \in T : \A y \in T : x <= y
<1>1. \E x \in T : \A y \in T : ~(<<y, x>> \in OpToRel(<, Nat))
  BY WFMin, NatLessThanWellFounded
<1>2. \A x, y \in T : ~(<<y, x>> \in OpToRel(<, Nat)) => x <= y
  BY DEF OpToRel
<1>. QED BY <1>1, <1>2

\* Induction over the naturals up to m, for a set instead of an operator.
LEMMA UpTo ==
  ASSUME NEW m \in Nat, NEW T, 0 \in T, \A k \in 0..m : k < m /\ k \in T => k + 1 \in T
  PROVE  0..m \subseteq T
<1> DEFINE missing == {k \in 0..m : k \notin T}
<1>1. ASSUME missing # {} PROVE FALSE
  <2>1. PICK k \in missing : \A j \in missing : k <= j
    <3>1. missing \in SUBSET Nat
      OBVIOUS
    <3>. HIDE DEF missing
    <3>. QED BY <1>1, <3>1, Least
  <2>2. k # 0 /\ k \in 0..m /\ k - 1 \in 0..m
    BY <2>1
  <2>3. k - 1 \in T
    BY <2>1, <2>2
  <2>. QED BY <2>1, <2>2, <2>3
<1>. QED BY <1>1

\* A bounded set of naturals has a greatest element.
LEMMA Greatest ==
  ASSUME NEW m \in Nat, NEW T \in SUBSET (0..m), T # {}
  PROVE  \E x \in T : \A y \in T : x >= y
<1> DEFINE D == {m - x : x \in T}
<1>1. D \in SUBSET Nat /\ D # {}
  <2>1. \A x \in T : m - x \in Nat
    OBVIOUS
  <2>. QED BY <2>1
<1>. HIDE DEF D
<1>2. PICK d \in D : \A e \in D : d <= e
  BY <1>1, Least
<1>. USE DEF D
<1>3. PICK x \in T : d = m - x
  OBVIOUS
<1>4. ASSUME NEW y \in T PROVE x >= y
  <2>1. d <= m - y
    BY <1>2
  <2>. QED BY <1>3, <2>1
<1>. QED BY <1>4

\* The place of x in S under the order R.
Rank(S, R, x) == Cardinality({y \in S : <<y, x>> \in R}) + 1

\* R orders S totally.
Orders(R, S) ==
  /\ \A x \in S : <<x, x>> \notin R
  /\ \A x, y \in S : x # y => <<x, y>> \in R \/ <<y, x>> \in R
  /\ \A x, y, z \in S : <<x, y>> \in R /\ <<y, z>> \in R => <<x, z>> \in R

\* The elements of a finite set have the places 1, 2, ... in any total order.
LEMMA Ranking ==
  ASSUME NEW S, IsFiniteSet(S), NEW R, Orders(R, S)
  PROVE  /\ \A x \in S : Rank(S, R, x) \in 1..Cardinality(S)
         /\ \A x, y \in S : <<x, y>> \in R => Rank(S, R, x) < Rank(S, R, y)
         /\ \A x, y \in S : Rank(S, R, x) = Rank(S, R, y) => x = y
         /\ \A n \in 1..Cardinality(S) : \E x \in S : Rank(S, R, x) = n
<1> DEFINE Below(x) == {y \in S : <<y, x>> \in R}
<1>1. \A x \in S : /\ IsFiniteSet(Below(x)) /\ Cardinality(Below(x)) \in Nat
                   /\ Cardinality(Below(x)) < Cardinality(S)
  <2> TAKE x \in S
  <2>1. Below(x) \in SUBSET S /\ Below(x) # S
    BY DEF Orders
  <2>2. IsFiniteSet(Below(x)) /\ Cardinality(Below(x)) <= Cardinality(S)
        /\ Cardinality(Below(x)) # Cardinality(S)
    BY <2>1, FS_Subset
  <2>. QED BY <2>2, FS_CardinalityType
<1>2. \A x \in S : Rank(S, R, x) \in 1..Cardinality(S)
  BY <1>1, FS_CardinalityType DEF Rank
<1>3. ASSUME NEW x \in S, NEW y \in S, <<x, y>> \in R  PROVE Rank(S, R, x) < Rank(S, R, y)
  <2>1. Below(x) \in SUBSET Below(y) /\ Below(x) # Below(y)
    BY <1>3 DEF Orders
  <2>2. Cardinality(Below(x)) <= Cardinality(Below(y)) /\ Cardinality(Below(x)) # Cardinality(Below(y))
    BY <1>1, <2>1, FS_Subset
  <2>. QED BY <1>1, <2>2 DEF Rank
<1>4. \A x, y \in S : Rank(S, R, x) = Rank(S, R, y) => x = y
  <2> TAKE x, y \in S
  <2>1. Rank(S, R, x) \in Int /\ Rank(S, R, y) \in Int
    BY <1>2
  <2>2. x # y => Rank(S, R, x) < Rank(S, R, y) \/ Rank(S, R, y) < Rank(S, R, x)
    BY <1>3 DEF Orders
  <2>. HIDE DEF Rank
  <2>. QED BY <2>1, <2>2
<1> DEFINE rank == [x \in S |-> Rank(S, R, x)]
           places == 1..Cardinality(S)
<1>5. IsFiniteSet(places) /\ Cardinality(places) = Cardinality(S)
  BY FS_CardinalityType, FS_Interval
<1>6. rank \in Injection(S, places)
  BY <1>2, <1>4 DEF Injection, IsInjective
<1>7. rank \in Surjection(S, places)
  BY <1>5, <1>6, FS_Injection
<1>8. \A n \in places : \E x \in S : Rank(S, R, x) = n
  BY <1>7 DEF Surjection
<1>. QED BY <1>2, <1>3, <1>4, <1>8

\* Of a finite set one element comes last, in any total order.
LEMMA LastElement ==
  ASSUME NEW S, IsFiniteSet(S), S # {}, NEW R, Orders(R, S)
  PROVE  \E x \in S : \A y \in S : <<x, y>> \notin R
<1>1. PICK m : m = Cardinality(S)
  OBVIOUS
<1>2. m \in Nat /\ m \in 1..m
  BY <1>1, FS_CardinalityType, FS_EmptySet
<1>3. \A x \in S : Rank(S, R, x) \in 1..m
  BY <1>1, Ranking
<1>4. PICK x \in S : Rank(S, R, x) = m
  BY <1>1, <1>2, Ranking
<1>5. ASSUME NEW y \in S, <<x, y>> \in R PROVE FALSE
  <2>1. Rank(S, R, x) < Rank(S, R, y)
    BY <1>5, Ranking
  <2>. QED BY <1>2, <1>3, <1>4, <2>1
<1>. QED BY <1>5

\* A finite set of naturals has a greatest element.
LEMMA FiniteGreatest ==
  ASSUME NEW S \in SUBSET Nat, IsFiniteSet(S), S # {}
  PROVE  \E x \in S : \A y \in S : x >= y
<1> DEFINE R == {p \in S \X S : p[1] < p[2]}
<1>1. Orders(R, S)
  BY DEF Orders
<1>2. \A x, y \in S : <<x, y>> \in R \/ x >= y
  OBVIOUS
<1>. HIDE DEF R
<1>. QED BY <1>1, <1>2, LastElement

\* A finite set can be sorted by any key, from the greatest down.
LEMMA Sortable ==
  ASSUME NEW S, IsFiniteSet(S), NEW key \in [S -> Nat]
  PROVE  \E s \in [1..Cardinality(S) -> S] :
           \A i, j \in 1..Cardinality(S) : i < j => s[i] # s[j] /\ key[s[i]] >= key[s[j]]
<1>1. PICK m : m = Cardinality(S)
  OBVIOUS
<1>2. PICK f \in Bijection(1..m, S) : TRUE
  BY <1>1, FS_CardinalityType DEF ExistsBijection
<1>3. m \in Nat /\ \A x \in S : \E i \in 1..m : f[i] = x
  BY <1>1, <1>2, FS_CardinalityType DEF Bijection, Surjection
<1> DEFINE place == [x \in S |-> CHOOSE i \in 1..m : f[i] = x]
<1>4. place \in [S -> 1..m] /\ \A x, y \in S : place[x] = place[y] => x = y
  BY <1>3
<1>. HIDE DEF place
<1> DEFINE Before(x, y) == key[x] > key[y] \/ (key[x] = key[y] /\ place[x] < place[y])
           R == {p \in S \X S : Before(p[1], p[2])}
<1>5. \A x \in S : key[x] \in Nat /\ place[x] \in Nat
  BY <1>3, <1>4
<1>6. /\ \A x \in S : ~Before(x, x)
      /\ \A x, y \in S : x # y => Before(x, y) \/ Before(y, x)
      /\ \A x, y, z \in S : Before(x, y) /\ Before(y, z) => Before(x, z)
      /\ \A x, y \in S : Before(x, y) => key[x] >= key[y]
  <2>1. \A x \in S : ~Before(x, x)
    BY <1>5
  <2>2. ASSUME NEW x \in S, NEW y \in S, x # y PROVE Before(x, y) \/ Before(y, x)
    <3>1. place[x] # place[y] /\ {key[x], key[y], place[x], place[y]} \subseteq Nat
      BY <1>4, <1>5, <2>2
    <3>. QED BY <3>1
  <2>3. \A x, y, z \in S : Before(x, y) /\ Before(y, z) => Before(x, z)
    BY <1>5
  <2>4. \A x, y \in S : Before(x, y) => key[x] >= key[y]
    BY <1>5
  <2>. HIDE DEF Before
  <2>. QED BY <2>1, <2>2, <2>3, <2>4
<1>. HIDE DEF Before
<1>7. Orders(R, S) /\ \A x, y \in S : <<x, y>> \in R <=> Before(x, y)
  <2>1. \A x, y \in S : <<x, y>> \in R <=> Before(x, y)
    OBVIOUS
  <2>. HIDE DEF R
  <2>. QED BY <1>6, <2>1 DEF Orders
<1>. HIDE DEF R
<1>8. /\ \A x \in S : Rank(S, R, x) \in 1..m
      /\ \A x, y \in S : <<x, y>> \in R => Rank(S, R, x) < Rank(S, R, y)
  BY <1>1, <1>7, Ranking
<1>9. \A n \in 1..m : \E x \in S : Rank(S, R, x) = n
  BY <1>1, <1>7, Ranking
<1> DEFINE s == [n \in 1..m |-> CHOOSE x \in S : Rank(S, R, x) = n]
<1>10. s \in [1..m -> S] /\ \A n \in 1..m : Rank(S, R, s[n]) = n
  BY <1>9
<1>. HIDE DEF s
<1>11. ASSUME NEW i \in 1..m, NEW j \in 1..m, i < j
       PROVE  s[i] # s[j] /\ key[s[i]] >= key[s[j]]
  <2>1. s[i] \in S /\ s[j] \in S /\ Rank(S, R, s[i]) = i /\ Rank(S, R, s[j]) = j
    BY <1>10
  <2>2. s[i] # s[j]
    BY <1>11, <2>1
  <2>3. <<s[j], s[i]>> \notin R
    BY <1>8, <1>11, <2>1
  <2>4. <<s[i], s[j]>> \in R
    BY <1>7, <2>1, <2>2, <2>3 DEF Orders
  <2>. QED BY <1>6, <1>7, <2>1, <2>2, <2>4
<1>. QED BY <1>1, <1>10, <1>11

\* f holds what comes of first in S by 0, 1, ..., m steps.
Iterated(f, m, S, first, next) ==
  f \in [0..m -> S] /\ f[0] = first /\ \A k \in 1..m : f[k] = next[k][f[k - 1]]

\* What is defined step by step exists.
LEMMA Iterates ==
  ASSUME NEW m \in Nat, NEW S, NEW first \in S, NEW next, next \in [1..m -> [S -> S]]
  PROVE  \E f : Iterated(f, m, S, first, next)
<1> DEFINE Upto(n) == {f \in [0..m -> S] :
                         f[0] = first /\ \A k \in 1..m : k <= n => f[k] = next[k][f[k - 1]]}
           T == {n \in 0..m : Upto(n) # {}}
<1>1. 0 \in T
  <2>1. [k \in 0..m |-> first] \in Upto(0)
    OBVIOUS
  <2>. QED BY <2>1
<1>2. ASSUME NEW n \in 0..m, n < m, n \in T PROVE n + 1 \in T
  <2>1. PICK f \in Upto(n) : TRUE
    BY <1>2
  <2>2. n + 1 \in 1..m /\ n + 1 \in 0..m /\ n + 1 - 1 = n
    BY <1>2
  <2> DEFINE g == [f EXCEPT ![n + 1] = next[n + 1][f[n]]]
  <2>3. f \in [0..m -> S] /\ f[0] = first /\ \A k \in 1..m : k <= n => f[k] = next[k][f[k - 1]]
    BY <2>1
  <2>4. next[n + 1][f[n]] \in S
    BY <2>2, <2>3
  <2>5. g \in [0..m -> S] /\ g[n + 1] = next[n + 1][f[n]] /\ \A k \in 0..m : k # n + 1 => g[k] = f[k]
    BY <2>2, <2>3, <2>4
  <2>. HIDE DEF g
  <2>6. ASSUME NEW k \in 1..m, k <= n + 1 PROVE g[k] = next[k][g[k - 1]]
    <3>1. k - 1 \in 0..m /\ k \in 0..m /\ k - 1 # n + 1
      BY <2>6
    <3>2. CASE k = n + 1
      BY <2>2, <2>5, <3>1, <3>2
    <3>3. CASE k # n + 1
      <4>1. k <= n
        BY <2>6, <3>3
      <4>. QED BY <2>3, <2>5, <3>1, <3>3, <4>1
    <3>. QED BY <3>2, <3>3
  <2>7. g[0] = first
    BY <2>3, <2>5
  <2>8. g \in Upto(n + 1)
    BY <2>5, <2>6, <2>7
  <2>. QED BY <2>2, <2>8
<1>. HIDE DEF T
<1>3. m \in T
  <2>1. \A n \in 0..m : n < m /\ n \in T => n + 1 \in T
    BY <1>2
  <2>2. 0..m \subseteq T
    BY <1>1, <2>1, UpTo
  <2>. QED BY <2>2
<1>4. PICK f : f \in Upto(m)
  BY <1>3 DEF T
<1>5. Iterated(f, m, S, first, next)
  BY <1>4 DEF Iterated
<1>. QED BY <1>5

-----------------------------------------------------------------------------
(* RequestWatcher *)

\* The part of the invariant that does not speak of answers.
WatchersOK ==
  /\ _requests \in SUBSET Requests
  /\ statusWatchers \in [Urls -> Requests \cup {NONE}]
  /\ _pollTimer \in BOOLEAN
  /\ uri \in [Requests -> Urls \cup {NONE}]
  /\ TimerWhileRequests
  /\ EveryRequestCanBeStopped
  /\ _requests \subseteq created

\* Stopping the watchers of any urls, alone or inside a callback, keeps the
\* timer, the list and the Map in step.
LEMMA UnwatchKeeps ==
  ASSUME WatchersOK, NEW S \in SUBSET Urls, Unwatch(S)
  PROVE  /\ _requests' \in SUBSET _requests
         /\ statusWatchers' \in [Urls -> Requests \cup {NONE}]
         /\ _pollTimer' \in BOOLEAN
         /\ TimerWhileRequests'
         /\ EveryRequestCanBeStopped'
<1> USE DEF WatchersOK, Unwatch, Stopped
<1>1. _requests' = _requests \ {statusWatchers[u] : u \in S}
  OBVIOUS
<1>2. statusWatchers' \in [Urls -> Requests \cup {NONE}]
  OBVIOUS
<1>3. _pollTimer' \in BOOLEAN /\ TimerWhileRequests'
  BY <1>1 DEF TimerAfterStop, TimerWhileRequests
<1>4. EveryRequestCanBeStopped'
  <2>1. \A u \in Urls : statusWatchers'[u] # NONE =>
          \A v \in Urls \ {u} : statusWatchers'[v] # statusWatchers'[u]
    BY DEF EveryRequestCanBeStopped
  <2>2. ASSUME NEW r \in _requests'
        PROVE  \E u \in Urls : statusWatchers'[u] = r /\ r # NONE
    <3>1. PICK u \in Urls : statusWatchers[u] = r /\ r # NONE
      BY <1>1, <2>2 DEF EveryRequestCanBeStopped
    <3>2. u \notin S
      BY <1>1, <2>2, <3>1
    <3>. QED BY <3>1, <3>2
  <2>3. ASSUME NEW u \in Urls, statusWatchers'[u] # NONE
        PROVE  statusWatchers'[u] \in _requests'
    <3>1. u \notin S /\ statusWatchers'[u] = statusWatchers[u]
      BY <2>3
    <3>2. statusWatchers[u] \in _requests
      BY <2>3, <3>1 DEF EveryRequestCanBeStopped
    <3>3. ASSUME NEW v \in S PROVE statusWatchers[v] # statusWatchers[u]
      BY <2>3, <3>1 DEF EveryRequestCanBeStopped
    <3>. QED BY <1>1, <3>1, <3>2, <3>3
  <2>. QED BY <2>1, <2>2, <2>3 DEF EveryRequestCanBeStopped
<1>. QED BY <1>1, <1>2, <1>3, <1>4

\* The requests that watching the urls of w creates.
LEMMA CreatedGrows ==
  ASSUME WatchersOK, NEW S, NEW D \in SUBSET Urls, NEW w \in [D -> Requests], WatchApi(S, w)
  PROVE  uri' \in [Requests -> Urls \cup {NONE}] /\ created' = created \cup Registered(w)
<1> USE DEF Registered
<1>1. \A r \in Requests : r \in Registered(w) => (CHOOSE u \in DOMAIN w : w[u] = r) \in Urls
  <2> TAKE r \in Requests
  <2> HAVE r \in Registered(w)
  <2>1. \E u \in DOMAIN w : w[u] = r
    OBVIOUS
  <2>2. (CHOOSE u \in DOMAIN w : w[u] = r) \in DOMAIN w
    BY <2>1
  <2>. QED BY <2>2
<1>2. uri' = UriAfter(w)
  BY DEF WatchApi
<1>3. \A r \in Requests : r \in Registered(w) => uri'[r] \in Urls
  BY <1>1, <1>2 DEF UriAfter
<1>4. \A r \in Requests : r \notin Registered(w) => uri'[r] = uri[r]
  BY <1>2 DEF UriAfter
<1>5. uri' \in [Requests -> Urls \cup {NONE}]
  BY <1>2, <1>3, <1>4 DEF UriAfter, WatchersOK
<1>6. Registered(w) \subseteq Requests
  OBVIOUS
<1>. QED BY <1>3, <1>4, <1>5, <1>6, WatcherAssumption DEF created

\* Watching new urls, after stopping others, keeps them in step as well.
LEMMA WatchKeeps ==
  ASSUME WatchersOK, NEW S \in SUBSET Urls, NEW D \in SUBSET Urls, NEW w \in [D -> Requests],
         WatchApi(S, w)
  PROVE  WatchersOK'
<1>0. uri' \in [Requests -> Urls \cup {NONE}] /\ created' = created \cup Registered(w)
  BY CreatedGrows DEF WatchersOK
<1> USE DEF WatchApi, IsNew, Registered, Stopped
<1>1. /\ _requests' \in SUBSET Requests /\ statusWatchers' \in [Urls -> Requests \cup {NONE}]
      /\ _pollTimer' \in BOOLEAN
  BY <1>0 DEF WatchersOK
<1>2. TimerWhileRequests' /\ _requests' \subseteq created'
  BY <1>0 DEF WatchersOK, TimerWhileRequests
<1>3. _requests' = (_requests \ {statusWatchers[v] : v \in S \cup D}) \cup {w[v] : v \in D}
  OBVIOUS
<1>4. \A v \in Urls : statusWatchers'[v] = IF v \in D THEN w[v]
                                           ELSE IF v \in S THEN NONE ELSE statusWatchers[v]
  OBVIOUS
<1>5. \A v \in D : w[v] \notin _requests /\ w[v] # NONE
  BY WatcherAssumption DEF WatchersOK
<1>6. EveryRequestCanBeStopped'
  <2> USE <1>3, <1>4, <1>5 DEF WatchersOK, EveryRequestCanBeStopped
  <2>1. \A u \in Urls, v \in D : statusWatchers[u] # w[v]
    OBVIOUS
  <2>2. \A u, v \in Urls : u # v /\ u \in D => statusWatchers'[v] # statusWatchers'[u]
    BY <2>1
  <2>3. ASSUME NEW q \in _requests'
        PROVE  \E v \in Urls : statusWatchers'[v] = q /\ q # NONE
    <3>1. CASE q \in _requests \ {statusWatchers[v] : v \in S \cup D}
      <4>1. PICK v \in Urls : statusWatchers[v] = q /\ q # NONE
        BY <3>1
      <4>2. v \notin S \cup D
        BY <3>1, <4>1
      <4>. QED BY <4>1, <4>2
    <3>2. CASE \E v \in D : q = w[v]
      BY <3>2
    <3>. QED BY <2>3, <3>1, <3>2
  <2>4. ASSUME NEW v \in Urls \ D, statusWatchers'[v] # NONE
        PROVE  statusWatchers'[v] \in _requests'
    <3>1. v \notin S \cup D /\ statusWatchers'[v] = statusWatchers[v]
      BY <2>4
    <3>2. statusWatchers[v] \in _requests
      BY <2>4, <3>1
    <3>3. ASSUME NEW u \in S \cup D PROVE statusWatchers[u] # statusWatchers[v]
      BY <2>4, <3>1
    <3>. QED BY <3>1, <3>2, <3>3
  <2>5. ASSUME NEW u \in Urls \ D, NEW v \in Urls \ {u}, statusWatchers'[u] # NONE
        PROVE  statusWatchers'[v] # statusWatchers'[u]
    BY <2>2, <2>5
  <2>. QED BY <2>2, <2>3, <2>4, <2>5
<1>. QED BY <1>0, <1>1, <1>2, <1>6 DEF WatchersOK

\* The inductive invariant.
THEOREM WatcherInvariant == WatcherSpec => []WatcherInv
<1>1. WatcherInit => WatcherInv
  BY WatcherAssumption
     DEF created, WatcherInit, WatcherInv, WatcherTypeOK, TimerWhileRequests, EveryRequestCanBeStopped
<1>2. WatcherInv /\ [WatcherNext]_watcherVars => WatcherInv'
  <2> SUFFICES ASSUME WatcherInv, [WatcherNext]_watcherVars PROVE WatcherInv'
    OBVIOUS
  <2>1. ASSUME NEW S \in SUBSET Urls, NEW D \in SUBSET Urls, NEW w \in [D -> Requests],
               WatchApi(S, w)
        PROVE  WatcherInv'
    <3>1. WatchersOK'
      BY <2>1, WatchKeeps DEF WatcherInv, WatcherTypeOK, WatchersOK
    <3>2. pollBusy' \in SUBSET Requests /\ pollBusy \subseteq pollBusy' /\ reply' = reply
      BY <2>1 DEF WatchApi, Registered, WatcherInv, WatcherTypeOK
    <3>. QED BY <3>1, <3>2 DEF WatcherInv, WatcherTypeOK, WatchersOK
  <2>2. ASSUME NEW S \in SUBSET Urls, UnwatchApi(S) PROVE WatcherInv'
    <3>1. Unwatch(S) /\ UNCHANGED <<uri, pollBusy, reply>>
      BY <2>2 DEF UnwatchApi
    <3>. QED BY <3>1, UnwatchKeeps DEF WatcherInv, WatcherTypeOK, WatchersOK, created
  <2>3. CASE _poll
    BY <2>3 DEF _poll, created, WatcherInv, WatcherTypeOK, TimerWhileRequests, EveryRequestCanBeStopped
  <2>4. ASSUME NEW r \in Requests, NEW x \in Replies, Answer(r, x) PROVE WatcherInv'
    BY <2>4
       DEF Answer, created, WatcherInv, WatcherTypeOK, TimerWhileRequests, EveryRequestCanBeStopped
  <2>5. ASSUME NEW r \in Requests, NEW S \in SUBSET Urls, Deliver(r, S) PROVE WatcherInv'
    <3>1. Unwatch(S) /\ pollBusy' = pollBusy \ {r} /\ uri' = uri
          /\ reply' = [reply EXCEPT ![r] = NONE]
      BY <2>5 DEF Deliver
    <3>. QED BY <3>1, UnwatchKeeps DEF WatcherInv, WatcherTypeOK, WatchersOK, created
  <2>6. CASE UNCHANGED watcherVars
    BY <2>6 DEF watcherVars, created, WatcherInv, WatcherTypeOK, TimerWhileRequests, EveryRequestCanBeStopped
  <2>8. ASSUME NEW r \in Requests, DeliverThrows(r) PROVE WatcherInv'
    BY <2>8 DEF DeliverThrows, created, WatcherInv, WatcherTypeOK, TimerWhileRequests,
                EveryRequestCanBeStopped
  <2>7. \A r \in Requests : {} \in SUBSET Urls /\ UrlsOf(r) \in SUBSET Urls
    BY DEF UrlsOf
  <2>. QED BY <2>1, <2>2, <2>3, <2>4, <2>5, <2>6, <2>7, <2>8 DEF WatcherNext
<1>. QED BY <1>1, <1>2, PTL DEF WatcherSpec

\* The timer runs exactly while a request is registered.
THEOREM PollsWhileWatched == WatcherSpec => []TimerWhileRequests
<1>1. WatcherInv => TimerWhileRequests
  BY DEF WatcherInv
<1>. QED BY <1>1, WatcherInvariant, PTL

\* Every registered request is the watcher of one url, whose unwatchApi stops it.
THEOREM NothingPollsForever == WatcherSpec => []EveryRequestCanBeStopped
<1>1. WatcherInv => EveryRequestCanBeStopped
  BY DEF WatcherInv
<1>. QED BY <1>1, WatcherInvariant, PTL

\* A request that has been stopped is never fetched again.
THEOREM StopIsFinal == WatcherSpec => StoppedIsNotFetched
<1> DEFINE Idle(r) == r \in created \ _requests /\ r \notin pollBusy
<1>1. ASSUME WatcherInv, [WatcherNext]_watcherVars, NEW r \in Requests, Idle(r)
      PROVE  r \notin pollBusy'
  <2>1. ASSUME NEW S, NEW w, WatchApi(S, w) PROVE r \notin pollBusy'
    BY <1>1, <2>1 DEF WatchApi, IsNew
  <2>2. ASSUME NEW S, UnwatchApi(S) PROVE r \notin pollBusy'
    BY <1>1, <2>2 DEF UnwatchApi
  <2>3. CASE _poll
    BY <1>1, <2>3 DEF _poll
  <2>4. ASSUME NEW q \in Requests, NEW x \in Replies, Answer(q, x) PROVE r \notin pollBusy'
    BY <1>1, <2>4 DEF Answer
  <2>5. ASSUME NEW q \in Requests, NEW S, Deliver(q, S) PROVE r \notin pollBusy'
    BY <1>1, <2>5 DEF Deliver
  <2>6. CASE UNCHANGED watcherVars
    BY <1>1, <2>6 DEF watcherVars
  <2>7. ASSUME NEW q \in Requests, DeliverThrows(q) PROVE r \notin pollBusy'
    BY <1>1, <2>7 DEF DeliverThrows
  <2>. QED BY <1>1, <2>1, <2>2, <2>3, <2>4, <2>5, <2>6, <2>7 DEF WatcherNext
<1>2. WatcherInv /\ [WatcherNext]_watcherVars
        => [\A r \in Requests : Idle(r) => r \notin pollBusy']_watcherVars
  BY <1>1
<1>. QED BY <1>2, WatcherInvariant, PTL DEF WatcherSpec, StoppedIsNotFetched
=============================================================================
