------------------------ MODULE DashboardSession_proofs ------------------------
(***************************************************************************)
(* The safety of the browser's match session, for any number of matches,   *)
(* any window, any bounds on sessions and reconnections.                   *)
(*                                                                         *)
(* The argument about the timeline: it is always the last Window events of *)
(* a history that ends somewhere (TimelineInv), because every load that is *)
(* still taken either begins within the timeline or fills a whole window.  *)
(* About the displayed state: until the socket is open only one request of *)
(* the session is in flight (EarlyInv), so nothing but a reconciliation of *)
(* a later time can hand it a state older than the one it has.             *)
(***************************************************************************)
EXTENDS DashboardSession, FiniteSetTheorems, TLAPS

Message == [type : {"snapshot", "state_update"}, sequence : 1..MaxSequence]
Loads == {"window", "history"}
Purposes == {"initial", "window", "reconcile", "history"}

HttpRequest ==
  [session : 1..MaxSessions, match : Matches, after : 0..MaxSequence,
   purpose : Purposes, issued : 1..MaxSequence]

Stretch(m, i, j) == {[match |-> m, sequence |-> k] : k \in i .. j}

\* The last Window events of a history of m that ends at n
Recent(m, n) == Stretch(m, WindowStart(n) + 1, n)

RequestInv ==
  /\ IsABag(requests)
  /\ \A r \in InFlight : r.session <= session /\ r.issued <= latest[r.match]
  /\ \A r \in InFlight : Active(r) => r.match = selected

\* A socket carries at most one snapshot, as its first message.
SocketInv ==
  /\ inbox \in Seq(Message)
  /\ inbox # <<>> => socket = "open" /\ sent # None
  /\ \A i \in 2 .. Len(inbox) : inbox[i].type = "state_update"
  /\ socket # "none" => state # None
  /\ socket = "waiting" => attempts > 0

\* Until the socket is opened the session has one request at a time.
EarlyInv ==
  \A r \in InFlight : Active(r) =>
    /\ r.purpose = "initial" <=> state = None
    /\ r.purpose \in {"initial", "window"} =>
         /\ requests[r] = 1 /\ socket = "none"
         /\ \A q \in InFlight : Active(q) => q = r

\* The socket is open and its snapshot has not been handled.
SnapshotDue ==
  socket = "open" /\ IF inbox = <<>> THEN sent = None ELSE Head(inbox).type = "snapshot"

\* Nobody has seen a future of the database; before the snapshot of the first
\* socket nothing can take the state beyond that snapshot.
FreshInv ==
  /\ state # None => state.match = selected /\ state.sequence <= latest[selected]
  /\ \A i \in DOMAIN inbox : inbox[i].sequence <= latest[selected]
  /\ attempts = 0 /\ SnapshotDue =>
       /\ \A r \in InFlight : Active(r) => r.purpose # "reconcile"
       /\ inbox # <<>> => state.sequence <= Head(inbox).sequence

\* Between a timeline that ends at n and the page that r brings is no hole.
Adjoins(r, n) ==
  r.purpose \in Loads => r.after <= n \/ r.after + Window <= r.issued

TimelineInv ==
  /\ \E n \in 0 .. MaxSequence : events = Recent(selected, n)
  /\ \A r \in InFlight : Active(r) => Adjoins(r, NewestSequence(events))

\* The answer to r takes the timeline to n.
Brings(r, n) ==
  Active(r) /\ r.purpose \in Loads /\ n <= r.after + Window /\ n <= r.issued

CompleteInv ==
  state # None /\ ~missing /\ ~overrun =>
    \/ state.sequence <= NewestSequence(events)
    \/ \E r \in InFlight : Brings(r, state.sequence)

SessionInv ==
  /\ TypeOK
  /\ RequestInv
  /\ SocketInv
  /\ EarlyInv
  /\ FreshInv
  /\ TimelineInv
  /\ CompleteInv
  /\ StatusHonest

-----------------------------------------------------------------------------
(* The bag of requests *)

\* A request that has ended leaves the others in flight.
LEMMA BagRemoved ==
  ASSUME NEW B, IsABag(B), NEW r \in BagToSet(B)
  PROVE  /\ IsABag(B (-) SetToBag({r}))
         /\ BagToSet(B (-) SetToBag({r})) \subseteq BagToSet(B)
         /\ BagToSet(B) \ {r} \subseteq BagToSet(B (-) SetToBag({r}))
         /\ \A d \in BagToSet(B (-) SetToBag({r})) \ {r} :
              (B (-) SetToBag({r}))[d] = B[d]
         /\ B[r] = 1 => r \notin BagToSet(B (-) SetToBag({r}))
BY DEF IsABag, BagToSet, SetToBag, (-)

\* A new request is in flight beside the others.
LEMMA BagAdded ==
  ASSUME NEW B, IsABag(B), NEW r
  PROVE  /\ IsABag(B (+) SetToBag({r}))
         /\ BagToSet(B (+) SetToBag({r})) = BagToSet(B) \cup {r}
         /\ r \notin BagToSet(B) => (B (+) SetToBag({r}))[r] = 1
         /\ \A d \in BagToSet(B) \ {r} : (B (+) SetToBag({r}))[d] = B[d]
BY DEF IsABag, BagToSet, SetToBag, (+)

\* A request that has ended and issued another one is in flight once less.
LEMMA BagSwapped ==
  ASSUME NEW B, IsABag(B), NEW r \in BagToSet(B), NEW q, q # r, NEW D,
         D = (B (-) SetToBag({r})) (+) SetToBag({q}), r \in BagToSet(D)
  PROVE  D[r] < B[r]
<1> DEFINE C == B (-) SetToBag({r})
<1>1. B[r] \in Nat \ {0}
  BY DEF BagToSet, IsABag
<1>2. IsABag(C)
  BY BagRemoved
<1>3. r \in BagToSet(C) => C[r] = B[r] - 1
  BY DEF IsABag, BagToSet, SetToBag, (-)
<1>4. D = C (+) SetToBag({q})
  OBVIOUS
<1> HIDE DEF C
<1>5. /\ BagToSet(D) = BagToSet(C) \cup {q}
      /\ \A d \in BagToSet(C) \ {q} : D[d] = C[d]
  BY <1>2, <1>4 DEF IsABag, BagToSet, SetToBag, (+)
<1>6. r \in BagToSet(C) /\ D[r] = C[r]
  BY <1>5
<1> QED
  BY <1>1, <1>3, <1>6

-----------------------------------------------------------------------------
(* The timeline *)

\* What the assumptions say of the constants, in the form that the steps use.
LEMMA Bounds ==
  /\ Window \in Nat \ {0} /\ MaxSequence \in Nat \ {0} /\ MaxSessions \in Nat \ {0}
  /\ MaxReconnect \in Nat
  /\ None \notin Matches /\ None \notin Nat /\ None \notin Event
BY SessionAssumption

\* loadEventsAfter's argument for the recent window
LEMMA WindowStartValue ==
  ASSUME NEW n \in Nat
  PROVE  /\ WindowStart(n) \in 0 .. n
         /\ n <= WindowStart(n) + Window
         /\ WindowStart(n) = 0 \/ WindowStart(n) = n - Window
BY Bounds DEF WindowStart, Larger

\* A window that ends at n shows n as its newest sequence.
LEMMA NewestOfRecent ==
  ASSUME NEW m, NEW n \in Nat
  PROVE  NewestSequence(Recent(m, n)) = n
<1> DEFINE evs == Recent(m, n)
           start == WindowStart(n)
<1>1. start \in Nat /\ start <= n /\ (n # 0 => start < n)
  BY WindowStartValue, Bounds
<1>2. \A e \in evs : e.sequence \in start + 1 .. n
  BY DEF Recent, Stretch
<1>3. \A k \in start + 1 .. n : [match |-> m, sequence |-> k] \in evs
  BY DEF Recent, Stretch
<1> HIDE DEF evs, start
<1>4. CASE n = 0
  <2>1. evs = {}
    BY <1>1, <1>2, <1>4
  <2> QED
    BY <2>1, <1>4 DEF NewestSequence, evs
<1>5. CASE n # 0
  <2>1. n \in start + 1 .. n
    BY <1>1, <1>5
  <2>2. [match |-> m, sequence |-> n] \in evs
    BY <1>3, <2>1
  <2>3. n \in {e.sequence : e \in evs}
    BY <2>2
  <2>4. \A e \in evs : e.sequence <= n
    BY <1>1, <1>2
  <2>5. \A k \in {e.sequence : e \in evs} : (\A e \in evs : e.sequence <= k) => k = n
    <3> SUFFICES ASSUME NEW e \in evs, \A f \in evs : f.sequence <= e.sequence
                 PROVE  e.sequence = n
      OBVIOUS
    <3>1. n <= e.sequence
      BY <2>2
    <3>2. e.sequence \in Int /\ e.sequence <= n
      BY <1>1, <1>2, <2>4
    <3> QED
      BY <3>1, <3>2
  <2>6. (CHOOSE k \in {e.sequence : e \in evs} : \A e \in evs : e.sequence <= k) = n
    BY <2>3, <2>4, <2>5
  <2>7. evs # {}
    BY <2>2
  <2> QED
    BY <2>6, <2>7 DEF NewestSequence, evs
<1> QED
  BY <1>4, <1>5

\* There are as many events of a match as numbers in an interval of sequences.
LEMMA StretchSize ==
  ASSUME NEW m, NEW i \in Int, NEW j \in Int
  PROVE  /\ IsFiniteSet(Stretch(m, i, j))
         /\ Cardinality(Stretch(m, i, j)) = IF i > j THEN 0 ELSE j - i + 1
<1> DEFINE img == {[match |-> m, sequence |-> k] : k \in i .. j}
           f == [k \in i .. j |-> [match |-> m, sequence |-> k]]
<1>1. f \in [i .. j -> img]
  OBVIOUS
<1>2. \A k, l \in i .. j : f[k] = f[l] => k = l
  <2> SUFFICES ASSUME NEW k \in i .. j, NEW l \in i .. j, f[k] = f[l]
               PROVE  k = l
    OBVIOUS
  <2>1. f[k].sequence = k /\ f[l].sequence = l
    OBVIOUS
  <2> QED
    BY <2>1
<1>3. \A e \in img : \E k \in i .. j : f[k] = e
  OBVIOUS
<1>4. DOMAIN f = i .. j
  OBVIOUS
<1> HIDE DEF f, img
<1>5. f \in Bijection(i .. j, img)
  BY <1>1, <1>2, <1>3, <1>4 DEF Bijection, Injection, Surjection, IsInjective
<1>6. IsFiniteSet(i .. j) /\ Cardinality(i .. j) = IF i > j THEN 0 ELSE j - i + 1
  BY FS_Interval
<1>7. ExistsBijection(i .. j, img)
  BY <1>5 DEF ExistsBijection
<1>8. IsFiniteSet(img) /\ Cardinality(img) = Cardinality(i .. j)
  BY <1>6, <1>7, FS_Bijection
<1> QED
  BY <1>6, <1>8 DEF img, Stretch

\* Of a set of events that ends at n and holds its last Window events,
\* mergeEvents keeps those.
LEMMA LastOfTimeline ==
  ASSUME NEW m, NEW n \in Nat, NEW all,
         Recent(m, n) \subseteq all,
         \A e \in all : e \in [match : {m}, sequence : 1 .. n]
  PROVE  {e \in all : Cardinality({f \in all : f.sequence > e.sequence}) < Window}
           = Recent(m, n)
<1> DEFINE At(k) == [match |-> m, sequence |-> k]
           start == WindowStart(n)
           Later(e) == {f \in all : f.sequence > e.sequence}
<1>1. start \in Nat /\ start <= n /\ n <= start + Window /\ (start = 0 \/ start = n - Window)
  BY WindowStartValue, Bounds
<1>2. \A e \in all : e.sequence \in 1 .. n /\ e = At(e.sequence)
  OBVIOUS
<1>3. \A e : e \in Recent(m, n) <=> \E k \in start + 1 .. n : e = At(k)
  BY DEF Recent, Stretch
<1> HIDE DEF start
<1>4. ASSUME NEW e \in Recent(m, n)
      PROVE  e \in all /\ Cardinality(Later(e)) < Window
  <2>1. PICK k \in start + 1 .. n : e = At(k)
    BY <1>3
  <2> DEFINE above == Stretch(m, k + 1, n)
  <2>2. Later(e) \subseteq above
    <3> SUFFICES ASSUME NEW f \in all, f.sequence > k
                 PROVE  f \in above
      BY <2>1
    <3>1. f.sequence \in k + 1 .. n /\ f = At(f.sequence)
      BY <1>1, <1>2
    <3> QED
      BY <3>1 DEF Stretch
  <2>3. k \in Int /\ k > start /\ k <= n
    BY <1>1
  <2>4. IsFiniteSet(above) /\ Cardinality(above) = IF k + 1 > n THEN 0 ELSE n - (k + 1) + 1
    <3>1. k + 1 \in Int /\ n \in Int
      BY <2>3
    <3> HIDE DEF above
    <3> QED
      BY <3>1, StretchSize DEF above
  <2> HIDE DEF above
  <2>5. Cardinality(Later(e)) <= Cardinality(above) /\ Cardinality(Later(e)) \in Nat
    BY <2>2, <2>4, FS_Subset, FS_CardinalityType
  <2>6. Cardinality(above) < Window
    BY <2>3, <2>4, <1>1, Bounds
  <2>7. Cardinality(above) \in Int
    BY <2>3, <2>4
  <2>8. Cardinality(Later(e)) < Window
    <3> HIDE DEF Later
    <3> QED
      BY <2>5, <2>6, <2>7, Bounds
  <2> QED
    BY <2>8
<1>5. ASSUME NEW e \in all, e \notin Recent(m, n)
      PROVE  ~(Cardinality(Later(e)) < Window)
  <2>1. e.sequence \in 1 .. n /\ e = At(e.sequence)
    BY <1>2
  <2>2. e.sequence <= start
    <3>1. e.sequence \notin start + 1 .. n
      BY <1>3, <1>5, <2>1
    <3> QED
      BY <1>1, <2>1, <3>1
  <2>3. start = n - Window
    BY <1>1, <2>1, <2>2
  <2>5. IsFiniteSet(Recent(m, n)) /\ Cardinality(Recent(m, n)) = Window
    <3>1. start + 1 \in Int /\ n \in Int
      BY <1>1
    <3>2. /\ IsFiniteSet(Recent(m, n))
          /\ Cardinality(Recent(m, n)) = IF start + 1 > n THEN 0 ELSE n - (start + 1) + 1
      BY <3>1, StretchSize DEF Recent, start
    <3> QED
      BY <3>2, <2>1, <2>2, <2>3, <1>1, Bounds
  <2>6. Recent(m, n) \subseteq Later(e)
    <3> SUFFICES ASSUME NEW f \in Recent(m, n)
                 PROVE  f \in all /\ f.sequence > e.sequence
      OBVIOUS
    <3>1. PICK k \in start + 1 .. n : f = At(k)
      BY <1>3
    <3>2. f.sequence = k
      BY <3>1
    <3> QED
      BY <3>2, <2>1, <2>2, <1>1
  <2>7. IsFiniteSet(Later(e))
    <3>1. Later(e) \subseteq Stretch(m, 1, n)
      BY <1>2 DEF Stretch
    <3>2. IsFiniteSet(Stretch(m, 1, n))
      BY StretchSize
    <3> QED
      BY <3>1, <3>2, FS_Subset
  <2>8. Window <= Cardinality(Later(e)) /\ Cardinality(Later(e)) \in Nat
    BY <2>5, <2>6, <2>7, FS_Subset, FS_CardinalityType
  <2> QED
    <3> HIDE DEF Later
    <3> QED
      BY <2>8, Bounds
<1> QED
  BY <1>4, <1>5

\* A window holds events of the match, at most Window of them.
LEMMA RecentType ==
  ASSUME NEW m \in Matches, NEW n \in 0 .. MaxSequence
  PROVE  Recent(m, n) \subseteq Event /\ Cardinality(Recent(m, n)) <= Window
<1>1. n \in Nat /\ n <= MaxSequence /\ WindowStart(n) \in Nat /\ n <= WindowStart(n) + Window
  BY WindowStartValue, Bounds
<1>2. WindowStart(n) + 1 \in Int /\ n \in Int
  BY <1>1
<1>3. Cardinality(Recent(m, n))
        = IF WindowStart(n) + 1 > n THEN 0 ELSE n - (WindowStart(n) + 1) + 1
  BY <1>2, StretchSize DEF Recent
<1>4. \A k \in WindowStart(n) + 1 .. n : k \in 1 .. MaxSequence
  BY <1>1, Bounds
<1>5. Recent(m, n) \subseteq Event
  BY <1>4 DEF Recent, Stretch, Event
<1> QED
  BY <1>1, <1>3, <1>5, Bounds

\* A page merged into the timeline: the last Window events of a history that
\* ends where the longer of the two ends, when the page begins within the
\* timeline or is a full one.
LEMMA PageMerged ==
  ASSUME NEW m, NEW h \in Nat, NEW after \in Nat, NEW last \in Nat,
         after <= h \/ after + Window <= last
  PROVE  MergeEvents(Recent(m, h), Page(m, after, last))
           = Recent(m, Larger(h, Smaller(after + Window, last)))
<1> DEFINE p == Smaller(after + Window, last)
           n == Larger(h, p)
           all == Recent(m, h) \cup Page(m, after, last)
<1>1. p \in Nat /\ p <= after + Window /\ p <= last /\ (p = after + Window \/ p = last)
  BY Bounds DEF Smaller
<1>2. Page(m, after, last) = Stretch(m, after + 1, p)
  BY DEF Page, PageSize, Stretch
<1> HIDE DEF p
<1>3. n \in Nat /\ h <= n /\ p <= n /\ (n = h \/ n = p)
  BY <1>1 DEF Larger
<1> HIDE DEF n
<1>4. /\ WindowStart(h) \in Nat /\ (WindowStart(h) = 0 \/ WindowStart(h) = h - Window)
      /\ WindowStart(n) \in Nat /\ (WindowStart(n) = 0 \/ WindowStart(n) = n - Window)
      /\ h <= WindowStart(h) + Window /\ n <= WindowStart(n) + Window
  BY <1>3, WindowStartValue
<1>5. Recent(m, n) \subseteq all
  <2>1. SUFFICES ASSUME NEW k \in WindowStart(n) + 1 .. n
                 PROVE  k \in WindowStart(h) + 1 .. h \/ k \in after + 1 .. p
    BY <1>2 DEF Recent, Stretch
  <2>2. k \in Int /\ WindowStart(n) < k /\ k <= n
    BY <1>3, <1>4
  <2>3. CASE n = h
    BY <2>1, <2>3
  <2>4. CASE n = p /\ k > after
    BY <2>2, <2>4, <1>1
  <2>5. CASE n = p /\ ~(k > after)
    <3>1. after <= h
      BY <1>1, <1>4, <2>2, <2>5, Bounds
    <3>2. WindowStart(h) < k
      BY <1>3, <1>4, <2>2, <2>5, Bounds
    <3> QED
      BY <3>1, <3>2, <2>2, <2>5, <1>4
  <2> QED
    BY <1>3, <2>3, <2>4, <2>5
<1>6. \A e \in all : e \in [match : {m}, sequence : 1 .. n]
  <2>1. \A k \in WindowStart(h) + 1 .. h : k \in 1 .. n
    BY <1>3, <1>4
  <2>2. \A k \in after + 1 .. p : k \in 1 .. n
    BY <1>1, <1>3
  <2> QED
    BY <1>2, <2>1, <2>2 DEF Recent, Stretch
<1> HIDE DEF all
<1>7. {e \in all : Cardinality({f \in all : f.sequence > e.sequence}) < Window} = Recent(m, n)
  BY <1>3, <1>5, <1>6, LastOfTimeline
<1> QED
  BY <1>7 DEF MergeEvents, all, n, p

\* A load that failed merges nothing.
LEMMA NothingMerged ==
  ASSUME NEW m, NEW h \in Nat
  PROVE  MergeEvents(Recent(m, h), {}) = Recent(m, h)
<1>1. WindowStart(h) \in Nat
  BY WindowStartValue
<1>2. \A k \in WindowStart(h) + 1 .. h : k \in 1 .. h
  BY <1>1
<1>3. \A e \in Recent(m, h) : e \in [match : {m}, sequence : 1 .. h]
  BY <1>2 DEF Recent, Stretch
<1>4. Recent(m, h) \cup {} = Recent(m, h)
  OBVIOUS
<1> DEFINE all == Recent(m, h)
<1>5. {e \in all : Cardinality({f \in all : f.sequence > e.sequence}) < Window} = all
  BY <1>3, LastOfTimeline
<1> QED
  BY <1>4, <1>5 DEF MergeEvents

-----------------------------------------------------------------------------
(* Requests that end and requests that are made *)

\* A request that ends leaves the others as they were.
LEMMA Ended ==
  ASSUME RequestInv, NEW r \in InFlight, requests' = Done(r)
  PROVE  /\ IsABag(requests)'
         /\ InFlight' \subseteq InFlight
         /\ InFlight \ {r} \subseteq InFlight'
         /\ requests[r] = 1 => r \notin InFlight'
         /\ \A q \in InFlight' \ {r} : requests'[q] = requests[q]
<1>1. IsABag(requests) /\ r \in BagToSet(requests)
  BY DEF RequestInv, InFlight
<1> QED
  BY <1>1, BagRemoved DEF Done, InFlight

\* A request that is issued joins the others.
LEMMA Issued ==
  ASSUME RequestInv, NEW q, Issue(q)
  PROVE  /\ IsABag(requests)'
         /\ InFlight' = InFlight \cup {q}
         /\ q \notin InFlight => requests'[q] = 1
         /\ \A d \in InFlight \ {q} : requests'[d] = requests[d]
<1>1. IsABag(requests)
  BY DEF RequestInv
<1> QED
  BY <1>1, BagAdded DEF Issue, InFlight

\* A page that asks for the next one: one request ends, one is issued.
LEMMA EndedAndIssued ==
  ASSUME RequestInv, NEW r \in InFlight, NEW q,
         requests' = Done(r) (+) SetToBag({q})
  PROVE  /\ IsABag(requests)'
         /\ InFlight' \subseteq InFlight \cup {q}
         /\ (InFlight \ {r}) \cup {q} \subseteq InFlight'
         /\ requests[r] = 1 /\ q # r => r \notin InFlight'
         /\ q \notin InFlight => requests'[q] = 1
         /\ \A d \in InFlight' \ {r, q} : requests'[d] = requests[d]
<1>1. IsABag(requests) /\ r \in BagToSet(requests)
  BY DEF RequestInv, InFlight
<1> DEFINE rest == requests (-) SetToBag({r})
<1>2. /\ IsABag(rest)
      /\ BagToSet(rest) \subseteq BagToSet(requests)
      /\ BagToSet(requests) \ {r} \subseteq BagToSet(rest)
      /\ requests[r] = 1 => r \notin BagToSet(rest)
      /\ \A d \in BagToSet(rest) \ {r} : rest[d] = requests[d]
  BY <1>1, BagRemoved
<1>3. requests' = rest (+) SetToBag({q})
  BY DEF Done
<1> HIDE DEF rest
<1> DEFINE both == rest (+) SetToBag({q})
<1>4. /\ IsABag(both)
      /\ BagToSet(both) = BagToSet(rest) \cup {q}
      /\ q \notin BagToSet(rest) => both[q] = 1
      /\ \A d \in BagToSet(rest) \ {q} : both[d] = rest[d]
  BY <1>2, BagAdded
<1> QED
  <2> HIDE DEF both
  <2>1. requests' = both
    BY <1>3 DEF both
  <2> QED
    BY <1>2, <1>4, <2>1 DEF InFlight

-----------------------------------------------------------------------------
(* What the invariant says of the values at hand *)

\* What a request is made of when it is issued.
LEMMA RequestType ==
  ASSUME TypeOK, NEW purpose \in Purposes, NEW after \in 0 .. MaxSequence
  PROVE  /\ Request(purpose, after) \in HttpRequest
         /\ Request(purpose, after).purpose = purpose
         /\ Request(purpose, after).after = after
         /\ Request(purpose, after).issued = latest[selected]
         /\ Request(purpose, after).match = selected
         /\ Request(purpose, after).session = session
BY DEF Request, HttpRequest, TypeOK

\* What a request in flight is made of.
LEMMA InFlightType ==
  ASSUME TypeOK, NEW r \in InFlight
  PROVE  /\ r \in HttpRequest
         /\ r.session \in 1 .. MaxSessions /\ r.match \in Matches
         /\ r.after \in 0 .. MaxSequence /\ r.issued \in 1 .. MaxSequence
         /\ r.purpose \in Purposes
<1>1. r \in HttpRequest
  BY DEF TypeOK, HttpRequest, Purposes
<1> QED
  BY <1>1 DEF HttpRequest

\* The state that a request reads is between the one at its issue and the stored one.
LEMMA ReadType ==
  ASSUME TypeOK, RequestInv, NEW r \in InFlight, NEW sequence \in Read(r)
  PROVE  /\ sequence \in 1 .. MaxSequence
         /\ r.issued <= sequence
         /\ sequence <= latest[r.match]
<1>1. latest[r.match] \in 1 .. MaxSequence
  BY InFlightType DEF TypeOK
<1>2. r.issued \in 1 .. MaxSequence
  BY InFlightType
<1> QED
  BY <1>1, <1>2, Bounds DEF Read

\* The timeline is the window that ends at its newest sequence.
LEMMA NewestType ==
  ASSUME TimelineInv
  PROVE  /\ NewestSequence(events) \in 0 .. MaxSequence
         /\ events = Recent(selected, NewestSequence(events))
<1>1. PICK n \in 0 .. MaxSequence : events = Recent(selected, n)
  BY DEF TimelineInv
<1>2. n \in Nat
  BY Bounds
<1>3. NewestSequence(events) = n
  BY <1>1, <1>2, NewestOfRecent
<1> QED
  BY <1>1, <1>3

\* Where the first page of a timeline begins: a window before the end, or at 0.
LEMMA WindowStartType ==
  ASSUME NEW n \in 1 .. MaxSequence
  PROVE  /\ WindowStart(n) \in 0 .. MaxSequence
         /\ n <= WindowStart(n) + Window
         /\ WindowStart(n) = 0 \/ WindowStart(n) + Window = n
<1>1. n \in Nat /\ n <= MaxSequence
  BY Bounds
<1> QED
  BY <1>1, WindowStartValue, Bounds

\* The message that is handled next: the socket is open, and there is a state to compare
\* with.
LEMMA HeadType ==
  ASSUME TypeOK, SocketInv, FreshInv, inbox # <<>>
  PROVE  /\ Head(inbox) \in Message
         /\ Head(inbox).sequence \in 1 .. MaxSequence
         /\ Head(inbox).sequence <= latest[selected]
         /\ socket = "open"
         /\ state \in Event /\ state # None
         /\ state.sequence \in 1 .. MaxSequence
<1>1. inbox \in Seq(Message) /\ Head(inbox) = inbox[1] /\ 1 \in DOMAIN inbox
  BY DEF SocketInv
<1>2. socket = "open" /\ state # None /\ state \in Event
  BY DEF SocketInv, TypeOK
<1>3. inbox[1] \in Message
  BY <1>1
<1>4. inbox[1].sequence <= latest[selected]
  BY <1>1 DEF FreshInv
<1> QED
  BY <1>1, <1>2, <1>3, <1>4 DEF Message, Event

\* A page that arrives makes the timeline no shorter.
LEMMA PageTaken ==
  ASSUME TypeOK, RequestInv, TimelineInv,
         NEW r \in InFlight, Active(r), r.purpose \in Loads, NEW sequence \in Read(r)
  PROVE  \E n \in 0 .. MaxSequence :
           /\ MergeEvents(events, Page(r.match, r.after, sequence)) = Recent(selected, n)
           /\ NewestSequence(events) <= n
           /\ \A k \in Nat : k <= r.after + Window /\ k <= r.issued => k <= n
<1> DEFINE h == NewestSequence(events)
           p == Smaller(r.after + Window, sequence)
<1>1. h \in 0 .. MaxSequence /\ events = Recent(selected, h)
  BY NewestType
<1>2. /\ r.after \in 0 .. MaxSequence /\ r.issued \in 1 .. MaxSequence
      /\ sequence \in 1 .. MaxSequence /\ r.issued <= sequence
  BY InFlightType, ReadType
<1>3. r.match = selected
  BY DEF RequestInv
<1>4. r.after <= h \/ r.after + Window <= r.issued
  BY DEF TimelineInv, Adjoins
<1> HIDE DEF h
<1>5. /\ h \in Nat /\ r.after \in Nat /\ sequence \in Nat
      /\ r.after <= h \/ r.after + Window <= sequence
  BY <1>1, <1>2, <1>4, Bounds
<1>6. MergeEvents(Recent(selected, h), Page(selected, r.after, sequence))
        = Recent(selected, Larger(h, p))
  BY <1>5, PageMerged
<1>7. /\ Larger(h, p) \in 0 .. MaxSequence /\ h <= Larger(h, p)
      /\ \A k \in Nat : k <= r.after + Window /\ k <= r.issued => k <= Larger(h, p)
  BY <1>1, <1>2, Bounds DEF Larger, Smaller
<1> QED
  BY <1>1, <1>3, <1>6, <1>7 DEF h

-----------------------------------------------------------------------------
(* The timeline, step by step *)

\* A timeline that is replaced by a window that does not end earlier stays one that
\* every open request adjoins.
LEMMA TimelineKept ==
  ASSUME TypeOK, TimelineInv, selected' = selected, session' = session,
         NEW n \in 0 .. MaxSequence, events' = Recent(selected, n),
         NewestSequence(events) <= n,
         \A r \in InFlight' \ InFlight : Adjoins(r, n)
  PROVE  TimelineInv' /\ NewestSequence(events)' = n
<1>1. n \in Nat /\ NewestSequence(events) \in Nat
  BY NewestType, Bounds
<1>2. NewestSequence(events') = n
  BY <1>1, NewestOfRecent
<1>3. ASSUME NEW r \in InFlight', Active(r)'
      PROVE  Adjoins(r, n)
  <2>1. CASE r \in InFlight
    <3>1. Adjoins(r, NewestSequence(events))
      BY <1>3, <2>1 DEF TimelineInv, Active
    <3>2. r.after \in Nat
      BY <2>1, InFlightType
    <3> QED
      BY <1>1, <3>1, <3>2 DEF Adjoins
  <2> QED
    BY <1>3, <2>1
<1> QED
  BY <1>2, <1>3 DEF TimelineInv, Adjoins

\* So does a timeline that is left alone.
LEMMA TimelineUntouched ==
  ASSUME TypeOK, TimelineInv, selected' = selected, session' = session, events' = events,
         \A r \in InFlight' \ InFlight : Adjoins(r, NewestSequence(events))
  PROVE  TimelineInv' /\ NewestSequence(events)' = NewestSequence(events)
<1>1. /\ NewestSequence(events) \in 0 .. MaxSequence
      /\ events = Recent(selected, NewestSequence(events))
  BY NewestType
<1>2. NewestSequence(events) <= NewestSequence(events)
  BY <1>1
<1>3. events' = Recent(selected, NewestSequence(events))
  BY <1>1
<1> DEFINE n == NewestSequence(events)
<1> HIDE DEF n
<1>4. TimelineInv'
  BY <1>1, <1>2, <1>3, TimelineKept
<1> QED
  BY <1>4

\* Every step keeps the timeline whole, and within a session it gets no shorter.
LEMMA TimelineStep ==
  ASSUME SessionInv, [Next]_vars
  PROVE  TimelineInv' /\ (session' = session => NewestSequence(events) <= NewestSequence(events)')
<1> DEFINE h == NewestSequence(events)
           Grows == session' = session => h <= NewestSequence(events)'
<1>0. TypeOK /\ RequestInv /\ SocketInv /\ FreshInv /\ TimelineInv
  BY DEF SessionInv
<1>h. h \in 0 .. MaxSequence /\ events = Recent(selected, h) /\ h \in Int
  BY <1>0, NewestType
<1>1. ASSUME NEW m \in Matches, Select(m)
      PROVE  TimelineInv' /\ Grows
  <2>1. /\ events' = {} /\ selected' = m /\ session' = session + 1
        /\ Issue(Initial(m, session + 1))
    BY <1>1 DEF Select, Fresh
  <2>2. {} = Recent(m, 0)
    <3>1. WindowStart(0) \in 0 .. 0
      BY WindowStartValue
    <3> QED
      BY <3>1 DEF Recent, Stretch
  <2>3. \E n \in 0 .. MaxSequence : events' = Recent(selected', n)
    BY <2>1, <2>2, Bounds
  <2>4. InFlight' = InFlight \cup {Initial(m, session + 1)}
    BY <1>0, <2>1, Issued
  <2>5. session \in 1 .. MaxSessions /\ \A r \in InFlight : r.session <= session /\ r.session \in Int
    BY <1>0, InFlightType DEF RequestInv, TypeOK
  <2>6. \A r \in InFlight' : Active(r)' => r = Initial(m, session + 1)
    BY <2>1, <2>4, <2>5 DEF Active
  <2>7. \A r \in InFlight' : Active(r)' => r.purpose \notin Loads
    BY <2>6 DEF Initial, Loads
  <2>8. TimelineInv'
    BY <2>3, <2>7 DEF TimelineInv, Adjoins
  <2> QED
    BY <2>1, <2>5, <2>8
<1>2. CASE /\ UNCHANGED <<selected, session, events>>
           /\ InFlight' \subseteq InFlight
  <2>0. \A p \in InFlight' \ InFlight : Adjoins(p, h)
    BY <1>2
  <2>1. TimelineInv' /\ NewestSequence(events)' = h
    BY <1>0, <1>2, <2>0, TimelineUntouched
  <2> QED
    BY <1>h, <2>1
<1>3. ASSUME NEW r \in InFlight, NEW sequence \in Read(r), InitialAnswered(r, sequence)
      PROVE  TimelineInv' /\ Grows
  <2>1. sequence \in 1 .. MaxSequence /\ sequence <= latest[r.match] /\ r.match = selected
    BY <1>0, <1>3, ReadType DEF InitialAnswered, RequestInv
  <2> DEFINE q == Request("window", WindowStart(sequence))
  <2>2. /\ WindowStart(sequence) \in 0 .. MaxSequence
        /\ WindowStart(sequence) = 0 \/ WindowStart(sequence) + Window = sequence
    BY <2>1, WindowStartType
  <2>3. q.after = WindowStart(sequence) /\ q.issued = latest[selected]
    BY DEF Request
  <2>4. requests' = Done(r) (+) SetToBag({q}) /\ UNCHANGED <<selected, session, events>>
    BY <1>3 DEF InitialAnswered
  <2>5. InFlight' \subseteq InFlight \cup {q}
    BY <1>0, <2>4, EndedAndIssued
  <2>6. Adjoins(q, h)
    BY <1>h, <2>1, <2>2, <2>3 DEF Adjoins
  <2> HIDE DEF q
  <2>7. \A p \in InFlight' \ InFlight : Adjoins(p, h)
    BY <2>5, <2>6
  <2>8. TimelineInv' /\ NewestSequence(events)' = h
    BY <1>0, <2>4, <2>7, TimelineUntouched
  <2> QED
    BY <1>h, <2>8
<1>4. ASSUME NEW r \in InFlight, NEW incoming, requests' = Done(r),
             UNCHANGED <<selected, session>>, events' = MergeEvents(events, incoming),
             NEW n \in 0 .. MaxSequence, MergeEvents(events, incoming) = Recent(selected, n),
             h <= n
      PROVE  TimelineInv' /\ Grows
  <2>1. \A p \in InFlight' \ InFlight : Adjoins(p, n)
    BY <1>0, <1>4, Ended
  <2>2. TimelineInv' /\ NewestSequence(events)' = n
    BY <1>0, <1>4, <2>1, TimelineKept
  <2> QED
    BY <1>4, <2>2
<1>5. ASSUME NEW r \in InFlight, NEW sequence \in Read(r), EventsAnswered(r, sequence)
      PROVE  TimelineInv' /\ Grows
  <2>1. /\ Active(r) /\ r.purpose \in Loads /\ requests' = Done(r)
        /\ UNCHANGED <<selected, session>>
        /\ events' = MergeEvents(events, Page(r.match, r.after, sequence))
    BY <1>5 DEF EventsAnswered, WindowLoaded, Loads
  <2>2. PICK n \in 0 .. MaxSequence :
          /\ MergeEvents(events, Page(r.match, r.after, sequence)) = Recent(selected, n)
          /\ h <= n
    BY <1>0, <2>1, PageTaken
  <2> QED
    BY <1>4, <2>1, <2>2
<1>6. ASSUME NEW r \in InFlight, NEW sequence \in Read(r), ReconcileAnswered(r, sequence)
      PROVE  TimelineInv' /\ Grows
  <2> DEFINE q == Request("history", h)
  <2>1. requests' = Done(r) (+) SetToBag({q}) /\ UNCHANGED <<selected, session, events>>
    BY <1>6 DEF ReconcileAnswered
  <2>2. Adjoins(q, h)
    BY <1>h DEF Request, Adjoins
  <2>3. InFlight' \subseteq InFlight \cup {q}
    BY <1>0, <2>1, EndedAndIssued
  <2> HIDE DEF q
  <2>4. \A p \in InFlight' \ InFlight : Adjoins(p, h)
    BY <2>2, <2>3
  <2>5. TimelineInv' /\ NewestSequence(events)' = h
    BY <1>0, <2>1, <2>4, TimelineUntouched
  <2> QED
    BY <1>h, <2>5
<1>7. ASSUME NEW r \in InFlight, RequestFails(r)
      PROVE  TimelineInv' /\ Grows
  <2>1. requests' = Done(r) /\ UNCHANGED <<selected, session>>
    BY <1>7 DEF RequestFails
  <2>2. events' = events \/ events' = MergeEvents(events, {})
    BY <1>7 DEF RequestFails, WindowLoaded
  <2>3. MergeEvents(events, {}) = Recent(selected, h)
    <3>1. h \in Nat
      BY <1>h
    <3> QED
      BY <1>h, <3>1, NothingMerged
  <2>4. events' = MergeEvents(events, {})
    BY <1>h, <2>2, <2>3
  <2>5. h <= h
    BY <1>h
  <2> HIDE DEF h
  <2> QED
    BY <1>4, <1>h, <2>1, <2>3, <2>4, <2>5
<1>8. ASSUME NEW r \in InFlight, TooLate(r)
      PROVE  TimelineInv' /\ Grows
  <2>1. UNCHANGED <<selected, session, events>> /\ requests' = Done(r)
    BY <1>8 DEF TooLate, view
  <2>2. InFlight' \subseteq InFlight
    BY <1>0, <2>1, Ended
  <2> QED
    BY <1>2, <2>1, <2>2
<1>9. CASE HandleMessage
  <2> DEFINE n == Head(inbox).sequence
             q1 == Request("history", WindowStart(n))
             q2 == Request("reconcile", 0)
             q3 == Request("history", h)
  <2>1. n \in 1 .. MaxSequence /\ n <= latest[selected]
    BY <1>0, <1>9, HeadType DEF HandleMessage
  <2>2. /\ WindowStart(n) \in 0 .. MaxSequence
        /\ WindowStart(n) = 0 \/ WindowStart(n) + Window = n
    BY <2>1, WindowStartType
  <2>3. UNCHANGED <<selected, session, events>>
    BY <1>9 DEF HandleMessage
  <2>4. Issue(q1) \/ Issue(q2) \/ Issue(q3) \/ UNCHANGED requests
    BY <1>9 DEF HandleMessage, HandleSnapshot, HandleUpdate
  <2>5. Adjoins(q1, h)
    BY <1>h, <2>1, <2>2 DEF Request, Adjoins
  <2>6. Adjoins(q2, h) /\ Adjoins(q3, h)
    BY <1>h DEF Request, Loads, Adjoins
  <2> HIDE DEF q1, q2, q3
  <2>7. \E q \in {q1, q2, q3} : InFlight' \subseteq InFlight \cup {q}
    <3>1. ASSUME NEW q, Issue(q)
          PROVE  InFlight' \subseteq InFlight \cup {q}
      BY <1>0, <3>1, Issued
    <3>2. UNCHANGED requests => InFlight' \subseteq InFlight \cup {q1}
      BY DEF InFlight
    <3> QED
      BY <2>4, <3>1, <3>2
  <2>8. \A p \in InFlight' \ InFlight : Adjoins(p, h)
    BY <2>5, <2>6, <2>7
  <2>9. TimelineInv' /\ NewestSequence(events)' = h
    BY <1>0, <2>3, <2>8, TimelineUntouched
  <2> QED
    BY <1>h, <2>9
<1>10. CASE \/ \E m \in Matches : Commit(m)
            \/ SendSnapshot \/ SendUpdate \/ SocketCloses \/ Reconnect
            \/ UNCHANGED vars
  <2>1. UNCHANGED <<selected, session, events, requests>>
    BY <1>10 DEF Commit, SendSnapshot, SendUpdate, Send, SocketCloses, Reconnect, vars, view
  <2> QED
    BY <1>2, <2>1 DEF InFlight
<1> QED
  BY <1>1, <1>3, <1>5, <1>6, <1>7, <1>8, <1>9, <1>10 DEF Next, Answered

-----------------------------------------------------------------------------
(* The requests in flight, step by step *)

\* Requests keep their types when the stored state advances and new ones come from
\* Request.
LEMMA RequestsKept ==
  ASSUME TypeOK, RequestInv, selected' = selected, session' = session,
         \A m \in Matches : latest[m] <= latest'[m] /\ latest'[m] \in Int,
         IsABag(requests)',
         \A r \in InFlight' \ InFlight :
           \E purpose \in Purposes, after \in 0 .. MaxSequence : r = Request(purpose, after)
  PROVE  RequestInv' /\ InFlight' \subseteq HttpRequest
<1>1. selected \in Matches /\ session \in 1 .. MaxSessions /\ latest \in [Matches -> 1 .. MaxSequence]
  BY DEF TypeOK
<1>2. ASSUME NEW r \in InFlight'
      PROVE  /\ r \in HttpRequest
             /\ r.session <= session /\ r.issued <= latest'[r.match]
             /\ Active(r) => r.match = selected
  <2>1. CASE r \in InFlight
    <3>1. r \in HttpRequest /\ r.match \in Matches /\ r.issued \in 1 .. MaxSequence
      BY <2>1, InFlightType
    <3>2. r.session <= session /\ r.issued <= latest[r.match] /\ (Active(r) => r.match = selected)
      BY <2>1 DEF RequestInv
    <3>3. latest[r.match] <= latest'[r.match] /\ latest'[r.match] \in Int
      BY <3>1
    <3>4. latest[r.match] \in Int /\ r.issued \in Int
      BY <1>1, <3>1
    <3> QED
      BY <3>1, <3>2, <3>3, <3>4
  <2>2. CASE r \notin InFlight
    <3>1. PICK purpose \in Purposes, after \in 0 .. MaxSequence : r = Request(purpose, after)
      BY <2>2
    <3>2. /\ r \in HttpRequest /\ r.issued = latest[selected]
          /\ r.match = selected /\ r.session = session
      BY <3>1, RequestType
    <3> QED
      BY <1>1, <3>2
  <2> QED
    BY <2>1, <2>2
<1> QED
  BY <1>2 DEF RequestInv, Active

\* Every step keeps the requests' invariant.
LEMMA RequestStep ==
  ASSUME SessionInv, [Next]_vars
  PROVE  RequestInv' /\ InFlight' \subseteq HttpRequest
<1> DEFINE Asked(r) ==
             \E purpose \in Purposes, after \in 0 .. MaxSequence : r = Request(purpose, after)
<1>0. TypeOK /\ RequestInv /\ SocketInv /\ FreshInv /\ TimelineInv
  BY DEF SessionInv
<1>t. latest \in [Matches -> 1 .. MaxSequence] /\ session \in 1 .. MaxSessions /\ selected \in Matches
  BY <1>0 DEF TypeOK
<1>h. NewestSequence(events) \in 0 .. MaxSequence
  BY <1>0, NewestType
<1>1. ASSUME NEW m \in Matches, Select(m)
      PROVE  RequestInv' /\ InFlight' \subseteq HttpRequest
  <2> DEFINE q == Initial(m, session + 1)
  <2>1. /\ selected' = m /\ session' = session + 1 /\ session < MaxSessions
        /\ latest' = latest /\ Issue(q)
    BY <1>1 DEF Select, Fresh
  <2>2. IsABag(requests)' /\ InFlight' = InFlight \cup {q}
    BY <1>0, <2>1, Issued
  <2>3. /\ q \in HttpRequest /\ q.session = session' /\ q.match = selected'
        /\ q.issued = latest'[q.match]
    BY <1>t, <2>1, Bounds DEF Initial, HttpRequest, Purposes
  <2>4. q.issued \in Int
    BY <1>t DEF Initial
  <2>5. \A r \in InFlight : /\ r \in HttpRequest /\ r.session \in Int
                            /\ r.session <= session /\ r.issued <= latest[r.match]
    BY <1>0, InFlightType DEF RequestInv
  <2> HIDE DEF q
  <2>6. \A r \in InFlight' : r.session <= session' /\ r.issued <= latest'[r.match]
    BY <1>t, <2>1, <2>2, <2>3, <2>4, <2>5
  <2>7. \A r \in InFlight' : Active(r)' => r = q
    BY <1>t, <2>1, <2>2, <2>5 DEF Active
  <2> QED
    BY <2>2, <2>3, <2>5, <2>6, <2>7 DEF RequestInv
<1>2. CASE /\ UNCHANGED <<selected, session>>
           /\ latest' = latest \/ \E m \in Matches : Commit(m)
           /\ IsABag(requests)'
           /\ \A r \in InFlight' \ InFlight : Asked(r)
  <2>1. \A m \in Matches : latest[m] <= latest'[m] /\ latest'[m] \in Int
    BY <1>t, <1>2 DEF Commit
  <2> QED
    BY <1>0, <1>2, <2>1, RequestsKept
<1>3. ASSUME NEW r \in InFlight, NEW sequence \in Read(r), InitialAnswered(r, sequence)
      PROVE  RequestInv' /\ InFlight' \subseteq HttpRequest
  <2>1. sequence \in 1 .. MaxSequence
    BY <1>0, ReadType
  <2>2. WindowStart(sequence) \in 0 .. MaxSequence
    BY <2>1, WindowStartType
  <2> DEFINE q == Request("window", WindowStart(sequence))
  <2>3. Asked(q)
    BY <2>2 DEF Purposes
  <2>4. requests' = Done(r) (+) SetToBag({q}) /\ UNCHANGED <<selected, session, latest>>
    BY <1>3 DEF InitialAnswered
  <2> HIDE DEF q
  <2>5. IsABag(requests)' /\ InFlight' \subseteq InFlight \cup {q}
    BY <1>0, <2>4, EndedAndIssued
  <2> QED
    BY <1>2, <2>3, <2>4, <2>5
<1>4. ASSUME NEW r \in InFlight, requests' = Done(r), UNCHANGED <<selected, session, latest>>
      PROVE  RequestInv' /\ InFlight' \subseteq HttpRequest
  <2>1. IsABag(requests)' /\ InFlight' \subseteq InFlight
    BY <1>0, <1>4, Ended
  <2> QED
    BY <1>2, <1>4, <2>1
<1>5. ASSUME NEW r \in InFlight, NEW sequence \in Read(r), EventsAnswered(r, sequence)
      PROVE  requests' = Done(r) /\ UNCHANGED <<selected, session, latest>>
  BY <1>5 DEF EventsAnswered
<1>6. ASSUME NEW r \in InFlight, NEW sequence \in Read(r), ReconcileAnswered(r, sequence)
      PROVE  RequestInv' /\ InFlight' \subseteq HttpRequest
  <2> DEFINE q == Request("history", NewestSequence(events))
  <2>1. Asked(q)
    BY <1>h DEF Purposes
  <2>2. requests' = Done(r) (+) SetToBag({q}) /\ UNCHANGED <<selected, session, latest>>
    BY <1>6 DEF ReconcileAnswered
  <2> HIDE DEF q
  <2>3. IsABag(requests)' /\ InFlight' \subseteq InFlight \cup {q}
    BY <1>0, <2>2, EndedAndIssued
  <2> QED
    BY <1>2, <2>1, <2>2, <2>3
<1>7. ASSUME NEW r \in InFlight, RequestFails(r) \/ TooLate(r)
      PROVE  requests' = Done(r) /\ UNCHANGED <<selected, session, latest>>
  BY <1>7 DEF RequestFails, TooLate
<1>8. CASE HandleMessage
  <2> DEFINE n == Head(inbox).sequence
  <2>1. n \in 1 .. MaxSequence
    BY <1>0, <1>8, HeadType DEF HandleMessage
  <2>2. WindowStart(n) \in 0 .. MaxSequence
    BY <2>1, WindowStartType
  <2>3. UNCHANGED <<selected, session, latest>>
    BY <1>8 DEF HandleMessage
  <2>4. (\E q : Asked(q) /\ Issue(q)) \/ UNCHANGED requests
    <3>1. 0 \in 0 .. MaxSequence
      BY Bounds
    <3> QED
      BY <1>8, <1>h, <2>2, <3>1 DEF HandleMessage, HandleSnapshot, HandleUpdate, Purposes
  <2>5. CASE \E q : Asked(q) /\ Issue(q)
    <3>1. PICK q : Asked(q) /\ Issue(q)
      BY <2>5
    <3>2. IsABag(requests)' /\ InFlight' = InFlight \cup {q}
      BY <1>0, <3>1, Issued
    <3> QED
      BY <1>2, <2>3, <3>1, <3>2
  <2>6. CASE UNCHANGED requests
    BY <1>0, <1>2, <2>3, <2>6 DEF InFlight, RequestInv
  <2> QED
    BY <2>4, <2>5, <2>6
<1>9. CASE \/ \E m \in Matches : Commit(m)
           \/ SendSnapshot \/ SendUpdate \/ SocketCloses \/ Reconnect
           \/ UNCHANGED vars
  <2>1. UNCHANGED <<selected, session, requests>>
    BY <1>9 DEF Commit, SendSnapshot, SendUpdate, Send, SocketCloses, Reconnect, vars
  <2>2. latest' = latest \/ \E m \in Matches : Commit(m)
    BY <1>9 DEF SendSnapshot, SendUpdate, Send, SocketCloses, Reconnect, vars
  <2> QED
    BY <1>0, <1>2, <2>1, <2>2 DEF InFlight, RequestInv
<1> QED
  BY <1>1, <1>3, <1>4, <1>5, <1>6, <1>7, <1>8, <1>9 DEF Next, Answered

-----------------------------------------------------------------------------
(* One request at a time until the socket is opened *)

Early(r) == Active(r) /\ r.purpose \in {"initial", "window"}

\* Once a socket is open, or another request of the session is answered, the
\* initial load is over.
LEMMA EarlyOver ==
  ASSUME TypeOK, EarlyInv,
         socket # "none" \/ \E r \in InFlight : Active(r) /\ r.purpose \in {"reconcile", "history"}
  PROVE  \A r \in InFlight : ~Early(r)
BY DEF EarlyInv, Early

\* Early requests concern nobody once a state is shown, or no request is of this session.
LEMMA NobodyEarly ==
  ASSUME \A r \in InFlight' : ~Early(r)', state' # None \/ \A r \in InFlight' : ~Active(r)'
  PROVE  EarlyInv'
BY DEF EarlyInv, Early

\* Every step keeps the invariant of the requests before the first state.
LEMMA EarlyStep ==
  ASSUME SessionInv, [Next]_vars
  PROVE  EarlyInv'
<1>0. TypeOK /\ RequestInv /\ SocketInv /\ EarlyInv
  BY DEF SessionInv
<1>1. ASSUME NEW m \in Matches, Select(m)
      PROVE  EarlyInv'
  <2> DEFINE q == Initial(m, session + 1)
  <2>1. /\ session' = session + 1 /\ state' = None /\ socket' = "none" /\ Issue(q)
    BY <1>1 DEF Select, Fresh
  <2>2. session \in Int /\ \A r \in InFlight : r.session \in Int /\ r.session <= session
    BY <1>0, InFlightType, Bounds DEF RequestInv, TypeOK
  <2>3. q.session = session' /\ q.purpose = "initial"
    BY <2>1 DEF Initial
  <2> HIDE DEF q
  <2>4. q \notin InFlight
    BY <2>1, <2>2, <2>3
  <2>5. InFlight' = InFlight \cup {q} /\ requests'[q] = 1
    BY <1>0, <2>1, <2>4, Issued
  <2>6. \A r \in InFlight' : Active(r)' => r = q
    BY <2>1, <2>2, <2>5 DEF Active
  <2> QED
    BY <2>1, <2>3, <2>5, <2>6 DEF EarlyInv
<1>2. ASSUME NEW r \in InFlight, NEW sequence \in Read(r), InitialAnswered(r, sequence)
      PROVE  EarlyInv'
  <2> DEFINE q == Request("window", WindowStart(sequence))
  <2>1. /\ Active(r) /\ r.purpose = "initial"
        /\ state' = [match |-> r.match, sequence |-> sequence]
        /\ UNCHANGED <<session, socket>>
        /\ requests' = Done(r) (+) SetToBag({q})
    BY <1>2 DEF InitialAnswered, connection
  <2>2. state' # None
    <3>1. state' \in Event
      BY <1>0, <2>1, ReadType, InFlightType DEF Event
    <3> QED
      BY <3>1, Bounds
  <2>3. q.purpose = "window" /\ Active(q)
    BY DEF Request, Active
  <2> HIDE DEF q
  <2>4. requests[r] = 1 /\ socket = "none" /\ \A p \in InFlight : Active(p) => p = r
    BY <1>0, <2>1 DEF EarlyInv
  <2>5. q \notin InFlight /\ q # r
    BY <2>1, <2>3, <2>4
  <2>6. /\ InFlight' \subseteq InFlight \cup {q}
        /\ r \notin InFlight' /\ requests'[q] = 1
    BY <1>0, <2>1, <2>4, <2>5, EndedAndIssued
  <2>7. \A p \in InFlight' : Active(p)' => p = q
    BY <2>1, <2>4, <2>6 DEF Active
  <2> QED
    BY <2>1, <2>2, <2>3, <2>4, <2>6, <2>7 DEF EarlyInv
<1>3. ASSUME NEW r \in InFlight, Active(r), requests' = Done(r), UNCHANGED <<state, session>>
      PROVE  EarlyInv'
  <2>1. /\ InFlight' \subseteq InFlight
        /\ requests[r] = 1 => r \notin InFlight'
    BY <1>0, <1>3, Ended
  <2>2. CASE Early(r)
    <3>1. \A p \in InFlight' : ~Active(p)'
      BY <1>0, <1>3, <2>1, <2>2 DEF EarlyInv, Early, Active
    <3> QED
      BY <3>1, NobodyEarly DEF Early
  <2>3. CASE ~Early(r)
    <3>1. r.purpose \in {"reconcile", "history"}
      BY <1>0, <1>3, <2>3, InFlightType DEF Early, Purposes
    <3>2. \A p \in InFlight : ~Early(p)
      BY <1>0, <1>3, <3>1, EarlyOver
    <3>3. state # None
      BY <1>0, <1>3, <3>1 DEF EarlyInv
    <3>4. \A p \in InFlight' : ~Early(p)'
      BY <1>3, <2>1, <3>2 DEF Early, Active
    <3> QED
      BY <1>3, <3>3, <3>4, NobodyEarly
  <2> QED
    BY <2>2, <2>3
<1>4. ASSUME NEW r \in InFlight, NEW sequence \in Read(r), EventsAnswered(r, sequence)
      PROVE  EarlyInv'
  BY <1>3, <1>4 DEF EventsAnswered
<1>5. ASSUME NEW r \in InFlight, RequestFails(r)
      PROVE  EarlyInv'
  BY <1>3, <1>5 DEF RequestFails
<1>6. ASSUME NEW q, q.purpose \notin {"initial", "window"}, InFlight' \subseteq InFlight \cup {q},
             session' = session, state' # None, \A r \in InFlight : ~Early(r)
      PROVE  EarlyInv'
  <2>1. \A r \in InFlight' : ~Early(r)'
    BY <1>6 DEF Early, Active
  <2> QED
    BY <1>6, <2>1, NobodyEarly
<1>7. ASSUME NEW r \in InFlight, NEW sequence \in Read(r), ReconcileAnswered(r, sequence)
      PROVE  EarlyInv'
  <2> DEFINE q == Request("history", NewestSequence(events))
  <2>1. /\ Active(r) /\ r.purpose = "reconcile"
        /\ state' = [match |-> r.match, sequence |-> sequence]
        /\ session' = session
        /\ requests' = Done(r) (+) SetToBag({q})
    BY <1>7 DEF ReconcileAnswered
  <2>2. state' # None
    <3>1. state' \in Event
      BY <1>0, <2>1, ReadType, InFlightType DEF Event
    <3> QED
      BY <3>1, Bounds
  <2>3. q.purpose = "history"
    BY DEF Request
  <2> HIDE DEF q
  <2>4. InFlight' \subseteq InFlight \cup {q}
    BY <1>0, <2>1, EndedAndIssued
  <2>5. \A p \in InFlight : ~Early(p)
    BY <1>0, <2>1, EarlyOver
  <2> QED
    BY <1>6, <2>1, <2>2, <2>3, <2>4, <2>5
<1>8. ASSUME NEW r \in InFlight, TooLate(r)
      PROVE  EarlyInv'
  <2>1. requests' = Done(r) /\ ~Active(r) /\ UNCHANGED <<state, session, socket>>
    BY <1>8 DEF TooLate, view, connection
  <2>2. InFlight' \subseteq InFlight /\ \A p \in InFlight' \ {r} : requests'[p] = requests[p]
    BY <1>0, <2>1, Ended
  <2> QED
    BY <1>0, <2>1, <2>2 DEF EarlyInv, Active
<1>9. CASE HandleMessage
  <2> DEFINE n == Head(inbox).sequence
  <2>1. session' = session /\ inbox # <<>>
    BY <1>9 DEF HandleMessage
  <2>2. socket = "open" /\ state # None
    BY <1>0, <2>1 DEF SocketInv
  <2>3. \A p \in InFlight : ~Early(p)
    BY <1>0, <2>2, EarlyOver
  <2>4. state' # None
    <3>1. state' = [match |-> selected, sequence |-> n] \/ state' = state
      BY <1>9 DEF HandleMessage, HandleSnapshot, HandleUpdate, Replace
    <3>2. n \in 1 .. MaxSequence /\ selected \in Matches
      <4>1. inbox \in Seq(Message)
        BY <1>0 DEF SocketInv
      <4>2. Head(inbox) \in Message
        BY <2>1, <4>1
      <4> QED
        BY <1>0, <4>2 DEF Message, TypeOK
    <3>3. [match |-> selected, sequence |-> n] \in Event
      BY <3>2 DEF Event
    <3> QED
      BY <2>2, <3>1, <3>3, Bounds
  <2>5. (\E q : q.purpose \notin {"initial", "window"} /\ Issue(q)) \/ UNCHANGED requests
    <3>1. \E purpose \in {"history", "reconcile"} : \E after : Issue(Request(purpose, after))
          \/ UNCHANGED requests
      BY <1>9 DEF HandleMessage, HandleSnapshot, HandleUpdate
    <3>2. \A purpose \in {"history", "reconcile"} : \A after :
            Request(purpose, after).purpose \notin {"initial", "window"}
      BY DEF Request
    <3> QED
      BY <3>1, <3>2
  <2>6. CASE \E q : q.purpose \notin {"initial", "window"} /\ Issue(q)
    <3>1. PICK q : q.purpose \notin {"initial", "window"} /\ Issue(q)
      BY <2>6
    <3>2. InFlight' = InFlight \cup {q}
      BY <1>0, <3>1, Issued
    <3> QED
      BY <1>6, <2>1, <2>3, <2>4, <3>1, <3>2
  <2>7. CASE UNCHANGED requests
    <3>1. \A p \in InFlight' : ~Early(p)'
      BY <2>1, <2>3, <2>7 DEF InFlight, Early, Active
    <3> QED
      BY <2>4, <3>1, NobodyEarly
  <2> QED
    BY <2>5, <2>6, <2>7
<1>10. CASE SocketCloses \/ Reconnect
  <2>1. socket # "none" /\ UNCHANGED <<state, session, requests>>
    BY <1>10 DEF SocketCloses, Reconnect
  <2>2. \A p \in InFlight' : ~Early(p)'
    BY <1>0, <2>1, EarlyOver DEF InFlight, Early, Active
  <2>3. state' # None
    BY <1>0, <2>1 DEF SocketInv
  <2> QED
    BY <2>2, <2>3, NobodyEarly
<1>11. CASE (\E m \in Matches : Commit(m)) \/ SendSnapshot \/ SendUpdate \/ UNCHANGED vars
  <2>1. UNCHANGED <<state, session, requests, socket>>
    BY <1>11 DEF Commit, SendSnapshot, SendUpdate, Send, vars, view, connection
  <2> QED
    BY <1>0, <2>1 DEF EarlyInv, InFlight, Active
<1> QED
  BY <1>1, <1>2, <1>4, <1>5, <1>7, <1>8, <1>9, <1>10, <1>11 DEF Next, Answered

-----------------------------------------------------------------------------
(* The socket, step by step *)

\* What a step on an open socket may do to the displayed state
LEMMA StateKept ==
  ASSUME SessionInv, HandleMessage
  PROVE  /\ state' # None
         /\ state' = state \/ state' = [match |-> selected, sequence |-> Head(inbox).sequence]
<1>0. TypeOK /\ SocketInv /\ FreshInv /\ inbox # <<>>
  BY DEF SessionInv, HandleMessage
<1>1. /\ Head(inbox).sequence \in 1 .. MaxSequence /\ state # None
      /\ selected \in Matches
  BY <1>0, HeadType DEF TypeOK
<1>2. state' = [match |-> selected, sequence |-> Head(inbox).sequence] \/ state' = state
  BY DEF HandleMessage, HandleSnapshot, HandleUpdate, Replace
<1>3. [match |-> selected, sequence |-> Head(inbox).sequence] \in Event
  BY <1>1 DEF Event
<1> QED
  BY <1>1, <1>2, <1>3, Bounds

\* An empty inbox.
LEMMA NoMessages ==
  /\ <<>> \in Seq(Message) /\ Len(<<>>) = 0
  /\ DOMAIN <<>> = {} /\ \A i \in 2 .. 0 : FALSE
OBVIOUS

\* Every step keeps the invariant of the socket and its messages.
LEMMA SocketStep ==
  ASSUME SessionInv, [Next]_vars
  PROVE  SocketInv'
<1>0. TypeOK /\ RequestInv /\ SocketInv /\ EarlyInv /\ FreshInv
  BY DEF SessionInv
<1>1. CASE \E m \in Matches : Select(m)
  <2>1. inbox' = <<>> /\ socket' = "none"
    BY <1>1 DEF Select, Fresh
  <2> QED
    BY <2>1, NoMessages DEF SocketInv
<1>2. ASSUME NEW r \in InFlight, NEW sequence \in Read(r),
             InitialAnswered(r, sequence) \/ ReconcileAnswered(r, sequence)
      PROVE  SocketInv'
  <2>1. /\ state' = [match |-> r.match, sequence |-> sequence]
        /\ UNCHANGED <<inbox, socket, sent, attempts>>
    BY <1>2 DEF InitialAnswered, ReconcileAnswered, connection
  <2>2. state' \in Event
    BY <1>0, <2>1, ReadType, InFlightType DEF Event
  <2> QED
    BY <1>0, <2>1, <2>2, Bounds DEF SocketInv
<1>3. ASSUME Open, UNCHANGED <<state, attempts>>, state # None
      PROVE  SocketInv'
  <2>1. inbox' = <<>> /\ socket' = "open" /\ state' # None
    BY <1>3 DEF Open
  <2> QED
    BY <2>1, NoMessages DEF SocketInv
<1>4. ASSUME UNCHANGED <<state, attempts, inbox, socket, sent>>
      PROVE  SocketInv'
  BY <1>0, <1>4 DEF SocketInv
<1>5. ASSUME NEW r \in InFlight, NEW incoming, Active(r), WindowLoaded(r, incoming),
             UNCHANGED <<state, attempts>>
      PROVE  SocketInv'
  <2>1. state # None /\ Open
    BY <1>0, <1>5 DEF EarlyInv, WindowLoaded
  <2> QED
    BY <1>3, <1>5, <2>1
<1>6. ASSUME NEW r \in InFlight, NEW sequence \in Read(r), EventsAnswered(r, sequence)
      PROVE  SocketInv'
  <2>1. UNCHANGED <<state, attempts>> /\ Active(r)
    BY <1>6 DEF EventsAnswered
  <2>2. WindowLoaded(r, Page(r.match, r.after, sequence)) \/ UNCHANGED <<inbox, socket, sent>>
    BY <1>6 DEF EventsAnswered, connection
  <2> QED
    BY <1>4, <1>5, <2>1, <2>2
<1>7. ASSUME NEW r \in InFlight, RequestFails(r)
      PROVE  SocketInv'
  <2>1. UNCHANGED <<state, attempts>> /\ Active(r)
    BY <1>7 DEF RequestFails
  <2>2. WindowLoaded(r, {}) \/ UNCHANGED <<inbox, socket, sent>>
    BY <1>7 DEF RequestFails, connection
  <2> QED
    BY <1>4, <1>5, <2>1, <2>2
<1>8. ASSUME NEW type \in {"snapshot", "state_update"}, Send(type),
             type = "snapshot" => sent = None
      PROVE  SocketInv'
  <2> DEFINE message == [type |-> type, sequence |-> latest[selected]]
  <2>1. /\ inbox' = Append(inbox, message) /\ socket = "open" /\ sent' = latest[selected]
        /\ UNCHANGED <<state, attempts, socket>>
    BY <1>8 DEF Send, view
  <2>2. latest[selected] \in 1 .. MaxSequence
    BY <1>0 DEF TypeOK
  <2>3. message \in Message
    BY <2>2 DEF Message
  <2>4. inbox \in Seq(Message) /\ Len(inbox) \in Nat
    BY <1>0 DEF SocketInv
  <2>5. type = "snapshot" => Len(inbox) = 0
    BY <1>0, <1>8 DEF SocketInv
  <2>6. message.type = type
    OBVIOUS
  <2> HIDE DEF message
  <2>7. /\ inbox' \in Seq(Message) /\ Len(inbox') = Len(inbox) + 1
        /\ \A i \in 1 .. Len(inbox) : inbox'[i] = inbox[i]
        /\ inbox'[Len(inbox) + 1] = message
    BY <2>1, <2>3, <2>4
  <2>8. ASSUME NEW i \in 2 .. Len(inbox')
        PROVE  inbox'[i].type = "state_update"
    <3>1. CASE i \in 2 .. Len(inbox)
      <4>1. inbox'[i] = inbox[i]
        BY <2>4, <2>7, <3>1
      <4> QED
        BY <1>0, <3>1, <4>1 DEF SocketInv
    <3>2. CASE i \notin 2 .. Len(inbox)
      <4>1. i = Len(inbox) + 1 /\ Len(inbox) # 0
        BY <2>4, <2>7, <3>2
      <4>2. inbox'[i] = message /\ type # "snapshot"
        BY <2>5, <2>7, <4>1
      <4> QED
        BY <2>6, <4>2
    <3> QED
      BY <3>1, <3>2
  <2>9. sent' # None
    BY <2>1, <2>2, Bounds
  <2> QED
    BY <1>0, <2>1, <2>7, <2>8, <2>9 DEF SocketInv
<1>9. CASE HandleMessage
  <2>1. /\ inbox # <<>> /\ inbox' = Tail(inbox) /\ UNCHANGED <<socket, sent, attempts>>
        /\ state' # None
    BY <1>9, StateKept DEF HandleMessage
  <2>2. /\ inbox \in Seq(Message) /\ Len(inbox) \in Nat
        /\ \A i \in 2 .. Len(inbox) : inbox[i].type = "state_update"
        /\ socket = "open" /\ sent # None
    BY <1>0, <2>1 DEF SocketInv
  <2>3. /\ inbox' \in Seq(Message) /\ Len(inbox') = Len(inbox) - 1
        /\ \A i \in 1 .. Len(inbox) - 1 : inbox'[i] = inbox[i + 1]
    BY <2>1, <2>2
  <2>4. ASSUME NEW i \in 2 .. Len(inbox')
        PROVE  inbox'[i].type = "state_update"
    <3>1. i \in 1 .. Len(inbox) - 1 /\ i + 1 \in 2 .. Len(inbox)
      BY <2>2, <2>3
    <3> QED
      BY <2>2, <2>3, <3>1
  <2> QED
    BY <1>0, <2>1, <2>2, <2>3, <2>4 DEF SocketInv
<1>10. CASE SocketCloses
  <2>1. inbox' = <<>> /\ state' = state /\ socket = "open"
    BY <1>10 DEF SocketCloses
  <2>2. socket' = "waiting" => attempts' = attempts + 1
    BY <1>10 DEF SocketCloses
  <2>3. attempts \in Nat
    BY <1>0, Bounds DEF TypeOK
  <2> QED
    BY <1>0, <2>1, <2>2, <2>3, NoMessages DEF SocketInv
<1>11. CASE Reconnect
  <2>1. Open /\ UNCHANGED <<state, attempts>> /\ socket = "waiting"
    BY <1>11 DEF Reconnect
  <2> QED
    BY <1>0, <1>3, <2>1 DEF SocketInv
<1>12. CASE (\E m \in Matches : Commit(m)) \/ (\E r \in InFlight : TooLate(r)) \/ UNCHANGED vars
  <2>1. UNCHANGED <<state, attempts, inbox, socket, sent>>
    BY <1>12 DEF Commit, TooLate, vars, view, connection
  <2> QED
    BY <1>4, <2>1
<1>13. SendSnapshot \/ SendUpdate => SocketInv'
  BY <1>8 DEF SendSnapshot, SendUpdate
<1> QED
  BY <1>1, <1>2, <1>6, <1>7, <1>9, <1>10, <1>11, <1>12, <1>13 DEF Next, Answered

-----------------------------------------------------------------------------
(* What has been seen of the database, step by step *)

\* The same state and messages, in a database that has only grown
LEMMA FreshKept ==
  ASSUME TypeOK, FreshInv, UNCHANGED <<state, selected, session, attempts, socket, inbox, sent>>,
         InFlight' \subseteq InFlight,
         latest' = latest \/ \E m \in Matches : Commit(m),
         SocketInv
  PROVE  FreshInv'
<1>1. latest \in [Matches -> 1 .. MaxSequence] /\ selected \in Matches
  BY DEF TypeOK
<1>2. latest[selected] <= latest'[selected] /\ latest'[selected] \in Int /\ latest[selected] \in Int
  BY <1>1 DEF Commit
<1>3. state # None => state.sequence \in Int
  BY DEF TypeOK, Event
<1>4. \A i \in DOMAIN inbox : inbox[i].sequence \in Int
  <2>1. inbox \in Seq(Message)
    BY DEF SocketInv
  <2>2. \A i \in DOMAIN inbox : inbox[i] \in Message
    BY <2>1
  <2> QED
    BY <2>2 DEF Message
<1>5. SnapshotDue' => SnapshotDue
  BY DEF SnapshotDue
<1> QED
  BY <1>2, <1>3, <1>4, <1>5 DEF FreshInv, Active

\* Every step keeps the invariant that what is on its way is not newer than what is
\* stored.
LEMMA FreshStep ==
  ASSUME SessionInv, [Next]_vars
  PROVE  FreshInv'
<1>0. TypeOK /\ RequestInv /\ SocketInv /\ EarlyInv /\ FreshInv
  BY DEF SessionInv
<1>t. latest[selected] \in 1 .. MaxSequence /\ selected \in Matches
  BY <1>0 DEF TypeOK
<1>1. CASE \E m \in Matches : Select(m)
  <2>1. inbox' = <<>> /\ socket' = "none" /\ state' = None
    BY <1>1 DEF Select, Fresh, NoAttempts
  <2> QED
    BY <2>1, NoMessages DEF FreshInv, SnapshotDue
<1>2. ASSUME NEW r \in InFlight, NEW sequence \in Read(r),
             InitialAnswered(r, sequence) \/ ReconcileAnswered(r, sequence)
      PROVE  FreshInv'
  <2>1. /\ Active(r)
        /\ state' = [match |-> r.match, sequence |-> sequence]
        /\ UNCHANGED <<latest, selected, session, inbox, socket, sent, attempts>>
    BY <1>2 DEF InitialAnswered, ReconcileAnswered, connection
  <2>2. r.match = selected /\ sequence <= latest[selected]
    BY <1>0, <2>1, ReadType DEF RequestInv
  <2>3. ~(attempts = 0 /\ SnapshotDue)
    <3>1. CASE r.purpose = "initial"
      BY <1>0, <2>1, <3>1 DEF EarlyInv, SnapshotDue
    <3>2. CASE r.purpose = "reconcile"
      BY <1>0, <2>1, <3>2 DEF FreshInv
    <3> QED
      BY <1>2, <3>1, <3>2 DEF InitialAnswered, ReconcileAnswered
  <2>4. ~(attempts' = 0 /\ SnapshotDue')
    BY <2>1, <2>3 DEF SnapshotDue
  <2> QED
    BY <1>0, <2>1, <2>2, <2>4 DEF FreshInv
<1>3. ASSUME NEW r \in InFlight, NEW incoming, Active(r), WindowLoaded(r, incoming),
             requests' = Done(r), UNCHANGED <<latest, selected, session, state, attempts>>
      PROVE  FreshInv'
  <2>1. requests[r] = 1 /\ \A q \in InFlight : Active(q) => q = r
    BY <1>0, <1>3 DEF EarlyInv, WindowLoaded
  <2>2. \A q \in InFlight' : ~Active(q)'
    BY <1>0, <1>3, <2>1, Ended DEF Active
  <2>3. inbox' = <<>>
    BY <1>3 DEF WindowLoaded, Open
  <2> QED
    BY <1>0, <1>3, <2>2, <2>3, NoMessages DEF FreshInv
<1>4. ASSUME NEW r \in InFlight, requests' = Done(r), 
             UNCHANGED <<latest, selected, session, state, attempts, connection>>
      PROVE  FreshInv'
  <2>1. InFlight' \subseteq InFlight
    BY <1>0, <1>4, Ended
  <2> QED
    BY <1>0, <1>4, <2>1, FreshKept DEF connection
<1>5. ASSUME NEW r \in InFlight, NEW sequence \in Read(r), EventsAnswered(r, sequence)
      PROVE  FreshInv'
  <2>1. /\ Active(r) /\ requests' = Done(r)
        /\ UNCHANGED <<latest, selected, session, state, attempts>>
    BY <1>5 DEF EventsAnswered
  <2>2. WindowLoaded(r, Page(r.match, r.after, sequence)) \/ UNCHANGED connection
    BY <1>5 DEF EventsAnswered
  <2> QED
    BY <1>3, <1>4, <2>1, <2>2
<1>6. ASSUME NEW r \in InFlight, RequestFails(r)
      PROVE  FreshInv'
  <2>1. /\ Active(r) /\ requests' = Done(r)
        /\ UNCHANGED <<latest, selected, session, state, attempts>>
    BY <1>6 DEF RequestFails
  <2>2. WindowLoaded(r, {}) \/ UNCHANGED connection
    BY <1>6 DEF RequestFails
  <2> QED
    BY <1>3, <1>4, <2>1, <2>2
<1>7. ASSUME NEW r \in InFlight, TooLate(r)
      PROVE  FreshInv'
  BY <1>4, <1>7 DEF TooLate, view
<1>8. ASSUME NEW type \in {"snapshot", "state_update"}, Send(type),
             type = "snapshot" <=> sent = None
      PROVE  FreshInv'
  <2> DEFINE message == [type |-> type, sequence |-> latest[selected]]
  <2>1. /\ inbox' = Append(inbox, message) /\ sent' = latest[selected]
        /\ UNCHANGED <<latest, selected, session, state, attempts, socket, requests>>
        /\ socket = "open"
    BY <1>8 DEF Send, view
  <2>2. inbox \in Seq(Message) /\ Len(inbox) \in Nat /\ (sent = None => inbox = <<>>)
    BY <1>0 DEF SocketInv
  <2>3. message \in Message /\ message.sequence = latest[selected] /\ message.type = type
    BY <1>t DEF Message
  <2> HIDE DEF message
  <2>4. /\ DOMAIN inbox' = 1 .. Len(inbox) + 1 /\ DOMAIN inbox = 1 .. Len(inbox)
        /\ \A i \in 1 .. Len(inbox) : inbox'[i] = inbox[i]
        /\ inbox'[Len(inbox) + 1] = message
        /\ inbox' # <<>> /\ Head(inbox') = inbox'[1]
        /\ inbox # <<>> => Head(inbox) = inbox[1] /\ 1 \in 1 .. Len(inbox)
        /\ inbox = <<>> => inbox'[1] = message
    BY <2>1, <2>2, <2>3
  <2>5. latest[selected] <= latest[selected]
    BY <1>t
  <2>6. \A i \in DOMAIN inbox' : inbox'[i].sequence <= latest'[selected']
    <3> SUFFICES ASSUME NEW i \in 1 .. Len(inbox) + 1
                 PROVE  inbox'[i].sequence <= latest[selected]
      BY <2>1, <2>4
    <3>1. CASE i \in 1 .. Len(inbox)
      <4>1. inbox[i].sequence <= latest[selected]
        BY <1>0, <2>4, <3>1 DEF FreshInv
      <4> QED
        BY <2>4, <3>1, <4>1
    <3>2. CASE i = Len(inbox) + 1
      BY <2>3, <2>4, <2>5, <3>2
    <3> QED
      BY <2>2, <3>1, <3>2
  <2>7. ASSUME attempts' = 0, SnapshotDue'
        PROVE  /\ \A r \in InFlight' : Active(r)' => r.purpose # "reconcile"
               /\ state'.sequence <= Head(inbox').sequence
    <3>1. Head(inbox').type = "snapshot" /\ attempts = 0
      BY <2>1, <2>4, <2>7 DEF SnapshotDue
    <3>2. CASE inbox = <<>>
      <4>1. type = "snapshot" /\ sent = None
        BY <1>8, <2>3, <2>4, <3>1, <3>2
      <4>2. SnapshotDue
        BY <2>1, <3>2, <4>1 DEF SnapshotDue
      <4>3. \A r \in InFlight : Active(r) => r.purpose # "reconcile"
        BY <1>0, <3>1, <4>2 DEF FreshInv
      <4>4. state # None
        BY <1>0, <2>1 DEF SocketInv
      <4>5. state.sequence <= latest[selected]
        BY <1>0, <4>4 DEF FreshInv
      <4> QED
        BY <2>1, <2>3, <2>4, <3>2, <4>3, <4>5 DEF InFlight, Active
    <3>3. CASE inbox # <<>>
      <4>1. Head(inbox') = Head(inbox)
        BY <2>4, <3>3
      <4>2. SnapshotDue
        BY <2>1, <3>1, <3>3, <4>1 DEF SnapshotDue
      <4>3. /\ \A r \in InFlight : Active(r) => r.purpose # "reconcile"
            /\ state.sequence <= Head(inbox).sequence
        BY <1>0, <3>1, <3>3, <4>2 DEF FreshInv
      <4> QED
        BY <2>1, <4>1, <4>3 DEF InFlight, Active
    <3> QED
      BY <3>2, <3>3
  <2> QED
    BY <1>0, <2>1, <2>6, <2>7 DEF FreshInv
<1>9. CASE HandleMessage
  <2>1. /\ inbox # <<>> /\ inbox' = Tail(inbox)
        /\ UNCHANGED <<latest, selected, socket, sent>>
    BY <1>9 DEF HandleMessage
  <2>2. inbox \in Seq(Message) /\ Len(inbox) \in Nat /\ sent # None
    BY <1>0, <2>1 DEF SocketInv
  <2>3. /\ DOMAIN inbox' = 1 .. Len(inbox) - 1 /\ DOMAIN inbox = 1 .. Len(inbox)
        /\ \A i \in 1 .. Len(inbox) - 1 : inbox'[i] = inbox[i + 1] /\ i + 1 \in 1 .. Len(inbox)
        /\ inbox' # <<>> => Head(inbox') = inbox[2] /\ 2 \in 2 .. Len(inbox)
    BY <2>1, <2>2
  <2>4. \A i \in DOMAIN inbox' : inbox'[i].sequence <= latest'[selected']
    BY <1>0, <2>1, <2>3 DEF FreshInv
  <2>5. ~SnapshotDue'
    BY <1>0, <2>1, <2>2, <2>3 DEF SnapshotDue, SocketInv
  <2>6. state' # None => state'.match = selected' /\ state'.sequence <= latest'[selected']
    <3>1. state' = state \/ state' = [match |-> selected, sequence |-> Head(inbox).sequence]
      BY <1>9, StateKept
    <3>2. Head(inbox).sequence <= latest[selected]
      BY <1>0, <2>1, HeadType
    <3> QED
      BY <1>0, <2>1, <3>1, <3>2 DEF FreshInv
  <2> QED
    BY <2>4, <2>5, <2>6 DEF FreshInv
<1>10. CASE SocketCloses
  <2>1. inbox' = <<>> /\ socket' # "open" /\ UNCHANGED <<latest, selected, state>>
    BY <1>10 DEF SocketCloses
  <2> QED
    BY <1>0, <2>1, NoMessages DEF FreshInv, SnapshotDue
<1>11. CASE Reconnect
  <2>1. inbox' = <<>> /\ UNCHANGED <<latest, selected, state, attempts>> /\ socket = "waiting"
    BY <1>11 DEF Reconnect, Open
  <2>2. attempts' # 0
    BY <1>0, <2>1, Bounds DEF SocketInv, TypeOK
  <2> QED
    BY <1>0, <2>1, <2>2, NoMessages DEF FreshInv
<1>12. CASE (\E m \in Matches : Commit(m)) \/ UNCHANGED vars
  <2>1. UNCHANGED <<state, selected, session, attempts, socket, inbox, sent, requests>>
    BY <1>12 DEF Commit, vars, view, connection
  <2>2. latest' = latest \/ \E m \in Matches : Commit(m)
    BY <1>12 DEF vars
  <2> QED
    BY <1>0, <2>1, <2>2, FreshKept DEF InFlight
<1>13. SendSnapshot \/ SendUpdate => FreshInv'
  BY <1>8 DEF SendSnapshot, SendUpdate
<1> QED
  BY <1>1, <1>2, <1>5, <1>6, <1>7, <1>9, <1>10, <1>11, <1>12, <1>13 DEF Next, Answered

-----------------------------------------------------------------------------
(* What is still to come, step by step *)

\* As long as the state, and what is on its way to the timeline, stay
LEMMA CompleteKept ==
  ASSUME SessionInv, CompleteInv,
         UNCHANGED <<state, session, missing, overrun>>,
         NewestSequence(events) <= NewestSequence(events)', NewestSequence(events)' \in Int,
         \A p \in InFlight \ InFlight' : Active(p) /\ p.purpose \in Loads =>
             \A k \in Nat : k <= p.after + Window /\ k <= p.issued => k <= NewestSequence(events)'
  PROVE  CompleteInv'
<1> DEFINE h == NewestSequence(events)
<1>1. SUFFICES ASSUME state # None, ~missing, ~overrun
               PROVE  \/ state.sequence <= NewestSequence(events)'
                      \/ \E r \in InFlight' : Brings(r, state.sequence)
  <2>1. \A r : Brings(r, state.sequence)' <=> Brings(r, state.sequence)
    BY DEF Brings, Active
  <2> QED
    BY <2>1 DEF CompleteInv
<1>2. TypeOK /\ TimelineInv
  BY DEF SessionInv
<1>3. h \in Int /\ state.sequence \in Nat
  <2>1. h \in 0 .. MaxSequence
    BY <1>2, NewestType
  <2>2. state.sequence \in 1 .. MaxSequence
    BY <1>1, <1>2 DEF TypeOK, Event
  <2> QED
    BY <2>1, <2>2, Bounds
<1>4. CASE state.sequence <= h
  BY <1>3, <1>4
<1>5. ASSUME NEW p \in InFlight, Brings(p, state.sequence)
      PROVE  state.sequence <= NewestSequence(events)' \/ p \in InFlight'
  BY <1>3, <1>5 DEF Brings
<1> QED
  BY <1>1, <1>4, <1>5 DEF CompleteInv

\* Every step keeps TimelineComplete and what it rests on.
LEMMA CompleteStep ==
  ASSUME SessionInv, [Next]_vars
  PROVE  CompleteInv'
<1> DEFINE h == NewestSequence(events)
<1>0. TypeOK /\ RequestInv /\ SocketInv /\ FreshInv /\ TimelineInv /\ CompleteInv
  BY DEF SessionInv
<1>t. latest[selected] \in 1 .. MaxSequence
  BY <1>0 DEF TypeOK
<1>h. h \in 0 .. MaxSequence /\ h \in Int
  BY <1>0, NewestType
<1>g. session' = session => h <= NewestSequence(events)' /\ NewestSequence(events)' \in Int
  <2>1. TimelineInv' /\ (session' = session => h <= NewestSequence(events)')
    BY TimelineStep
  <2>2. PICK n \in 0 .. MaxSequence : events' = Recent(selected', n)
    BY <2>1 DEF TimelineInv
  <2>3. n \in Nat /\ n \in Int
    BY <2>2
  <2>4. NewestSequence(events') = n
    BY <2>2, <2>3, NewestOfRecent
  <2> QED
    BY <2>1, <2>3, <2>4
<1>1. CASE \E m \in Matches : Select(m)
  BY <1>1 DEF Select, Fresh, CompleteInv
<1>2. ASSUME UNCHANGED <<state, session, missing, overrun>>, InFlight \subseteq InFlight'
      PROVE  CompleteInv'
  BY <1>0, <1>2, <1>g, CompleteKept
<1>3. ASSUME NEW n \in 1 .. MaxSequence, NEW q \in InFlight', state'.sequence = n,
             session' = session, Active(q), q.purpose \in Loads,
             ~missing' /\ ~overrun' => n <= q.after + Window /\ n <= q.issued
      PROVE  CompleteInv'
  <2>1. ~missing' /\ ~overrun' => Brings(q, state.sequence)'
    BY <1>3 DEF Brings, Active
  <2> QED
    BY <1>3, <2>1 DEF CompleteInv
<1>4. ASSUME NEW r \in InFlight, NEW sequence \in Read(r), InitialAnswered(r, sequence)
      PROVE  CompleteInv'
  <2> DEFINE q == Request("window", WindowStart(sequence))
  <2>1. /\ session' = session /\ requests' = Done(r) (+) SetToBag({q})
        /\ state' = [match |-> r.match, sequence |-> sequence]
        /\ r.match = selected
    BY <1>0, <1>4 DEF InitialAnswered, RequestInv
  <2>2. sequence \in 1 .. MaxSequence /\ sequence <= latest[selected]
    BY <1>0, <2>1, ReadType
  <2>3. q.after = WindowStart(sequence) /\ q.issued = latest[selected] /\ Active(q)
        /\ q.purpose \in Loads
    BY DEF Request, Active, Loads
  <2>4. sequence <= q.after + Window /\ sequence <= q.issued
    BY <2>2, <2>3, WindowStartType
  <2> HIDE DEF q
  <2>5. q \in InFlight'
    BY <1>0, <2>1, EndedAndIssued
  <2> QED
    BY <1>3, <2>1, <2>2, <2>3, <2>4, <2>5
<1>5. ASSUME NEW r \in InFlight, NEW sequence \in Read(r), EventsAnswered(r, sequence)
      PROVE  CompleteInv'
  <2>1. /\ Active(r) /\ requests' = Done(r) /\ r.purpose \in Loads
        /\ UNCHANGED <<state, selected, session, missing, overrun>>
        /\ events' = MergeEvents(events, Page(r.match, r.after, sequence))
    BY <1>5 DEF EventsAnswered, history, WindowLoaded, Loads
  <2>2. PICK n \in 0 .. MaxSequence :
          /\ MergeEvents(events, Page(r.match, r.after, sequence)) = Recent(selected, n)
          /\ \A k \in Nat : k <= r.after + Window /\ k <= r.issued => k <= n
    BY <1>0, <2>1, PageTaken
  <2>3. NewestSequence(events') = n
    <3>1. n \in Nat /\ events' = Recent(selected, n)
      BY <2>1, <2>2, Bounds
    <3> QED
      BY <3>1, NewestOfRecent
  <2>4. InFlight \ {r} \subseteq InFlight'
    BY <1>0, <2>1, Ended
  <2>5. \A p \in InFlight \ InFlight' : Active(p) /\ p.purpose \in Loads =>
            \A k \in Nat : k <= p.after + Window /\ k <= p.issued => k <= NewestSequence(events)'
    BY <2>2, <2>3, <2>4
  <2> QED
    BY <1>0, <1>g, <2>1, <2>5, CompleteKept
<1>6. ASSUME NEW r \in InFlight, NEW sequence \in Read(r), ReconcileAnswered(r, sequence)
      PROVE  CompleteInv'
  <2> DEFINE q == Request("history", h)
  <2>1. /\ session' = session /\ requests' = Done(r) (+) SetToBag({q})
        /\ state' = [match |-> r.match, sequence |-> sequence]
        /\ r.match = selected
        /\ ~overrun' => ~Overrun(sequence)
    BY <1>0, <1>6 DEF ReconcileAnswered, RequestInv
  <2>2. sequence \in 1 .. MaxSequence /\ sequence <= latest[selected]
    BY <1>0, <2>1, ReadType
  <2>3. q.after = h /\ q.issued = latest[selected] /\ Active(q) /\ q.purpose \in Loads
    BY DEF Request, Active, Loads
  <2>4. ~overrun' => sequence <= q.after + Window /\ sequence <= q.issued
    BY <1>h, <2>1, <2>2, <2>3, Bounds DEF Overrun, PageSize
  <2> HIDE DEF q
  <2>5. q \in InFlight'
    BY <1>0, <2>1, EndedAndIssued
  <2> QED
    BY <1>3, <2>1, <2>2, <2>3, <2>4, <2>5
<1>7. ASSUME NEW r \in InFlight, RequestFails(r)
      PROVE  CompleteInv'
  BY <1>7 DEF RequestFails, CompleteInv
<1>8. ASSUME NEW r \in InFlight, TooLate(r)
      PROVE  CompleteInv'
  <2>1. /\ requests' = Done(r) /\ ~Active(r)
        /\ UNCHANGED <<state, session, missing, overrun>>
    BY <1>8 DEF TooLate, view, history
  <2>2. InFlight \ {r} \subseteq InFlight'
    BY <1>0, <2>1, Ended
  <2>3. \A p \in InFlight \ InFlight' : ~Active(p)
    BY <2>1, <2>2
  <2> QED
    BY <1>0, <1>g, <2>1, <2>3, CompleteKept
<1>9. CASE HandleMessage
  <2> DEFINE n == Head(inbox).sequence
             q1 == Request("history", WindowStart(n))
             q2 == Request("history", h)
  <2>1. session' = session /\ missing' = missing /\ inbox # <<>>
    BY <1>9 DEF HandleMessage
  <2>2. n \in 1 .. MaxSequence /\ n <= latest[selected]
    BY <1>0, <2>1, HeadType
  <2>3. /\ q1.after = WindowStart(n) /\ q1.issued = latest[selected] /\ Active(q1)
        /\ q1.purpose \in Loads
        /\ q2.after = h /\ q2.issued = latest[selected] /\ Active(q2) /\ q2.purpose \in Loads
    BY DEF Request, Active, Loads
  <2>4. n <= q1.after + Window /\ n <= q1.issued
    BY <2>2, <2>3, WindowStartType
  <2>5. ~Overrun(n) => n <= q2.after + Window /\ n <= q2.issued
    BY <1>h, <2>2, <2>3, Bounds DEF Overrun, PageSize
  <2>6. \/ Issue(q1) /\ state'.sequence = n
        \/ /\ UNCHANGED <<state, overrun>>
           /\ UNCHANGED requests \/ \E q : Issue(q)
        \/ Issue(q2) /\ state'.sequence = n /\ (~overrun' => ~Overrun(n))
    <3>1. HandleSnapshot(n) \/ HandleUpdate(n)
      BY <1>9 DEF HandleMessage
    <3>2. CASE HandleSnapshot(n)
      BY <3>2 DEF HandleSnapshot, Replace
    <3>3. CASE HandleUpdate(n)
      <4>1. \/ UNCHANGED <<state, requests, overrun>>
            \/ Issue(Request("reconcile", 0)) /\ UNCHANGED <<state, overrun>>
            \/ Replace(n) /\ Issue(q2) /\ overrun' = (overrun \/ Overrun(n))
        BY <3>3 DEF HandleUpdate
      <4>2. CASE Replace(n) /\ Issue(q2) /\ overrun' = (overrun \/ Overrun(n))
        <5>1. state'.sequence = n
          BY <4>2 DEF Replace
        <5> HIDE DEF n, q2
        <5>2. ~overrun' => ~Overrun(n)
          BY <4>2, Zenon
        <5> QED
          BY <4>2, <5>1, <5>2
      <4> HIDE DEF n, q1, q2
      <4> QED
        BY <4>1, <4>2
    <3> QED
      BY <3>1, <3>2, <3>3
  <2> HIDE DEF q1, q2, n
  <2>7. CASE Issue(q1) /\ state'.sequence = n
    <3>1. q1 \in InFlight'
      BY <1>0, <2>7, Issued
    <3> QED
      BY <1>3, <2>1, <2>2, <2>3, <2>4, <2>7, <3>1
  <2>8. CASE Issue(q2) /\ state'.sequence = n /\ (~overrun' => ~Overrun(n))
    <3>1. q2 \in InFlight'
      BY <1>0, <2>8, Issued
    <3> QED
      BY <1>3, <2>1, <2>2, <2>3, <2>5, <2>8, <3>1
  <2>9. CASE UNCHANGED <<state, overrun>> /\ (UNCHANGED requests \/ \E q : Issue(q))
    <3>1. ASSUME NEW q, Issue(q)
          PROVE  InFlight \subseteq InFlight'
      BY <1>0, <3>1, Issued
    <3>2. UNCHANGED requests => InFlight \subseteq InFlight'
      BY DEF InFlight
    <3> QED
      BY <1>2, <2>1, <2>9, <3>1, <3>2
  <2> QED
    BY <2>6, <2>7, <2>8, <2>9
<1>10. CASE \/ \E m \in Matches : Commit(m)
            \/ SendSnapshot \/ SendUpdate \/ SocketCloses \/ Reconnect
            \/ UNCHANGED vars
  <2>1. UNCHANGED <<state, session, missing, overrun, requests>>
    BY <1>10 DEF Commit, SendSnapshot, SendUpdate, Send, SocketCloses, Reconnect, vars, view,
         history
  <2> QED
    BY <1>2, <2>1 DEF InFlight
<1> QED
  BY <1>1, <1>4, <1>5, <1>6, <1>7, <1>8, <1>9, <1>10 DEF Next, Answered

-----------------------------------------------------------------------------
(* What the dashboard says of its connection, step by step *)

\* The status has no part in a step that leaves it and the socket alone.
LEMMA StatusKept ==
  ASSUME StatusHonest, UNCHANGED <<status, socket, sent, inbox>>, loading' = loading
  PROVE  StatusHonest'
BY DEF StatusHonest

\* A session that has just been opened shows an honest status.
LEMMA OpenIsHonest ==
  ASSUME Open
  PROVE  StatusHonest'
<1>1. status' \in {"CONNECTING", "RECONNECTING"} /\ socket' = "open"
  BY DEF Open
<1> QED
  BY <1>1 DEF StatusHonest

\* Every step keeps the status honest.
LEMMA StatusStep ==
  ASSUME SessionInv, [Next]_vars
  PROVE  StatusHonest'
<1>0. TypeOK /\ SocketInv /\ EarlyInv /\ StatusHonest
  BY DEF SessionInv
<1>1. ASSUME loading' = TRUE
      PROVE  StatusHonest'
  BY <1>1 DEF StatusHonest
<1>2. ASSUME NEW r \in InFlight, NEW sequence \in Read(r), EventsAnswered(r, sequence)
      PROVE  StatusHonest'
  <2>1. WindowLoaded(r, Page(r.match, r.after, sequence))
        \/ UNCHANGED <<loading, status, connection>>
    BY <1>2 DEF EventsAnswered
  <2> QED
    BY <1>0, <2>1, OpenIsHonest, StatusKept DEF WindowLoaded, connection
<1>3. ASSUME NEW r \in InFlight, RequestFails(r)
      PROVE  StatusHonest'
  <2>1. CASE r.purpose = "initial" /\ status' = "DISCONNECTED" /\ UNCHANGED connection
    <3>1. socket' = "none"
      BY <1>0, <1>3, <2>1 DEF EarlyInv, RequestFails, connection
    <3> QED
      BY <2>1, <3>1 DEF StatusHonest
  <2>2. CASE WindowLoaded(r, {})
    BY <2>2, OpenIsHonest DEF WindowLoaded
  <2>3. CASE UNCHANGED <<loading, status, connection>>
    BY <1>0, <2>3, StatusKept DEF connection
  <2>4. \/ r.purpose = "initial" /\ status' = "DISCONNECTED" /\ UNCHANGED connection
        \/ WindowLoaded(r, {})
        \/ UNCHANGED <<loading, status, connection>>
    BY <1>3 DEF RequestFails
  <2> QED
    BY <2>1, <2>2, <2>3, <2>4
<1>4. ASSUME NEW type \in {"snapshot", "state_update"}, Send(type),
             type = "snapshot" => sent = None
      PROVE  StatusHonest'
  <2> DEFINE message == [type |-> type, sequence |-> latest[selected]]
  <2>1. /\ inbox' = Append(inbox, message) /\ sent' = latest[selected]
        /\ socket = "open" /\ UNCHANGED <<socket, status, loading>>
    BY <1>4 DEF Send, view
  <2>2. inbox \in Seq(Message) /\ Len(inbox) \in Nat
    BY <1>0 DEF SocketInv
  <2>3. latest[selected] \in 1 .. MaxSequence
    BY <1>0 DEF TypeOK
  <2>4. sent' # None
    BY <2>1, <2>3, Bounds
  <2>5. message \in Message /\ message.type = type
    BY <2>3 DEF Message
  <2> HIDE DEF message
  <2>6. \A i \in DOMAIN inbox' : \/ i \in DOMAIN inbox /\ inbox'[i] = inbox[i]
                               \/ inbox'[i] = message
    BY <2>1, <2>2, <2>5
  <2>7. CASE ~loading /\ status = "LIVE"
    <3>1. type # "snapshot" /\ \A i \in DOMAIN inbox : inbox[i].type # "snapshot"
      BY <1>0, <1>4, <2>7 DEF StatusHonest
    <3>2. \A i \in DOMAIN inbox' : inbox'[i].type # "snapshot"
      BY <2>5, <2>6, <3>1
    <3> QED
      BY <1>0, <2>1, <2>4, <3>2 DEF StatusHonest
  <2>8. CASE loading \/ status # "LIVE"
    BY <1>0, <2>1, <2>8 DEF StatusHonest
  <2> QED
    BY <2>7, <2>8
<1>5. CASE HandleMessage
  <2>1. /\ inbox # <<>> /\ inbox' = Tail(inbox)
        /\ UNCHANGED <<socket, sent, loading>>
    BY <1>5 DEF HandleMessage
  <2>2. /\ inbox \in Seq(Message) /\ Len(inbox) \in Nat /\ sent # None /\ socket = "open"
        /\ \A i \in 2 .. Len(inbox) : inbox[i].type = "state_update"
    BY <1>0, <2>1 DEF SocketInv
  <2>3. /\ DOMAIN inbox' = 1 .. Len(inbox) - 1
        /\ \A i \in 1 .. Len(inbox) - 1 : inbox'[i] = inbox[i + 1] /\ i + 1 \in 2 .. Len(inbox)
    BY <2>1, <2>2
  <2>4. \A i \in DOMAIN inbox' : inbox'[i].type # "snapshot"
    BY <2>2, <2>3
  <2>5. status' = "LIVE" \/ status' = status
    BY <1>5 DEF HandleMessage, HandleSnapshot, HandleUpdate
  <2> QED
    BY <1>0, <2>1, <2>2, <2>4, <2>5 DEF StatusHonest
<1>6. CASE SocketCloses
  <2>1. \/ status' = "DISCONNECTED" /\ socket' = "none"
        \/ status' = "RECONNECTING" /\ socket' = "waiting"
    BY <1>6 DEF SocketCloses
  <2> QED
    BY <2>1 DEF StatusHonest
<1>7. CASE Reconnect
  BY <1>7, OpenIsHonest DEF Reconnect
<1>8. CASE \/ \E m \in Matches : Commit(m)
           \/ \E r \in InFlight : TooLate(r)
           \/ \E r \in InFlight : \E sequence \in Read(r) : ReconcileAnswered(r, sequence)
           \/ UNCHANGED vars
  <2>1. UNCHANGED <<status, socket, sent, inbox, loading>>
    BY <1>8 DEF Commit, TooLate, ReconcileAnswered, vars, view, connection
  <2> QED
    BY <1>0, <2>1, StatusKept
<1>9. SendSnapshot \/ SendUpdate => StatusHonest'
  BY <1>4 DEF SendSnapshot, SendUpdate
<1>10. CASE \/ \E m \in Matches : Select(m)
            \/ \E r \in InFlight : \E sequence \in Read(r) : InitialAnswered(r, sequence)
  BY <1>1, <1>10 DEF Select, Fresh, InitialAnswered, StillLoading
<1> QED
  BY <1>2, <1>3, <1>5, <1>6, <1>7, <1>8, <1>9, <1>10 DEF Next, Answered

-----------------------------------------------------------------------------
(* Types, and the theorems *)

Simple ==
  /\ latest \in [Matches -> 1..MaxSequence]
  /\ selected \in Matches /\ session \in 1..MaxSessions
  /\ state = None \/ state \in Event
  /\ loading \in BOOLEAN /\ error \in BOOLEAN
  /\ status \in {"CONNECTING", "LIVE", "RECONNECTING", "DISCONNECTED"}
  /\ attempts \in 0..MaxReconnect
  /\ socket \in {"none", "open", "waiting"}
  /\ sent \in 1..MaxSequence \cup {None}

\* TypeOK, from the parts of the invariant.
LEMMA TypeParts ==
  ASSUME Simple, lost \in Nat, SocketInv, TimelineInv, InFlight \subseteq HttpRequest
  PROVE  TypeOK
<1>1. events \subseteq Event /\ Cardinality(events) <= Window
  <2>1. PICK n \in 0 .. MaxSequence : events = Recent(selected, n)
    BY DEF TimelineInv
  <2> QED
    BY <2>1, RecentType DEF Simple
<1>2. \A i \in DOMAIN inbox :
        inbox[i] \in [type : {"snapshot", "state_update"}, sequence : 1..MaxSequence]
  <2>1. inbox \in Seq(Message)
    BY DEF SocketInv
  <2>2. \A i \in DOMAIN inbox : inbox[i] \in Message
    BY <2>1
  <2> QED
    BY <2>2 DEF Message
<1>3. socket = "open" => state # None
  BY DEF SocketInv
<1>4. \A r \in InFlight :
        r \in [session : 1..MaxSessions, match : Matches, after : 0..MaxSequence,
               purpose : {"initial", "window", "reconcile", "history"}, issued : 1..MaxSequence]
  BY DEF HttpRequest, Purposes
<1> QED
  BY <1>1, <1>2, <1>3, <1>4 DEF Simple, TypeOK

\* A session starts to count its lost sockets at zero; a close counts one.
LEMMA LostStep ==
  ASSUME lost \in Nat, [Next]_vars
  PROVE  lost' \in Nat
<1>1. CASE \E m \in Matches : Select(m)
  BY <1>1 DEF Select, Fresh
<1>2. CASE SocketCloses
  BY <1>2 DEF SocketCloses
<1>3. CASE \/ \E m \in Matches : Commit(m)
           \/ \E r \in InFlight : RequestFails(r) \/ TooLate(r)
           \/ \E r \in InFlight : Answered(r)
           \/ SendSnapshot \/ SendUpdate \/ HandleMessage \/ Reconnect \/ UNCHANGED vars
  BY <1>3 DEF Commit, RequestFails, TooLate, Answered, InitialAnswered, EventsAnswered,
       ReconcileAnswered, SendSnapshot, SendUpdate, Send, HandleMessage, Reconnect, vars, history
<1> QED
  BY <1>1, <1>2, <1>3 DEF Next

\* Every step keeps the types of the plain variables.
LEMMA SimpleStep ==
  ASSUME SessionInv, [Next]_vars
  PROVE  Simple'
<1>0. TypeOK /\ SocketInv /\ FreshInv /\ RequestInv
  BY DEF SessionInv
<1>1. Simple
  BY <1>0 DEF TypeOK, Simple
<1>2. ASSUME Open, sent' = None, UNCHANGED <<latest, selected, session, state, error, attempts>>,
             loading' \in BOOLEAN
      PROVE  Simple'
  BY <1>1, <1>2 DEF Simple, Open
<1>3. ASSUME NEW m \in Matches, Select(m)
      PROVE  Simple'
  <2>1. /\ selected' = m /\ session < MaxSessions /\ session' = session + 1
        /\ state' = None /\ loading' = TRUE /\ error' = FALSE /\ attempts' = 0
        /\ socket' = "none" /\ sent' = None /\ UNCHANGED <<latest, status>>
    BY <1>3 DEF Select, Fresh, NoAttempts
  <2>2. session' \in 1 .. MaxSessions /\ attempts' \in 0 .. MaxReconnect
    BY <1>1, <2>1, Bounds DEF Simple
  <2> QED
    BY <1>1, <2>1, <2>2 DEF Simple
<1>4. ASSUME NEW m \in Matches, Commit(m)
      PROVE  Simple'
  <2>1. latest' \in [Matches -> 1 .. MaxSequence]
    <3>1. latest[m] \in 1 .. MaxSequence /\ latest[m] < MaxSequence
      BY <1>1, <1>4 DEF Simple, Commit
    <3>2. latest[m] + 1 \in 1 .. MaxSequence
      BY <3>1, Bounds
    <3> QED
      BY <1>1, <1>4, <3>2 DEF Simple, Commit
  <2> QED
    BY <1>1, <1>4, <2>1 DEF Simple, Commit, view, connection
<1>5. ASSUME NEW r \in InFlight, NEW sequence \in Read(r),
             InitialAnswered(r, sequence) \/ ReconcileAnswered(r, sequence)
      PROVE  Simple'
  <2>1. state' \in Event
    BY <1>0, <1>5, ReadType, InFlightType DEF InitialAnswered, ReconcileAnswered, Event
  <2>2. loading' \in BOOLEAN
    BY <1>1, <1>5 DEF Simple, InitialAnswered, ReconcileAnswered, StillLoading
  <2> QED
    BY <1>1, <1>5, <2>1, <2>2 DEF Simple, InitialAnswered, ReconcileAnswered, connection
<1>6. ASSUME NEW r \in InFlight, NEW sequence \in Read(r), EventsAnswered(r, sequence)
      PROVE  Simple'
  <2>1. UNCHANGED <<latest, selected, session, state, error, attempts>>
    BY <1>6 DEF EventsAnswered
  <2>2. (Open /\ loading' = FALSE) \/ UNCHANGED <<loading, status, connection>>
    BY <1>6 DEF EventsAnswered, WindowLoaded
  <2> QED
    BY <1>1, <1>2, <2>1, <2>2 DEF Simple, connection, Open
<1>7. ASSUME NEW r \in InFlight, RequestFails(r)
      PROVE  Simple'
  <2>1. UNCHANGED <<latest, selected, session, state, attempts>>
    BY <1>7 DEF RequestFails
  <2>2. \/ /\ error' = TRUE /\ status' = "DISCONNECTED" /\ loading' = FALSE
           /\ UNCHANGED connection
        \/ Open /\ loading' = FALSE /\ UNCHANGED error
        \/ UNCHANGED <<loading, error, status, connection>>
        \/ error' = TRUE /\ UNCHANGED <<loading, status, connection>>
    BY <1>7 DEF RequestFails, WindowLoaded
  <2> QED
    BY <1>1, <1>2, <2>1, <2>2 DEF Simple, connection, Open
<1>8. ASSUME NEW type, Send(type)
      PROVE  Simple'
  BY <1>1, <1>8 DEF Simple, Send, view
<1>9. CASE HandleMessage
  <2>1. /\ inbox # <<>>
        /\ UNCHANGED <<latest, selected, session, loading, error, attempts, socket, sent>>
    BY <1>9 DEF HandleMessage
  <2>2. status' = "LIVE" \/ status' = status
    BY <1>9 DEF HandleMessage, HandleSnapshot, HandleUpdate
  <2>3. state' = state \/ state' = [match |-> selected, sequence |-> Head(inbox).sequence]
    BY <1>0, <1>9, StateKept
  <2>4. Head(inbox).sequence \in 1 .. MaxSequence
    BY <1>0, <2>1, HeadType
  <2>5. state' = None \/ state' \in Event
    BY <1>1, <2>3, <2>4 DEF Simple, Event
  <2> QED
    BY <1>1, <2>1, <2>2, <2>5 DEF Simple
<1>10. CASE SocketCloses
  <2>1. /\ sent' = None /\ UNCHANGED <<latest, selected, session, state, loading, error>>
        /\ \/ status' = "DISCONNECTED" /\ socket' = "none" /\ UNCHANGED attempts
           \/ /\ status' = "RECONNECTING" /\ socket' = "waiting" /\ attempts' = attempts + 1
              /\ ~(attempts >= MaxReconnect)
    BY <1>10 DEF SocketCloses, GiveUp
  <2>2. attempts' \in 0 .. MaxReconnect
    BY <1>1, <2>1, Bounds DEF Simple
  <2> QED
    BY <1>1, <2>1, <2>2 DEF Simple
<1>11. CASE Reconnect
  BY <1>1, <1>2, <1>11 DEF Reconnect, Open, Simple
<1>12. CASE (\E r \in InFlight : TooLate(r)) \/ UNCHANGED vars
  BY <1>1, <1>12 DEF TooLate, vars, view, connection, Simple
<1>13. SendSnapshot \/ SendUpdate => Simple'
  BY <1>8 DEF SendSnapshot, SendUpdate
<1> QED
  BY <1>3, <1>4, <1>5, <1>6, <1>7, <1>9, <1>10, <1>11, <1>12, <1>13 DEF Next, Answered

\* The first effect of a page that has just been opened
LEMMA InitHolds ==
  ASSUME Init
  PROVE  SessionInv
<1> DEFINE q == Initial(selected, 1)
<1>1. /\ latest \in [Matches -> 1 .. MaxSequence] /\ latest = [m \in Matches |-> 1]
      /\ selected \in Matches /\ session = 1 /\ 1 \in 1 .. MaxSessions
      /\ 0 \in 0 .. MaxReconnect /\ 0 \in 0 .. MaxSequence /\ 1 \in 1 .. MaxSequence
  BY Bounds DEF Init
<1>2. q \in HttpRequest /\ q.session = 1 /\ q.issued = latest[q.match] /\ q.match = selected
      /\ q.purpose = "initial" /\ q.issued = 1
  BY <1>1 DEF Initial, HttpRequest, Purposes
<1>3. /\ IsABag(requests) /\ InFlight = {q} /\ requests[q] = 1
  BY DEF Init, InFlight, IsABag, BagToSet, SetToBag
<1> HIDE DEF q
<1>4. Simple
  BY <1>1 DEF Init, Simple
<1>5. RequestInv
  BY <1>1, <1>2, <1>3 DEF RequestInv
<1>6. SocketInv
  BY NoMessages DEF Init, SocketInv
<1>7. EarlyInv
  BY <1>2, <1>3 DEF Init, EarlyInv
<1>8. FreshInv
  BY NoMessages DEF Init, FreshInv, SnapshotDue
<1>9. TimelineInv
  <2>1. WindowStart(0) \in 0 .. 0
    BY WindowStartValue
  <2>2. events = Recent(selected, 0)
    BY <2>1 DEF Init, Recent, Stretch
  <2>3. \A r \in InFlight : r.purpose \notin Loads
    BY <1>2, <1>3 DEF Loads
  <2> QED
    BY <1>1, <2>2, <2>3 DEF TimelineInv, Adjoins
<1>10. CompleteInv
  BY DEF Init, CompleteInv
<1>11. StatusHonest
  BY DEF Init, StatusHonest
<1>12. TypeOK
  <2>1. lost \in Nat
    BY DEF Init
  <2> QED
    BY <1>2, <1>3, <1>4, <1>6, <1>9, <2>1, TypeParts
<1> QED
  BY <1>5, <1>6, <1>7, <1>8, <1>9, <1>10, <1>11, <1>12 DEF SessionInv

\* Every step keeps the whole invariant.
LEMMA StepHolds ==
  ASSUME SessionInv, [Next]_vars
  PROVE  SessionInv'
<1>1. /\ Simple' /\ RequestInv' /\ InFlight' \subseteq HttpRequest /\ SocketInv' /\ EarlyInv'
      /\ FreshInv' /\ TimelineInv' /\ CompleteInv' /\ StatusHonest' /\ lost' \in Nat
  <2>1. lost \in Nat
    BY DEF SessionInv, TypeOK
  <2> QED
    BY <2>1, LostStep, SimpleStep, RequestStep, SocketStep, EarlyStep, FreshStep, TimelineStep,
       CompleteStep, StatusStep
<1>2. (Simple /\ lost \in Nat /\ SocketInv /\ TimelineInv /\ InFlight \subseteq HttpRequest => TypeOK)'
  BY TypeParts, PTL
<1> QED
  BY <1>1, <1>2 DEF SessionInv

\* The invariant holds in every state of the session.
LEMMA Invariant == Spec => []SessionInv
<1>1. Init => SessionInv
  BY InitHolds
<1>2. SessionInv /\ [Next]_vars => SessionInv'
  BY StepHolds
<1> QED
  BY <1>1, <1>2, PTL DEF Spec

\* The variables of a session keep their types, its timeline holds at most
\* Window events and it opens at most MaxReconnect more sockets
\* (useMatchSession.ts, mergeEvents and onclose).
THEOREM SessionTypeCorrect == Spec => []TypeOK
<1>1. SessionInv => TypeOK
  BY DEF SessionInv
<1> QED
  BY <1>1, Invariant, PTL

\* State and timeline are those of the selected match, whatever an earlier
\* selection still gets answered (the flag active of the effect).
THEOREM ShowsOwnMatch == Spec => []OwnMatch
<1>1. SessionInv => OwnMatch
  <2> SUFFICES ASSUME SessionInv
               PROVE  OwnMatch
    OBVIOUS
  <2>1. state # None => state.match = selected
    BY DEF SessionInv, FreshInv
  <2>2. \A e \in events : e.match = selected
    BY DEF SessionInv, TimelineInv, Recent, Stretch
  <2> QED
    BY <2>1, <2>2 DEF OwnMatch
<1> QED
  BY <1>1, Invariant, PTL

\* The timeline has no hole (loadEventsAfter, mergeEvents), for every window
\* and history: every page that is taken adjoins it or is a whole window.
THEOREM TimelineHasNoHole == Spec => []TimelineContiguous
<1>1. SessionInv => TimelineContiguous
  <2> SUFFICES ASSUME SessionInv, NEW e \in events, NEW f \in events,
                      NEW k \in e.sequence .. f.sequence
               PROVE  [match |-> selected, sequence |-> k] \in events
    BY DEF TimelineContiguous
  <2>1. PICK n \in 0 .. MaxSequence : events = Recent(selected, n)
    BY DEF SessionInv, TimelineInv
  <2>2. n \in Nat /\ WindowStart(n) \in Nat
    BY <2>1, WindowStartValue, Bounds
  <2>3. e.sequence \in WindowStart(n) + 1 .. n /\ f.sequence \in WindowStart(n) + 1 .. n
    BY <2>1 DEF Recent, Stretch
  <2>4. k \in WindowStart(n) + 1 .. n
    BY <2>2, <2>3
  <2> QED
    BY <2>1, <2>4 DEF Recent, Stretch
<1> QED
  BY <1>1, Invariant, PTL

\* When the requests of a session have ended, none failed and none asked for
\* more than a page, the timeline reaches the state on display.
THEOREM TimelineReachesState == Spec => []TimelineComplete
<1>1. SessionInv => TimelineComplete
  BY DEF SessionInv, CompleteInv, TimelineComplete, Brings
<1> QED
  BY <1>1, Invariant, PTL

\* LIVE is an open socket whose snapshot was handled; DISCONNECTED is having
\* no socket (the connection status of useMatchSession.ts).
THEOREM StatusIsHonest == Spec => []StatusHonest
<1>1. SessionInv => StatusHonest
  BY DEF SessionInv
<1> QED
  BY <1>1, Invariant, PTL

\* reconcile ends its request and shows what the server read for it.
LEMMA ReconcileEnds ==
  ASSUME SessionInv, NEW r \in InFlight, NEW sequence \in Read(r),
         ReconcileAnswered(r, sequence)
  PROVE  Reconciled(r)
<1> DEFINE q == Request("history", NewestSequence(events))
<1>1. /\ r.purpose = "reconcile" /\ Active(r)
      /\ state' = [match |-> r.match, sequence |-> sequence]
      /\ requests' = (requests (-) SetToBag({r})) (+) SetToBag({q})
  BY DEF ReconcileAnswered, Done
<1>2. q # r
  BY <1>1 DEF Request
<1>3. IsABag(requests) /\ r \in BagToSet(requests)
  BY DEF SessionInv, RequestInv, InFlight
<1> HIDE DEF q
<1>4. r \in InFlight' => requests'[r] < requests[r]
  BY <1>1, <1>2, <1>3, BagSwapped DEF InFlight
<1> QED
  BY <1>1, <1>4 DEF Reconciled

\* A step that takes the state back handles a snapshot after a reconnection, or
\* shows the answer to a reconciliation.
LEMMA RegressionStep ==
  ASSUME SessionInv, [Next]_vars, Regresses
  PROVE  (SnapshotHandled /\ attempts > 0) \/ \E r \in InFlight : Reconciled(r)
<1>0. TypeOK /\ SocketInv /\ EarlyInv /\ FreshInv
  BY DEF SessionInv
<1>1. /\ session' = session /\ state # None /\ state' # None
      /\ state'.sequence < state.sequence
  BY DEF Regresses
<1>2. state.sequence \in Int
  BY <1>0, <1>1 DEF TypeOK, Event
<1>3. state' # state
  BY <1>1, <1>2
<1>4. ASSUME NEW m \in Matches, Select(m)
      PROVE  FALSE
  BY <1>0, <1>1, <1>4, Bounds DEF Select, TypeOK
<1>5. ASSUME NEW r \in InFlight, NEW sequence \in Read(r), InitialAnswered(r, sequence)
      PROVE  FALSE
  BY <1>0, <1>1, <1>5 DEF InitialAnswered, EarlyInv
<1>6. CASE HandleMessage
  <2>1. inbox # <<>> /\ inbox' = Tail(inbox)
    BY <1>6 DEF HandleMessage
  <2>2. /\ Head(inbox) \in Message /\ Head(inbox).sequence \in 1 .. MaxSequence
        /\ socket = "open"
    BY <1>0, <2>1, HeadType
  <2>3. CASE Head(inbox).type = "snapshot"
    <3>1. state'.sequence = Head(inbox).sequence
      BY <1>6, <2>3 DEF HandleMessage, HandleSnapshot, Replace
    <3>2. SnapshotDue
      BY <2>1, <2>2, <2>3 DEF SnapshotDue
    <3>3. attempts # 0
      BY <1>0, <1>1, <1>2, <2>1, <2>2, <3>1, <3>2 DEF FreshInv
    <3>4. attempts > 0
      BY <1>0, <3>3, Bounds DEF TypeOK
    <3> QED
      BY <2>1, <2>3, <3>4 DEF SnapshotHandled
  <2>4. CASE Head(inbox).type # "snapshot"
    <3>1. HandleUpdate(Head(inbox).sequence)
      BY <1>6, <2>4 DEF HandleMessage
    <3>2. state'.sequence = Head(inbox).sequence /\ ~Stale(Head(inbox).sequence)
      BY <1>3, <3>1 DEF HandleUpdate, Replace
    <3> QED
      BY <1>1, <1>2, <2>2, <3>2 DEF Stale
  <2> QED
    BY <2>3, <2>4
<1>7. ASSUME NEW r \in InFlight, NEW sequence \in Read(r), ReconcileAnswered(r, sequence)
      PROVE  Reconciled(r)
  BY <1>7, ReconcileEnds
<1>8. CASE \/ \E m \in Matches : Commit(m)
           \/ \E r \in InFlight : RequestFails(r) \/ TooLate(r)
           \/ \E r \in InFlight : \E sequence \in Read(r) : EventsAnswered(r, sequence)
           \/ SendSnapshot \/ SendUpdate \/ SocketCloses \/ Reconnect
           \/ UNCHANGED vars
  <2>1. state' = state
    BY <1>8 DEF Commit, RequestFails, TooLate, EventsAnswered, SendSnapshot, SendUpdate, Send,
         SocketCloses, Reconnect, vars, view
  <2> QED
    BY <1>3, <2>1
<1> QED
  BY <1>4, <1>5, <1>6, <1>7, <1>8 DEF Next, Answered

\* No live update and no first snapshot takes the displayed state back: only
\* the step that handles the snapshot of a later socket does, or the one that
\* shows the answer to a reconciliation and ends it (replaceState).
THEOREM OnlyAuthority == Spec => OnlyAuthorityRegresses
<1>1. SessionInv /\ [Next]_vars =>
        [Regresses => \/ SnapshotHandled /\ attempts > 0
                      \/ \E r \in InFlight : Reconciled(r)]_vars
  BY RegressionStep
<1> QED
  BY <1>1, Invariant, PTL DEF Spec, OnlyAuthorityRegresses
=============================================================================
