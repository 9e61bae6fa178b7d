---------------------------- MODULE Screens_proofs ----------------------------
(***************************************************************************)
(* The screen of the desktop client: theorems about the toasts, for any    *)
(* number of rooms and of toasts, any order of clicks and events, and      *)
(* components that go while their timers run.                              *)
(***************************************************************************)
EXTENDS Screens, Retain_proofs, FiniteSetTheorems, FunctionTheorems, SequenceTheorems

\* The components that raise toasts.
LEMMA KnownComponents ==
  /\ \A n \in {"App", "CreateRoomSection", "SubscribeRoomSection", "ChatHeader"} :
        Component(n) \in Components
  /\ \A id \in RoomIds : RoomItem(id) \in Components
BY DEF Components

\* The elements of the lists.
LEMMA ScreenLists ==
  ASSUME TypeOK
  PROVE  /\ Len(rooms) \in Nat /\ \A i \in 1..Len(rooms) : rooms[i] \in RoomIds
         /\ ListedIds \subseteq RoomIds
         /\ Len(toasts) \in Nat
         /\ \A i \in 1..Len(toasts) : toasts[i] \in Toasts
         /\ \A i \in 1..Len(toasts) : toasts[i].id \in 0..MaxToasts
         /\ MaxToasts \in Nat /\ toast_counter \in Nat
<1>1. rooms \in Seq(RoomIds) /\ toasts \in Seq(Toasts)
  BY DEF TypeOK
<1>2. \A i \in 1..Len(toasts) : toasts[i] \in Toasts
  BY <1>1
<1>3. \A i \in 1..Len(toasts) : toasts[i].id \in 0..MaxToasts
  BY <1>2 DEF Toasts
<1> QED
  BY <1>1, <1>2, <1>3, ScreensAssumption DEF ListedIds, TypeOK

\* A toast that is raised has an id of its own, and its timer is its.
LEMMA AddToastFacts ==
  ASSUME TypeOK, NEW by \in Components, AddToast(by)
  PROVE  /\ toast_counter' = toast_counter + 1 /\ toast_counter' \in 0..MaxToasts
         /\ \E toast \in Toasts :
               /\ toast.id = toast_counter
               /\ toasts' = Append(toasts, toast) /\ toasts' \in Seq(Toasts)
               /\ timers' \subseteq timers \cup {toast}
<1> DEFINE toast == [id |-> toast_counter, by |-> by]
<1>1. /\ toast_counter < MaxToasts /\ toast_counter' = toast_counter + 1
      /\ toasts' = Append(toasts, toast) /\ timers' \subseteq timers \cup {toast}
  BY DEF AddToast, Counted, Scheduled, Draw
<1>2. toast \in Toasts /\ toast.id = toast_counter
  BY DEF Toasts, TypeOK
<1> HIDE DEF toast
<1>3. toasts' \in Seq(Toasts)
  BY <1>1, <1>2 DEF TypeOK
<1>4. toast_counter' \in 0..MaxToasts
  BY <1>1, ScreenLists
<1> QED
  BY <1>1, <1>2, <1>3, <1>4

\* What every step does to the toasts: none is raised, one is, or one expires.
NothingRaised ==
    UNCHANGED <<toasts, toast_counter>> /\ timers' \subseteq timers

Raised ==
    /\ toast_counter' = toast_counter + 1 /\ toast_counter' \in 0..MaxToasts
    /\ \E toast \in Toasts :
          /\ toast.id = toast_counter
          /\ toasts' = Append(toasts, toast) /\ toasts' \in Seq(Toasts)
          /\ timers' \subseteq timers \cup {toast}

Expired ==
    /\ UNCHANGED toast_counter /\ toasts' \in Seq(Toasts)
    /\ \E id \in Nat :
          /\ \E at : Keeps(toasts', at, toasts,
                           {i \in 1..Len(toasts) : toasts[i].id # id}, Len(toasts))
          /\ timers' = {t \in timers : t.id # id}

\* The steps of the user, of the poller and of the timers.
LEMMA ToastSteps ==
  ASSUME TypeOK, [Next]_vars
  PROVE  NothingRaised \/ Raised \/ Expired
<1>1. ASSUME NoToast PROVE NothingRaised
  BY <1>1 DEF NoToast, Draw, NothingRaised
<1>2. ASSUME NEW by \in Components, AddToast(by) PROVE Raised
  BY <1>2, AddToastFacts DEF Raised
<1>3. CASE InvalidPort \/ Connect \/ Disconnect \/ (\E id \in RoomIds : Select(id))
  BY <1>1, <1>3 DEF InvalidPort, Connect, Disconnect, Select
<1>4. CASE \E id \in RoomIds : DoCreate(id) \/ DoSubscribe(id) \/ Unsubscribe(id)
  <2>1. PICK id \in RoomIds : DoCreate(id) \/ DoSubscribe(id) \/ Unsubscribe(id)
    BY <1>4
  <2>2. \/ AddToast(Component("CreateRoomSection"))
        \/ AddToast(Component("SubscribeRoomSection"))
        \/ AddToast(RoomItem(id))
    BY <2>1 DEF DoCreate, DoSubscribe, Unsubscribe
  <2> QED
    BY <1>2, <2>2, KnownComponents
<1>5. CASE SubscribeRefused \/ UnsubscribeActive \/ PollConnected \/ PollError \/ PollDisconnected
  <2>1. \/ AddToast(Component("SubscribeRoomSection"))
        \/ AddToast(Component("ChatHeader"))
        \/ AddToast(Component("App"))
    BY <1>5 DEF SubscribeRefused, UnsubscribeActive, PollConnected, PollError, PollDisconnected
  <2> QED
    BY <1>2, <2>1, KnownComponents
<1>6. CASE \E i \in 1..Len(rooms), id \in RoomIds : PollConfirmed(i, id)
  BY <1>1, <1>6 DEF PollConfirmed
<1>7. ASSUME NEW id \in 0..(MaxToasts - 1), Expire(id) PROVE Expired
  <2> DEFINE P == {i \in 1..Len(toasts) : toasts[i].id # id}
  <2>1. /\ toasts' = Retained(toasts, P) /\ timers' = {t \in timers : t.id # id}
        /\ UNCHANGED toast_counter
    BY <1>7 DEF Expire
  <2> HIDE DEF P
  <2>2. toasts \in Seq(Toasts) /\ id \in Nat
    BY ScreenLists DEF TypeOK
  <2>3. toasts' \in Seq(Toasts) /\ \E at : Keeps(toasts', at, toasts, P, Len(toasts))
    BY <2>1, <2>2, RetainKeeps
  <2> QED
    BY <2>1, <2>2, <2>3 DEF Expired, P
<1>8. CASE UNCHANGED vars
  BY <1>8 DEF vars, NothingRaised
<1> QED
  BY <1>3, <1>4, <1>5, <1>6, <1>7, <1>8 DEF Next, User, Poll

\* The types hold, whatever order clicks, events and timers come in: the counter
\* never passes its bound and every toast and timer names a component.
THEOREM TypeCorrect == Spec => []TypeOK
<1>1. Init => TypeOK
  <2> SUFFICES ASSUME Init PROVE TypeOK
    OBVIOUS
  <2>1. rooms \in Seq(RoomIds) /\ toasts \in Seq(Toasts)
    BY EmptySeq DEF Init
  <2>2. linked \in BOOLEAN /\ error_msg \in BOOLEAN
    BY DEF Init
  <2>3. 0 \in 0..MaxToasts
    BY ScreensAssumption
  <2> QED
    BY <2>1, <2>2, <2>3 DEF Init, TypeOK
<1>2. TypeOK /\ [Next]_vars => TypeOK'
  <2> SUFFICES ASSUME TypeOK, [Next]_vars PROVE TypeOK'
    OBVIOUS
  <2>1. toasts' \in Seq(Toasts) /\ toast_counter' \in 0..MaxToasts /\ timers' \subseteq Toasts
    <3>1. CASE NothingRaised
      BY <3>1 DEF NothingRaised, TypeOK
    <3>2. CASE Raised
      BY <3>2 DEF Raised, TypeOK
    <3>3. CASE Expired
      BY <3>3 DEF Expired, TypeOK
    <3> QED
      BY <3>1, <3>2, <3>3, ToastSteps
  <2>2. status' \in {"disconnected", "connecting", "connected"}
    BY DEF Next, User, Poll, TypeOK, vars, InvalidPort, Connect, DoCreate, DoSubscribe, Select,
           Unsubscribe, SubscribeRefused, UnsubscribeActive, Disconnect, Click, PollConnected,
           PollError, PollDisconnected, PollConfirmed, Expire
  <2>3. linked' \in BOOLEAN /\ error_msg' \in BOOLEAN
    BY DEF Next, User, Poll, TypeOK, vars, InvalidPort, Connect, DoCreate, DoSubscribe, Select,
           Unsubscribe, SubscribeRefused, UnsubscribeActive, Disconnect, Click, PollConnected,
           PollError, PollDisconnected, PollConfirmed, Expire
  <2>4. rooms \in Seq(RoomIds) /\ active \in RoomIds \cup {NoRoom}
    BY DEF TypeOK
  <2>5. ASSUME NEW id, RetainOthers(id) PROVE rooms' \in Seq(RoomIds)
    BY <2>4, <2>5, RetainKeeps DEF RetainOthers
  <2>6. rooms' \in Seq(RoomIds) /\ active' \in RoomIds \cup {NoRoom}
    <3>1. CASE UNCHANGED <<rooms, active>>
      BY <2>4, <3>1
    <3>2. CASE Connect
      BY <3>2, EmptySeq DEF Connect
    <3>3. ASSUME NEW id \in RoomIds,
                 DoCreate(id) \/ DoSubscribe(id) \/ Select(id) \/ Unsubscribe(id)
          PROVE  rooms' \in Seq(RoomIds) /\ active' \in RoomIds \cup {NoRoom}
      BY <2>4, <2>5, <3>3 DEF DoCreate, DoSubscribe, Select, Unsubscribe
    <3>4. CASE UnsubscribeActive
      BY <2>5, <3>4 DEF UnsubscribeActive
    <3>5. ASSUME NEW i \in 1..Len(rooms), NEW id \in RoomIds, PollConfirmed(i, id)
          PROVE  rooms' \in Seq(RoomIds) /\ active' \in RoomIds \cup {NoRoom}
      BY <2>4, <3>5, ExceptSeq DEF PollConfirmed
    <3> QED
      BY <3>1, <3>2, <3>3, <3>4, <3>5
         DEF Next, User, Poll, vars, InvalidPort, SubscribeRefused, Disconnect, PollConnected,
             PollError, PollDisconnected, Expire
  <2> QED
    BY <2>1, <2>2, <2>3, <2>6 DEF TypeOK
<1> QED
  BY <1>1, <1>2, PTL DEF Spec

\* The inductive invariant of ToastsKeyed: ids rise from toast to toast, the
\* counter is ahead of them, and a timer has a toast that is shown.
Keyed ==
    /\ \A i, j \in 1..Len(toasts) : i < j => toasts[i].id < toasts[j].id
    /\ \A i \in 1..Len(toasts) : toasts[i].id < toast_counter
    /\ \A t \in timers : \E i \in 1..Len(toasts) : toasts[i] = t

\* A function that takes a finite set onto another and no two elements to one.
LEMMA OneToOne ==
  ASSUME NEW S, NEW T, IsFiniteSet(S), NEW f \in [S -> T],
         \A t \in T : \E s \in S : f[s] = t,
         \A a, b \in S : f[a] = f[b] => a = b
  PROVE  IsFiniteSet(T) /\ Cardinality(T) = Cardinality(S)
<1>1. f \in Surjection(S, T) /\ f \in Injection(S, T)
  BY Fun_IsSurj, Fun_IsInj
<1> QED
  BY <1>1, FS_Surjection

\* Counting the keys.
LEMMA KeyedCounts == ASSUME TypeOK, Keyed PROVE ToastsKeyed
<1>1. /\ Len(toasts) \in Nat /\ \A i \in 1..Len(toasts) : toasts[i].id \in Int
      /\ \A i, j \in 1..Len(toasts) : i < j => toasts[i].id < toasts[j].id
  BY ScreenLists DEF Keyed
<1>2. \A i, j \in 1..Len(toasts) : toasts[i].id = toasts[j].id => i = j
  <2>1. ASSUME NEW i \in 1..Len(toasts), NEW j \in 1..Len(toasts), toasts[i].id = toasts[j].id
        PROVE  i = j
    <3>1. ~(i < j) /\ ~(j < i)
      BY <1>1, <2>1
    <3> QED
      BY <1>1, <3>1
  <2> QED
    BY <2>1
<1> DEFINE N == 1..Len(toasts)
<1>3. IsFiniteSet(N) /\ Cardinality(N) = Len(toasts)
  BY <1>1, FS_Interval
<1>4. Cardinality(ToastContainer) = Len(toasts)
  <2> DEFINE f == [i \in N |-> toasts[i].id]
  <2>1. f \in [N -> ToastContainer] /\ \A t \in ToastContainer : \E i \in N : f[i] = t
    BY DEF ToastContainer
  <2>2. \A i, j \in N : f[i] = f[j] => i = j
    BY <1>2
  <2> HIDE DEF f, N
  <2>3. Cardinality(ToastContainer) = Cardinality(N)
    BY <1>3, <2>1, <2>2, OneToOne
  <2> QED
    BY <1>3, <2>3
<1>5. Cardinality(timers) = Cardinality({t.id : t \in timers})
  <2> DEFINE A == {toasts[i] : i \in N}
             g == [i \in N |-> toasts[i]]
             h == [t \in timers |-> t.id]
             K == {t.id : t \in timers}
  <2>1. g \in [N -> A] /\ \A t \in A : \E i \in N : g[i] = t
    OBVIOUS
  <2>2. \A i, j \in N : g[i] = g[j] => i = j
    BY <1>2
  <2>3. timers \subseteq A
    BY DEF Keyed
  <2>4. h \in [timers -> K] /\ \A k \in K : \E t \in timers : h[t] = k
    OBVIOUS
  <2>5. \A s, t \in timers : h[s] = h[t] => s = t
    <3>1. ASSUME NEW s \in timers, NEW t \in timers, s.id = t.id PROVE s = t
      <4>1. PICK i \in N : toasts[i] = s
        BY DEF Keyed
      <4>2. PICK j \in N : toasts[j] = t
        BY DEF Keyed
      <4> QED
        BY <1>2, <3>1, <4>1, <4>2
    <3> QED
      BY <3>1
  <2> HIDE DEF A, g, h, K, N
  <2>6. IsFiniteSet(A)
    BY <1>3, <2>1, <2>2, OneToOne
  <2>7. IsFiniteSet(timers)
    BY <2>3, <2>6, FS_Subset
  <2>8. Cardinality(K) = Cardinality(timers)
    BY <2>4, <2>5, <2>7, OneToOne
  <2> QED
    BY <2>8 DEF K
<1>6. \A t \in timers : t.id \in ToastContainer
  BY DEF Keyed, ToastContainer
<1> QED
  BY <1>4, <1>5, <1>6 DEF ToastsKeyed

\* No two toasts are drawn under one key, and every timer that runs takes away
\* the toast it was started for.
THEOREM KeysUnique == Spec => []ToastsKeyed
<1>1. Init => Keyed
  BY EmptySeq DEF Init, Keyed
<1>2. TypeOK /\ Keyed /\ [Next]_vars => Keyed'
  <2> SUFFICES ASSUME TypeOK, Keyed, [Next]_vars PROVE Keyed'
    OBVIOUS
  <2>1. CASE NothingRaised
    BY <2>1 DEF NothingRaised, Keyed
  <2>2. CASE Raised
    <3>1. toast_counter' = toast_counter + 1 /\ toast_counter \in Nat /\ Len(toasts) \in Nat
      BY <2>2, ScreenLists DEF Raised
    <3>2. PICK toast \in Toasts :
              /\ toast.id = toast_counter /\ toasts' = Append(toasts, toast)
              /\ timers' \subseteq timers \cup {toast}
      BY <2>2 DEF Raised
    <3>3. /\ Len(toasts') = Len(toasts) + 1 /\ toasts'[Len(toasts) + 1] = toast
          /\ \A i \in 1..Len(toasts) : toasts'[i] = toasts[i] /\ i \in 1..Len(toasts')
          /\ \A i \in 1..Len(toasts') : i \in 1..Len(toasts) \/ i = Len(toasts) + 1
          /\ Len(toasts) + 1 \in 1..Len(toasts')
      BY <3>1, <3>2 DEF TypeOK
    <3>4. \A i \in 1..Len(toasts) : toasts[i].id \in Int /\ toasts[i].id < toast_counter
      BY ScreenLists DEF Keyed
    <3>5. ASSUME NEW i \in 1..Len(toasts'), NEW j \in 1..Len(toasts'), i < j
          PROVE  toasts'[i].id < toasts'[j].id
      <4>1. i \in 1..Len(toasts)
        BY <3>1, <3>3, <3>5
      <4>2. CASE j \in 1..Len(toasts)
        BY <3>3, <3>5, <4>1, <4>2 DEF Keyed
      <4>3. CASE j = Len(toasts) + 1
        BY <3>2, <3>3, <3>4, <4>1, <4>3
      <4> QED
        BY <3>3, <4>2, <4>3
    <3>6. ASSUME NEW i \in 1..Len(toasts') PROVE toasts'[i].id < toast_counter'
      <4>1. CASE i \in 1..Len(toasts)
        BY <3>1, <3>3, <3>4, <4>1
      <4>2. CASE i = Len(toasts) + 1
        BY <3>1, <3>2, <3>3, <4>2
      <4> QED
        BY <3>3, <4>1, <4>2
    <3>7. ASSUME NEW t \in timers' PROVE \E i \in 1..Len(toasts') : toasts'[i] = t
      <4>1. CASE t = toast
        BY <3>3, <4>1
      <4>2. CASE t \in timers
        <5>1. PICK i \in 1..Len(toasts) : toasts[i] = t
          BY <4>2 DEF Keyed
        <5> QED
          BY <3>3, <5>1
      <4> QED
        BY <3>2, <4>1, <4>2
    <3> QED
      BY <3>5, <3>6, <3>7 DEF Keyed
  <2>3. CASE Expired
    <3>1. PICK id \in Nat :
              /\ \E at : Keeps(toasts', at, toasts,
                               {i \in 1..Len(toasts) : toasts[i].id # id}, Len(toasts))
              /\ timers' = {t \in timers : t.id # id}
      BY <2>3 DEF Expired
    <3>2. UNCHANGED toast_counter
      BY <2>3 DEF Expired
    <3> DEFINE P == {i \in 1..Len(toasts) : toasts[i].id # id}
    <3>3. PICK at : Keeps(toasts', at, toasts, P, Len(toasts))
      BY <3>1
    <3>4. ASSUME NEW j \in 1..Len(toasts')
          PROVE  at[j] \in 1..Len(toasts) /\ toasts'[j] = toasts[at[j]]
      BY <3>3 DEF Keeps
    <3>5. ASSUME NEW i \in 1..Len(toasts'), NEW j \in 1..Len(toasts'), i < j
          PROVE  toasts'[i].id < toasts'[j].id
      <4>1. at[i] < at[j]
        BY <3>3, <3>5 DEF Keeps
      <4> QED
        BY <3>4, <4>1 DEF Keyed
    <3>6. \A i \in 1..Len(toasts') : toasts'[i].id < toast_counter'
      BY <3>2, <3>4 DEF Keyed
    <3>7. ASSUME NEW t \in timers' PROVE \E i \in 1..Len(toasts') : toasts'[i] = t
      <4>1. t \in timers /\ t.id # id
        BY <3>1
      <4>2. PICK i \in 1..Len(toasts) : toasts[i] = t
        BY <4>1 DEF Keyed
      <4>3. i \in P
        BY <4>1, <4>2
      <4>4. PICK j \in 1..Len(toasts') : at[j] = i
        BY <3>3, <4>3 DEF Keeps
      <4> QED
        BY <3>4, <4>2, <4>4
    <3> QED
      BY <3>5, <3>6, <3>7 DEF Keyed
  <2> QED
    BY <2>1, <2>2, <2>3, ToastSteps
<1> QED
  BY <1>1, <1>2, KeyedCounts, TypeCorrect, PTL DEF Spec
=============================================================================
