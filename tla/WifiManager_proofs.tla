------------------------- MODULE WifiManager_proofs -------------------------
(***************************************************************************)
(* Proofs about WifiManager, for any addresses, any size of the event      *)
(* queue and any number of disconnections.                                 *)
(***************************************************************************)
EXTENDS WifiManager, SequenceTheorems, FiniteSetTheorems, TLAPS

(* The last event not yet handled tells what the interface has, or had     *)
(* when its lease lapsed: whoever handles it finds the interface as it     *)
(* will be reported, or finds no address and reports nothing new.          *)
SettleInv ==
    /\ Settled
    /\ queue # <<>> => (queue[Len(queue)] = "addr_add" <=> lease # NoAddr \/ lapsed)

(* A reconnection is counted only against a disconnection of its own.      *)
CountInv ==
    /\ OneReconnect
    /\ ~connected /\ disconnect_count > 0 => reconnect_count < disconnect_count

IInv == TypeOK /\ SettleInv /\ CountInv

Events == {"addr_add", "disconnect"}
Where(q, e) == {i \in 1 .. Len(q) : q[i] = e}
-----------------------------------------------------------------------------
(* What is left of a sequence still ends with its last element, or was     *)
(* its only element.                                                       *)
LEMMA TailLast ==
    ASSUME NEW S, NEW s \in Seq(S), s # <<>>
    PROVE  /\ Tail(s) \in Seq(S) /\ Len(Tail(s)) < Len(s)
           /\ Tail(s) # <<>> => Tail(s)[Len(Tail(s))] = s[Len(s)]
           /\ Tail(s) = <<>> => s[Len(s)] = Head(s)
<1> DEFINE t == Tail(s)
<1>1. /\ t \in Seq(S) /\ Len(t) = Len(s) - 1
      /\ \A i \in 1 .. Len(t) : t[i] = s[i + 1]
  BY HeadTailProperties
<1>2. Len(s) \in Nat /\ Len(t) \in Nat
  BY <1>1, LenProperties
<1>3. Head(s) = s[1]
  OBVIOUS
<1>4. (t = <<>> => Len(t) = 0) /\ (t # <<>> => Len(t) # 0)
  BY <1>1, EmptySeq
<1> HIDE DEF t
<1>5. CASE t = <<>>
  <2>1. Len(s) = 1
    BY <1>1, <1>2, <1>4, <1>5
  <2> QED
    BY <1>1, <1>2, <1>3, <1>4, <1>5, <2>1 DEF t
<1>6. CASE t # <<>>
  <2>1. Len(t) \in 1 .. Len(t) /\ Len(t) + 1 = Len(s)
    BY <1>1, <1>2, <1>4, <1>6
  <2>2. t[Len(t)] = s[Len(s)] /\ Len(t) < Len(s)
    BY <1>1, <1>2, <2>1
  <2> QED
    BY <1>1, <1>6, <2>2 DEF t
<1> QED
  BY <1>5, <1>6

(* Counting the events e of a queue: one more when e is put at its end,    *)
(* one less when e is taken from its head.                                 *)
LEMMA WhereFinite ==
    ASSUME NEW q \in Seq(Events), NEW e
    PROVE  IsFiniteSet(Where(q, e)) /\ Cardinality(Where(q, e)) \in Nat
<1>1. Len(q) \in Nat
  BY LenProperties
<1>2. IsFiniteSet(1 .. Len(q)) /\ Where(q, e) \in SUBSET (1 .. Len(q))
  BY <1>1, FS_Interval DEF Where
<1>3. IsFiniteSet(Where(q, e))
  BY <1>2, FS_Subset
<1> QED
  BY <1>3, FS_CardinalityType

LEMMA WhereAppend ==
    ASSUME NEW q \in Seq(Events), NEW e \in Events, NEW x \in Events
    PROVE  Cardinality(Where(Append(q, x), e)) =
             Cardinality(Where(q, e)) + (IF x = e THEN 1 ELSE 0)
<1> DEFINE p == Append(q, x)
<1>1. /\ Len(q) \in Nat /\ Len(p) = Len(q) + 1
      /\ \A i \in 1 .. Len(q) : p[i] = q[i]
      /\ p[Len(q) + 1] = x
  BY LenProperties, AppendProperties
<1> HIDE DEF p
<1>2. Len(q) + 1 \notin Where(q, e)
  BY <1>1 DEF Where
<1>3. CASE x = e
  <2>1. Where(p, e) = Where(q, e) \cup {Len(q) + 1}
    BY <1>1, <1>3 DEF Where
  <2> QED
    BY <1>2, <1>3, <2>1, WhereFinite, FS_AddElement DEF p
<1>4. CASE x # e
  <2>1. Where(p, e) = Where(q, e)
    BY <1>1, <1>4 DEF Where
  <2> QED
    BY <1>4, <2>1, WhereFinite DEF p
<1> QED
  BY <1>3, <1>4

LEMMA WhereTail ==
    ASSUME NEW q \in Seq(Events), q # <<>>, NEW e \in Events
    PROVE  Cardinality(Where(q, e)) =
             Cardinality(Where(Tail(q), e)) + (IF Head(q) = e THEN 1 ELSE 0)
<1> DEFINE t == Tail(q)
           W == Where(q, e) \ {1}
           f == [i \in W |-> i - 1]
<1>1. /\ t \in Seq(Events) /\ Len(q) \in Nat \ {0} /\ Len(t) = Len(q) - 1
      /\ \A i \in 1 .. Len(t) : t[i] = q[i + 1]
  BY HeadTailProperties, LenProperties, EmptySeq
<1>2. Head(q) = q[1]
  OBVIOUS
<1> HIDE DEF t
<1>3. f \in Bijection(W, Where(t, e))
  <2>1. ASSUME NEW i \in W PROVE f[i] \in Where(t, e) /\ i \in Nat
    BY <1>1, <2>1 DEF Where
  <2>2. \A i, j \in W : f[i] = f[j] => i = j
    BY <2>1
  <2>3. ASSUME NEW j \in Where(t, e) PROVE \E i \in W : f[i] = j
    <3>1. j + 1 \in W
      BY <1>1 DEF Where
    <3>2. f[j + 1] = j
      BY <3>1 DEF Where
    <3> QED
      BY <3>1, <3>2
  <2> QED
    BY <2>1, <2>2, <2>3 DEF Bijection, Injection, Surjection, IsInjective
<1>4. IsFiniteSet(Where(q, e)) /\ Cardinality(Where(q, e)) \in Nat
  BY WhereFinite
<1>5. IsFiniteSet(W)
  BY <1>4, FS_RemoveElement
<1>6. Cardinality(Where(t, e)) = Cardinality(W)
  BY <1>3, <1>5, FS_Bijection DEF ExistsBijection
<1>7. Cardinality(W) = IF 1 \in Where(q, e) THEN Cardinality(Where(q, e)) - 1
                                            ELSE Cardinality(Where(q, e))
  BY <1>4, FS_RemoveElement
<1>8. 1 \in Where(q, e) <=> Head(q) = e
  BY <1>1, <1>2 DEF Where
<1> HIDE DEF W
<1> QED
  BY <1>4, <1>6, <1>7, <1>8 DEF t

LEMMA InvInit == Init => IInv
<1> SUFFICES ASSUME Init PROVE IInv
  OBVIOUS
<1> USE ConstAssumption DEF Init
<1>1. <<>> \in Seq({"addr_add", "disconnect"}) /\ Len(<<>>) = 0
  BY EmptySeq
<1>2. connected \in BOOLEAN /\ powerSave \in BOOLEAN /\ lapsed \in BOOLEAN
  OBVIOUS
<1>3. TypeOK
  BY <1>1, <1>2 DEF TypeOK
<1>4. SettleInv
  BY DEF SettleInv, Settled
<1>5. CountInv
  BY DEF CountInv, OneReconnect
<1> QED
  BY <1>3, <1>4, <1>5 DEF IInv

(* wifi_manager_init changes nothing of what the events change.            *)
LEMMA InvBoot == ASSUME IInv, Boot PROVE IInv'
<1> USE DEF IInv, TypeOK, SettleInv, Settled, CountInv, OneReconnect,
            extVars, mgrVars
<1>1. CASE wifi_connect
  BY <1>1 DEF wifi_connect
<1>2. CASE TakeSem
  BY <1>2 DEF TakeSem
<1>3. CASE TakeTimeout
  BY <1>3 DEF TakeTimeout
<1>4. CASE SetPs
  BY <1>4 DEF SetPs
<1> QED
  BY <1>1, <1>2, <1>3, <1>4 DEF Boot

(* A new event is the last one of the queue and tells of the last change;  *)
(* a lapse raises none.                                                    *)
LEMMA InvDriver == ASSUME IInv, Driver PROVE IInv'
<1> USE DEF IInv, CountInv, OneReconnect, mgrVars, bootVars
<1>1. ASSUME NEW e \in {"addr_add", "disconnect"}, Raise(e)
      PROVE  /\ queue' \in Seq({"addr_add", "disconnect"})
             /\ Len(queue') <= QueueSize
             /\ queue' # <<>> /\ queue'[Len(queue')] = e
  BY <1>1, ConstAssumption DEF Raise, TypeOK
<1>2. ASSUME NEW a \in Addrs, Assign(a) PROVE IInv'
  <2>1. /\ lease' \in Addrs /\ lease' # NoAddr /\ Raise("addr_add")
        /\ lapsed' = FALSE
    BY <1>2, ConstAssumption DEF Assign
  <2>2. TypeOK'
    BY <1>1, <1>2, <2>1 DEF Assign, TypeOK
  <2>3. SettleInv'
    BY <1>1, <2>1 DEF SettleInv, Settled
  <2> QED
    BY <1>2, <2>2, <2>3 DEF Assign
<1>3. CASE LinkLost
  <2>1. lease' = NoAddr /\ lapsed' = FALSE /\ Raise("disconnect")
    BY <1>3 DEF LinkLost
  <2>2. TypeOK'
    <3>1. drops' \in 0 .. MaxDrops
      BY <1>3, ConstAssumption DEF LinkLost, TypeOK
    <3>2. lease' \in Addrs \cup {NoAddr} /\ lapsed' \in BOOLEAN
      BY <2>1
    <3>3. /\ queue' \in Seq({"addr_add", "disconnect"})
          /\ Len(queue') <= QueueSize
      BY <1>1, <2>1
    <3> QED
      BY <1>3, <3>1, <3>2, <3>3 DEF LinkLost, TypeOK
  <2>3. SettleInv'
    BY <1>1, <2>1 DEF SettleInv, Settled
  <2> QED
    BY <1>3, <2>2, <2>3 DEF LinkLost
<1>4. CASE LeaseLost
  <2>1. lease # NoAddr /\ lease' = NoAddr /\ lapsed' = TRUE /\ queue' = queue
    BY <1>4 DEF LeaseLost
  <2>2. TypeOK'
    BY <1>4, <2>1 DEF LeaseLost, TypeOK
  <2>3. SettleInv'
    BY <2>1 DEF SettleInv, Settled
  <2> QED
    BY <1>4, <2>2, <2>3 DEF LeaseLost
<1> QED
  BY <1>2, <1>3, <1>4 DEF Driver

(* The handlers take the first event; if it was the last one too, what     *)
(* they set is the interface's state, unless its lease lapsed.             *)
LEMMA InvHandler == ASSUME IInv, Handler PROVE IInv'
<1> USE ConstAssumption DEF IInv
<1>1. ASSUME NEW e \in {"addr_add", "disconnect"}, Takes(e)
      PROVE  /\ queue' \in Seq({"addr_add", "disconnect"})
             /\ Len(queue') <= QueueSize
             /\ queue' # <<>> => queue'[Len(queue')] = queue[Len(queue)]
             /\ queue' = <<>> => queue[Len(queue)] = e
  BY <1>1, TailLast DEF Takes, TypeOK
<1>2. CASE wifi_event_handler
  <2>1. /\ Takes("disconnect") /\ lease' = lease /\ lapsed' = lapsed
        /\ connected' = FALSE /\ disconnect_count' = disconnect_count + 1
        /\ reconnect_count' = reconnect_count
    BY <1>2 DEF wifi_event_handler
  <2>2. TypeOK'
    <3>1. queue' \in Seq({"addr_add", "disconnect"}) /\ Len(queue') <= QueueSize
      BY <1>1, <2>1
    <3>2. connected' \in BOOLEAN /\ powerSave' \in BOOLEAN
      BY <1>2 DEF wifi_event_handler, bootVars, TypeOK
    <3>3. disconnect_count' \in Nat /\ reconnect_count' \in Nat
      BY <2>1 DEF TypeOK
    <3> QED
      BY <1>2, <3>1, <3>2, <3>3 DEF wifi_event_handler, bootVars, TypeOK
  <2>3. SettleInv'
    <3>1. queue # <<>>
      BY <2>1 DEF Takes
    <3>2. queue' = <<>> => lease = NoAddr /\ ~lapsed
      BY <1>1, <2>1, <3>1 DEF SettleInv
    <3> QED
      BY <1>1, <2>1, <3>1, <3>2 DEF SettleInv, Settled
  <2>4. CountInv'
    BY <2>1 DEF CountInv, OneReconnect, TypeOK
  <2> QED
    BY <2>2, <2>3, <2>4
<1>3. CASE ipv4_event_handler
  <2>1. /\ Takes("addr_add") /\ lease' = lease /\ lapsed' = lapsed
        /\ disconnect_count' = disconnect_count
    BY <1>3 DEF ipv4_event_handler
  <2>2. TypeOK'
    <3>1. queue' \in Seq({"addr_add", "disconnect"}) /\ Len(queue') <= QueueSize
      BY <1>1, <2>1
    <3>2. connected' \in BOOLEAN /\ powerSave' \in BOOLEAN
      BY <1>3 DEF ipv4_event_handler, TypeOK
    <3>3. disconnect_count' \in Nat /\ reconnect_count' \in Nat
      BY <1>3 DEF ipv4_event_handler, TypeOK
    <3>4. wifi_connected_sem' \in 0 .. 1
      BY <1>3 DEF ipv4_event_handler, SemGiven, TypeOK
    <3>5. ip_addr_str' \in Addrs \cup {NoAddr} /\ lease' \in Addrs \cup {NoAddr}
      BY <1>3 DEF ipv4_event_handler, NewAddress, TypeOK
    <3> QED
      BY <1>3, <3>1, <3>2, <3>3, <3>4, <3>5 DEF ipv4_event_handler, TypeOK
  <2>3. SettleInv'
    <3>1. queue # <<>>
      BY <2>1 DEF Takes
    <3>2. queue' = <<>> => lease # NoAddr \/ lapsed
      BY <1>1, <2>1, <3>1 DEF SettleInv
    <3>3. lease # NoAddr => connected' = TRUE /\ ip_addr_str' = lease
      BY <1>3 DEF ipv4_event_handler, HasAddress, NewAddress
    <3> QED
      BY <1>1, <2>1, <3>1, <3>2, <3>3 DEF SettleInv, Settled
  <2>4. CountInv'
    BY <1>3, <2>1 DEF ipv4_event_handler, Reconnected, CountInv, OneReconnect, TypeOK
  <2> QED
    BY <2>2, <2>3, <2>4
<1> QED
  BY <1>2, <1>3 DEF Handler

LEMMA InvNext == IInv /\ [Next]_vars => IInv'
<1> SUFFICES ASSUME IInv, [Next]_vars PROVE IInv'
  OBVIOUS
<1>1. CASE UNCHANGED vars
  BY <1>1 DEF vars, extVars, mgrVars, bootVars, IInv, TypeOK, SettleInv,
              Settled, CountInv, OneReconnect
<1>2. CASE Restart
  <2>1. Init' => IInv'
    BY InvInit, PTL
  <2> QED
    BY <1>2, <2>1 DEF Restart, Init
<1> QED
  BY <1>1, <1>2, InvBoot, InvDriver, InvHandler DEF Next

THEOREM Invariant == Spec => []IInv
BY InvInit, InvNext, PTL DEF Spec

(* With no event left to handle, the program reports the interface's       *)
(* address, and is connected without one only after a lapse, however late  *)
(* the events were handled.                                                *)
THEOREM StateSettles == Spec => []Settled
<1>1. IInv => Settled
  BY DEF IInv, SettleInv
<1> QED
  BY Invariant, <1>1, PTL

(* The type invariant, for any size of the queue.                          *)
THEOREM TypeCorrect == Spec => []TypeOK
<1>1. IInv => TypeOK
  BY DEF IInv
<1> QED
  BY Invariant, <1>1, PTL

(* Every disconnection raised is counted, or still in the queue.           *)
Balance == drops = disconnect_count + Count("disconnect")

LEMMA BalanceNext == IInv /\ Balance /\ [Next]_vars => Balance'
<1> SUFFICES ASSUME IInv, Balance, [Next]_vars PROVE Balance'
  OBVIOUS
<1> DEFINE e == "disconnect"
           n == Cardinality(Where(queue, e))
<1>1. queue \in Seq(Events) /\ e \in Events
  BY DEF IInv, TypeOK, Events
<1>2. drops = disconnect_count + n /\ n \in Nat /\ disconnect_count \in Nat
  BY <1>1, WhereFinite DEF Balance, Count, Where, IInv, TypeOK
<1>3. SUFFICES drops' = disconnect_count' + Cardinality(Where(queue', e))
  BY DEF Balance, Count, Where
<1>4. ASSUME NEW a \in Addrs, Assign(a) PROVE drops' = disconnect_count' + Cardinality(Where(queue', e))
  <2>1. queue' = Append(queue, "addr_add") /\ drops' = drops /\ disconnect_count' = disconnect_count
    BY <1>4 DEF Assign, Raise, mgrVars
  <2>2. "addr_add" \in Events /\ "addr_add" # e
    BY DEF Events
  <2>3. Cardinality(Where(queue', e)) = n + 0
    BY <1>1, <2>1, <2>2, WhereAppend
  <2> QED
    BY <1>2, <2>1, <2>3
<1>5. CASE LinkLost
  <2>1. queue' = Append(queue, e) /\ drops' = drops + 1 /\ disconnect_count' = disconnect_count
    BY <1>5 DEF LinkLost, Raise, mgrVars
  <2>2. Cardinality(Where(queue', e)) = n + 1
    BY <1>1, <2>1, WhereAppend
  <2> QED
    BY <1>2, <2>1, <2>2
<1>6. CASE wifi_event_handler
  <2>1. queue # <<>> /\ Head(queue) = e /\ queue' = Tail(queue) /\ drops' = drops
        /\ disconnect_count' = disconnect_count + 1
    BY <1>6 DEF wifi_event_handler, Takes
  <2>2. queue' \in Seq(Events) /\ n = Cardinality(Where(queue', e)) + 1
    BY <1>1, <2>1, WhereTail, TailLast
  <2>3. Cardinality(Where(queue', e)) \in Nat
    BY <2>2, WhereFinite
  <2> QED
    BY <1>2, <2>1, <2>2, <2>3
<1>7. CASE ipv4_event_handler
  <2>1. queue # <<>> /\ Head(queue) # e /\ queue' = Tail(queue) /\ drops' = drops
        /\ disconnect_count' = disconnect_count
    BY <1>7 DEF ipv4_event_handler, Takes
  <2>2. queue' \in Seq(Events) /\ n = Cardinality(Where(queue', e)) + 0
    BY <1>1, <2>1, WhereTail, TailLast
  <2>3. Cardinality(Where(queue', e)) \in Nat
    BY <2>2, WhereFinite
  <2> QED
    BY <1>2, <2>1, <2>2, <2>3
<1>8. CASE LeaseLost \/ Boot
  BY <1>2, <1>8 DEF LeaseLost, Boot, wifi_connect, TakeSem, TakeTimeout, SetPs,
                     extVars, mgrVars
<1>9. CASE Restart
  <2>1. queue' = <<>> /\ drops' = 0 /\ disconnect_count' = 0
    BY <1>9 DEF Restart
  <2>2. Where(<<>>, e) = {}
    BY EmptySeq DEF Where
  <2> QED
    BY <2>1, <2>2, FS_EmptySet
<1>10. CASE UNCHANGED vars
  BY <1>2, <1>10 DEF vars, extVars, mgrVars
<1> QED
  BY <1>4, <1>5, <1>6, <1>7, <1>8, <1>9, <1>10 DEF Next, Handler, Driver

(* Every disconnection is counted once, whatever the order of the events,  *)
(* and is followed by at most one reconnection.                            *)
THEOREM CountersAgree == Spec => []Counters
<1>1. Init => Balance
  <2>1. Where(<<>>, "disconnect") = {}
    BY EmptySeq DEF Where
  <2> QED
    BY <2>1, FS_EmptySet DEF Init, Balance, Count, Where
<1>2. IInv /\ Balance => Counters
  BY DEF IInv, CountInv, Balance, Counters
<1> QED
  BY Invariant, <1>1, <1>2, BalanceNext, PTL DEF Spec
=============================================================================
