------------------------- MODULE StreamServer_proofs -------------------------
(***************************************************************************)
(* Proofs about StreamServer, for any number of connections, descriptors   *)
(* and request paths and any backlog.                                      *)
(***************************************************************************)
EXTENDS StreamServer, TLAPS

(* What the HTTP thread holds while it handles a client.                   *)
Handling == HttpPcs \ {"start", "dead", "loop"}

HttpInv ==
    /\ hpc \in Handling => hfd \in FDs /\ hconn \in Conns
    /\ hpc \notin Handling => hfd = NoFd /\ hconn = NoConn
    /\ hpc \in {"try", "storeKey", "storeMode", "publish", "give"} => hmode \in Modes
    /\ hpc = "try" /\ hport = "stream" => slot = NoFd
    /\ hpc \in {"storeKey", "storeMode", "publish"} => slot = NoFd
    /\ hpc \in {"storeMode", "publish", "give"} /\ hmode = "ws" => key = hconn
    /\ hpc \in {"publish", "give"} => mode = hmode
    /\ hpc = "give" => slot = hfd

(* A claim in the slot carries the mode and key of its connection.         *)
ClaimInv ==
    /\ claimConn = NoConn <=> slot = NoFd
    /\ slot # NoFd => /\ claimMode \in Modes
                      /\ mode = claimMode
                      /\ claimMode = "ws" => key = claimConn
    /\ wpc = "dispatch" => wfd = slot
    /\ wpc \in Serving => wfd = slot /\ wmode = claimMode
    /\ wpc = "handshake" => wmode = "ws"

(* Once the worker has closed the slot's number it is free, or the HTTP    *)
(* thread's new client has it.                                             *)
ClosedInv == wpc = "closed" => fdt[slot] = NoConn \/ slot = hfd

IInv == TypeOK /\ HttpInv /\ NoLostWakeup /\ ClaimInv /\ NoLeak /\ ClosedInv

-----------------------------------------------------------------------------
LEMMA TypeInit == Init => TypeOK
BY ConstAssumption DEF Init, TypeOK, Ports, Modes, HttpPcs, WorkerPcs, ForcedStops

(* The clients keep the types.                                             *)
LEMMA TypeClients == TypeOK /\ HttpInv /\ Clients => TypeOK'
<1> SUFFICES ASSUME TypeOK, Clients PROVE TypeOK'
  OBVIOUS
<1>1. ASSUME NEW c \in Conns, Disconnect(c) PROVE TypeOK'
  BY <1>1 DEF TypeOK, Disconnect, httpVars, workerVars, slotVars
<1>2. ASSUME NEW c \in Conns, NEW p \in Ports, Connect(c, p) PROVE TypeOK'
  BY <1>2 DEF TypeOK, Connect, httpVars, workerVars, slotVars
<1> QED
  BY <1>1, <1>2 DEF Clients

(* The HTTP thread keeps the types.                                        *)
LEMMA TypeHttp == TypeOK /\ HttpInv /\ HttpThread => TypeOK'
<1> SUFFICES ASSUME TypeOK, HttpInv, HttpThread PROVE TypeOK'
  OBVIOUS
<1> USE ConstAssumption DEF TypeOK, netVars, workerVars, slotVars
<1>1. CASE Listen
  BY <1>1 DEF Listen, HttpPcs
<1>2. CASE Poll
  BY <1>2 DEF Poll
<1>3. ASSUME NEW p \in Ports, Accept(p) PROVE TypeOK'
  <2>1. Head(backlog[p]) \in Conns /\ Tail(backlog[p]) \in Seq(Conns)
    BY <1>3 DEF Accept
  <2> QED
    BY <1>3, <2>1 DEF Accept, Free, HttpPcs
<1>4. CASE Read
  <2>1. PICK r \in Requests :
          /\ hpc' = IF hport = "http" THEN HttpRoute(r) ELSE StreamRoute(r)
          /\ hmode' = IF StartsStream(r) THEN r.path ELSE "none"
    BY <1>4 DEF Read
  <2>2. hmode' \in Modes \cup {"none"}
    BY <2>1 DEF StartsStream
  <2>3. hpc' \in HttpPcs
    BY <2>1 DEF Requests, HttpRoute, StreamRoute, HttpPcs
  <2> QED
    BY <1>4, <2>2, <2>3 DEF Read
<1>5. CASE IsBusy \/ TryFree \/ Resolution \/ Switch \/ Reply
  BY <1>5 DEF IsBusy, TryFree, Resolution, Switch, Reply, HttpGoto, HttpPcs
<1>6. CASE TryBusy
  BY <1>6 DEF TryBusy, NextClient, HttpPcs
<1>7. CASE StoreKey \/ StoreMode
  BY <1>7 DEF StoreKey, StoreMode, HttpInv, HttpPcs
<1>8. CASE Publish
  BY <1>8 DEF Publish, HttpInv, HttpPcs
<1>9. CASE Give
  BY <1>9 DEF Give, NextClient, HttpPcs
<1>10. CASE StopRead
  BY <1>10 DEF StopRead, HttpPcs
<1>11. CASE StopClose
  <2>1. fdt' \in [FDs -> Conns \cup {NoConn}]
    BY <1>11 DEF StopClose, zsock_close
  <2>2. hpc' \in HttpPcs /\ forced' \in ForcedStops
    BY <1>11 DEF StopClose, HttpPcs, ForcedStops
  <2> QED
    BY <1>11, <2>1, <2>2 DEF StopClose
<1>12. CASE StopDone \/ StopTimeout
  BY <1>12 DEF StopDone, StopTimeout, StopReturn, HttpPcs, ForcedStops
<1>13. CASE Close
  BY <1>13 DEF Close, zsock_close, NextClient, HttpPcs
<1> QED
  BY <1>1, <1>2, <1>3, <1>4, <1>5, <1>6, <1>7, <1>8, <1>9, <1>10, <1>11,
     <1>12, <1>13 DEF HttpThread

(* The worker keeps the types.                                             *)
LEMMA TypeWorker == TypeOK /\ StreamThread => TypeOK'
<1> SUFFICES ASSUME TypeOK, StreamThread PROVE TypeOK'
  OBVIOUS
<1> USE ConstAssumption DEF TypeOK, netVars, httpVars, slotVars
<1>1. CASE Take
  BY <1>1 DEF Take, WorkerPcs
<1>2. CASE Wake \/ Dispatch
  BY <1>2 DEF Wake, Dispatch, Entry, Modes, WorkerPcs
<1>3. CASE Handshake \/ Refused \/ Header \/ Capture \/ Send \/ AwaitPeer
  BY <1>3 DEF Handshake, Refused, Header, Capture, Send, AwaitPeer,
              WorkerGoto, WorkerPcs
<1>4. CASE RefusedClose \/ WorkerClose
  BY <1>4 DEF RefusedClose, WorkerClose, zsock_close, WorkerPcs
<1>5. CASE Release
  BY <1>5 DEF Release, WorkerPcs
<1> QED
  BY <1>1, <1>2, <1>3, <1>4, <1>5 DEF StreamThread
-----------------------------------------------------------------------------
(* The invariant but for the types, and the environment's steps.           *)
SlotInv == HttpInv /\ NoLostWakeup /\ ClaimInv /\ NoLeak /\ ClosedInv

LEMMA SlotInit == Init => SlotInv
BY ConstAssumption
   DEF Init, SlotInv, HttpInv, Handling, HttpPcs, NoLostWakeup, ClaimInv,
       Serving, WorkerPcs, NoLeak, ClosedInv

(* Clients touch neither thread, nor a descriptor.                         *)
LEMMA SlotStutter ==
    ASSUME IInv, UNCHANGED <<fdt, httpVars, workerVars, slotVars>>
    PROVE  SlotInv'
BY DEF IInv, SlotInv, HttpInv, NoLostWakeup, ClaimInv, NoLeak, ClosedInv,
       httpVars, workerVars, slotVars

LEMMA SlotClients == IInv /\ Clients => SlotInv'
<1> SUFFICES ASSUME IInv, Clients PROVE SlotInv'
  OBVIOUS
<1>1. UNCHANGED <<fdt, httpVars, workerVars, slotVars>>
  BY DEF Clients, Connect, Disconnect
<1> QED
  BY <1>1, SlotStutter

(* The steps of the HTTP thread before it has a request.                   *)
LEMMA SlotHttpIdle ==
    ASSUME IInv, Listen \/ Poll \/ (\E p \in Ports : Accept(p)) \/ Read
    PROVE  SlotInv'
<1> USE ConstAssumption
        DEF IInv, TypeOK, SlotInv, HttpInv, Handling, HttpPcs, NoLostWakeup,
            ClaimInv, NoLeak, ClosedInv, netVars, workerVars, slotVars
<1>1. CASE Listen
  BY <1>1 DEF Listen
<1>2. CASE Poll
  BY <1>2 DEF Poll
<1>3. ASSUME NEW p \in Ports, Accept(p) PROVE SlotInv'
  <2>1. Head(backlog[p]) \in Conns
    BY <1>3 DEF Accept
  <2>2. PICK f \in Free : /\ fdt' = [fdt EXCEPT ![f] = Head(backlog[p])]
                          /\ hfd' = f
                          /\ hconn' = Head(backlog[p])
    BY <1>3 DEF Accept
  <2>3. NoLeak' /\ ClosedInv'
    BY <1>3, <2>2 DEF Accept, Free
  <2>4. HttpInv' /\ NoLostWakeup' /\ ClaimInv'
    BY <1>3, <2>1, <2>2 DEF Accept, Free
  <2> QED
    BY <2>3, <2>4
<1>4. CASE Read
  <2>1. PICK r \in Requests :
          /\ hpc' = IF hport = "http" THEN HttpRoute(r) ELSE StreamRoute(r)
          /\ hmode' = IF StartsStream(r) THEN r.path ELSE "none"
    BY <1>4 DEF Read
  <2>2. hpc' \in {"close", "reply", "try", "resolution", "isBusy"}
    BY <2>1 DEF HttpRoute, StreamRoute
  <2>3. hpc' = "try" => hport = "http" /\ hmode' \in Modes
    BY <2>1 DEF HttpRoute, StreamRoute, StartsStream
  <2> QED
    BY <1>4, <2>2, <2>3 DEF Read
<1> QED
  BY <1>1, <1>2, <1>3, <1>4

(* stream_try_start.                                                       *)
LEMMA SlotHttpTry ==
    ASSUME IInv, IsBusy \/ TryBusy \/ TryFree \/ StoreKey \/ StoreMode \/ Publish \/ Give
    PROVE  SlotInv'
<1> USE ConstAssumption
        DEF IInv, TypeOK, SlotInv, HttpInv, Handling, HttpPcs, NoLostWakeup,
            ClaimInv, NoLeak, ClosedInv, netVars, workerVars, slotVars
<1>1. CASE IsBusy
  BY <1>1 DEF IsBusy, HttpGoto
<1>2. CASE TryBusy
  BY <1>2 DEF TryBusy, NextClient, Ports
<1>3. CASE TryFree
  BY <1>3 DEF TryFree, HttpGoto
<1>4. CASE StoreKey \/ StoreMode
  BY <1>4 DEF StoreKey, StoreMode
<1>5. CASE Publish
  BY <1>5 DEF Publish, Serving, WorkerPcs
<1>6. CASE Give
  BY <1>6 DEF Give, NextClient
<1> QED
  BY <1>1, <1>2, <1>3, <1>4, <1>5, <1>6

(* The resolution request, the answers and the closes.                     *)
LEMMA SlotHttpReply ==
    ASSUME IInv, \/ Resolution \/ StopRead \/ StopClose \/ StopDone
                 \/ StopTimeout \/ Switch \/ Reply \/ Close
    PROVE  SlotInv'
<1> USE ConstAssumption
        DEF IInv, TypeOK, SlotInv, HttpInv, Handling, HttpPcs, NoLostWakeup,
            ClaimInv, NoLeak, ClosedInv, netVars, workerVars, slotVars
<1>1. CASE Resolution \/ Switch \/ Reply
  BY <1>1 DEF Resolution, Switch, Reply, HttpGoto
<1>2. CASE StopRead
  BY <1>2 DEF StopRead
<1>3. CASE StopClose
  BY <1>3 DEF StopClose, zsock_close
<1>4. CASE StopDone \/ StopTimeout
  BY <1>4 DEF StopDone, StopTimeout, StopReturn
<1>5. CASE Close
  BY <1>5 DEF Close, zsock_close, NextClient
<1> QED
  BY <1>1, <1>2, <1>3, <1>4, <1>5

(* The worker.                                                             *)
LEMMA SlotWorker == IInv /\ StreamThread => SlotInv'
<1> SUFFICES ASSUME IInv, StreamThread PROVE SlotInv'
  OBVIOUS
<1> USE ConstAssumption
        DEF IInv, TypeOK, SlotInv, HttpInv, Handling, HttpPcs, NoLostWakeup,
            ClaimInv, NoLeak, ClosedInv, Serving, WorkerPcs,
            netVars, httpVars, slotVars
<1>1. CASE Take
  BY <1>1 DEF Take
<1>2. CASE Wake \/ Dispatch
  BY <1>2 DEF Wake, Dispatch, Entry, Modes
<1>3. CASE Handshake \/ Refused \/ Header \/ Capture \/ Send \/ AwaitPeer
  BY <1>3 DEF Handshake, Refused, Header, Capture, Send, AwaitPeer, WorkerGoto
<1>4. CASE RefusedClose \/ WorkerClose
  BY <1>4 DEF RefusedClose, WorkerClose, zsock_close
<1>5. CASE Release
  BY <1>5 DEF Release
<1> QED
  BY <1>1, <1>2, <1>3, <1>4, <1>5 DEF StreamThread
-----------------------------------------------------------------------------
(* The invariant holds in the initial state and every step keeps it.       *)
LEMMA InvInit == Init => IInv
BY TypeInit, SlotInit DEF IInv, SlotInv

LEMMA InvNext == IInv /\ [Next]_vars => IInv'
<1> SUFFICES ASSUME IInv, [Next]_vars PROVE IInv'
  OBVIOUS
<1>1. CASE HttpThread
  <2>1. TypeOK'
    BY <1>1, TypeHttp DEF IInv
  <2>2. SlotInv'
    BY <1>1, SlotHttpIdle, SlotHttpTry, SlotHttpReply DEF HttpThread
  <2> QED
    BY <2>1, <2>2 DEF IInv, SlotInv
<1>2. CASE StreamThread
  BY <1>2, TypeWorker, SlotWorker DEF IInv, SlotInv
<1>3. CASE Clients
  BY <1>3, TypeClients, SlotClients DEF IInv, SlotInv
<1>4. CASE UNCHANGED vars
  <2>1. TypeOK'
    BY <1>4 DEF IInv, TypeOK, vars, netVars, httpVars, workerVars, slotVars
  <2>2. SlotInv'
    BY <1>4, SlotStutter DEF vars, netVars
  <2> QED
    BY <2>1, <2>2 DEF IInv, SlotInv
<1> QED
  BY <1>1, <1>2, <1>3, <1>4 DEF Next, Dead

THEOREM Invariant == Spec => []IInv
BY InvInit, InvNext, PTL DEF Spec

(* Type correctness.                                                       *)
THEOREM TypeCorrect == Spec => []TypeOK
<1>1. IInv => TypeOK
  BY DEF IInv
<1> QED
  BY Invariant, <1>1, PTL

(* No client descriptor leaks, whatever clients ask for and however long a *)
(* forced stop waits.                                                      *)
THEOREM DescriptorsOwned == Spec => []NoLeak
<1>1. IInv => NoLeak
  BY DEF IInv
<1> QED
  BY Invariant, <1>1, PTL

(* The semaphore, the slot and the worker agree: no wakeup is lost.        *)
THEOREM WakeupsKept == Spec => []NoLostWakeup
<1>1. IInv => NoLostWakeup
  BY DEF IInv
<1> QED
  BY Invariant, <1>1, PTL

(* The worker serves the mode, key and descriptor of its one claim.        *)
THEOREM ClaimServed == Spec => []ServesTheClaim
<1>1. IInv => ServesTheClaim
  BY ConstAssumption
     DEF IInv, ServesTheClaim, ClaimInv, NoLostWakeup, Serving, WorkerPcs
<1> QED
  BY Invariant, <1>1, PTL
-----------------------------------------------------------------------------
(* A forced stop that does not give up leaves the slot free, and only the  *)
(* HTTP thread itself could fill it again.                                 *)
SwitchInv == hpc = "switch" /\ forced # "gaveUp" => slot = NoFd

(* Until a forced stop gives up: the HTTP thread's number is its client's, *)
(* unless the thread is past a close of the slot's number; the slot's      *)
(* number is the stream's until the worker or a forced stop closes it, and *)
(* is not the HTTP thread's.  No forced stop yet: no exception.            *)
Held == Handling \ {"stopWait", "switch", "reply", "close"}
OwnerInv ==
    /\ hpc \in Held => fdt[hfd] = hconn
    /\ hpc = "stopWait" => forced # "none"
    /\ hpc \in Handling /\ forced = "none" => fdt[hfd] = hconn
    /\ hpc = "give" => hconn = claimConn
    /\ hpc = "stopClose" /\ slot # NoFd => slot = stopFd
    /\ slot # NoFd /\ wpc # "closed" =>
         /\ hpc = "stopWait" => fdt[slot] = NoConn
         /\ hpc # "stopWait" => fdt[slot] = claimConn
         /\ hpc \notin {"stopWait", "give"} => hfd # slot

TouchInv == forced # "gaveUp" => OwnerInv

LEMMA SwitchHttp == ASSUME IInv, SwitchInv, HttpThread PROVE SwitchInv'
<1> USE DEF SwitchInv, IInv, HttpInv, netVars, workerVars, slotVars
<1>1. CASE Resolution \/ StopRead \/ StopDone \/ StopTimeout
  BY <1>1 DEF Resolution, StopRead, StopDone, StopTimeout, StopReturn, HttpGoto
<1>2. CASE IsBusy \/ TryBusy \/ TryFree \/ StoreKey \/ StoreMode \/ Publish \/ Give
  BY <1>2 DEF IsBusy, TryBusy, TryFree, StoreKey, StoreMode, Publish, Give,
              HttpGoto, NextClient
<1>3. CASE Listen \/ Poll \/ StopClose \/ Switch \/ Reply \/ Close
  BY <1>3 DEF Listen, Poll, StopClose, Switch, Reply, Close, HttpGoto, NextClient
<1>4. ASSUME NEW p \in Ports, Accept(p) PROVE SwitchInv'
  BY <1>4 DEF Accept
<1>5. CASE Read
  <2>1. hpc' # "switch"
    BY <1>5 DEF Read, HttpRoute, StreamRoute
  <2> QED
    BY <2>1
<1> QED
  BY <1>1, <1>2, <1>3, <1>4, <1>5 DEF HttpThread

LEMMA OwnerHttp == ASSUME IInv, TouchInv, HttpThread PROVE TouchInv'
<1> USE ConstAssumption
        DEF TouchInv, OwnerInv, Held, IInv, TypeOK, HttpInv, Handling, HttpPcs,
            NoLostWakeup, ClaimInv, netVars, workerVars, slotVars
<1>1. CASE Listen \/ Poll
  BY <1>1 DEF Listen, Poll
<1>2. ASSUME NEW p \in Ports, Accept(p) PROVE TouchInv'
  <2>1. Head(backlog[p]) \in Conns
    BY <1>2 DEF Accept
  <2> QED
    BY <1>2, <2>1 DEF Accept, Free
<1>3. CASE Read
  <2>1. hpc' \in {"close", "reply", "try", "isBusy", "resolution"}
    BY <1>3 DEF Read, Requests, HttpRoute, StreamRoute
  <2> QED
    BY <1>3, <2>1 DEF Read
<1>4. CASE IsBusy \/ TryFree \/ Resolution \/ Switch \/ Reply
  BY <1>4 DEF IsBusy, TryFree, Resolution, Switch, Reply, HttpGoto
<1>5. CASE TryBusy
  BY <1>5 DEF TryBusy, NextClient
<1>6. CASE StoreKey \/ StoreMode \/ Publish
  BY <1>6 DEF StoreKey, StoreMode, Publish
<1>7. CASE Give
  BY <1>7 DEF Give, NextClient
<1>8. CASE StopRead
  BY <1>8 DEF StopRead
<1>9. CASE StopClose
  BY <1>9 DEF StopClose, zsock_close
<1>10. CASE StopDone
  BY <1>10 DEF StopDone, StopReturn
<1>11. CASE StopTimeout
  BY <1>11 DEF StopTimeout
<1>12. CASE Close
  BY <1>12 DEF Close, zsock_close, NextClient
<1> QED
  BY <1>1, <1>2, <1>3, <1>4, <1>5, <1>6, <1>7, <1>8, <1>9, <1>10, <1>11,
     <1>12 DEF HttpThread

LEMMA OwnerWorker ==
    ASSUME IInv, SwitchInv, TouchInv, StreamThread
    PROVE  SwitchInv' /\ TouchInv'
<1> USE DEF SwitchInv, TouchInv, OwnerInv, Held, IInv, TypeOK, HttpInv, Handling,
            HttpPcs, NoLostWakeup, ClaimInv, netVars, httpVars, slotVars
<1>1. CASE Take \/ Wake \/ Dispatch
  BY <1>1 DEF Take, Wake, Dispatch, Entry, Modes
<1>2. CASE Handshake \/ Refused \/ Header \/ Capture \/ Send \/ AwaitPeer
  BY <1>2 DEF Handshake, Refused, Header, Capture, Send, AwaitPeer, WorkerGoto
<1>3. CASE RefusedClose \/ WorkerClose
  BY <1>3 DEF RefusedClose, WorkerClose, zsock_close, Serving, WorkerPcs
<1>4. CASE Release
  BY <1>4 DEF Release
<1> QED
  BY <1>1, <1>2, <1>3, <1>4 DEF StreamThread

LEMMA OwnerNext ==
    IInv /\ SwitchInv /\ TouchInv /\ [Next]_vars => SwitchInv' /\ TouchInv'
<1> SUFFICES ASSUME IInv, SwitchInv, TouchInv, [Next]_vars
             PROVE  SwitchInv' /\ TouchInv'
  OBVIOUS
<1> USE DEF SwitchInv, TouchInv, OwnerInv, netVars, httpVars, workerVars, slotVars
<1>1. CASE HttpThread
  BY <1>1, SwitchHttp, OwnerHttp
<1>2. CASE StreamThread
  BY <1>2, OwnerWorker
<1>3. CASE Clients
  BY <1>3 DEF Clients, Connect, Disconnect
<1>4. CASE UNCHANGED vars
  BY <1>4 DEF vars
<1> QED
  BY <1>1, <1>2, <1>3, <1>4 DEF Next, Dead

THEOREM OwnerInvariant == Spec => [](IInv /\ SwitchInv /\ TouchInv)
<1>1. Init => SwitchInv /\ TouchInv
  BY DEF Init, SwitchInv, TouchInv, OwnerInv, Held, Handling
<1> QED
  BY Invariant, <1>1, OwnerNext, PTL DEF Spec

(* The camera is reprogrammed only when no stream is active, unless a      *)
(* forced stop gave up on its worker.                                      *)
THEOREM SwitchIsQuiet == Spec => []QuietSwitch
<1>1. IInv /\ SwitchInv => QuietSwitch
  BY DEF IInv, NoLostWakeup, SwitchInv, QuietSwitch
<1> QED
  BY OwnerInvariant, <1>1, PTL

(* Until a forced stop gives up, whatever the worker sends, receives or    *)
(* closes is its own client's, although numbers are reused at once.        *)
THEOREM WorkerKeepsToItsClient == Spec => []WorkerTouchesItsClient
<1>1. IInv /\ TouchInv => WorkerTouchesItsClient
  BY DEF IInv, NoLostWakeup, ClaimInv, TouchInv, OwnerInv,
         WorkerTouchesItsClient, Touching, Serving, WorkerPcs
<1> QED
  BY OwnerInvariant, <1>1, PTL

(* As long as no descriptor was closed by force, answers reach the client  *)
(* that asked.                                                             *)
THEOREM AnswersReachAskers == Spec => []RepliesUnforced
<1>1. TouchInv => RepliesUnforced
  BY DEF TouchInv, OwnerInv, RepliesUnforced, ReplyReachesRequester,
         Handling, HttpPcs
<1> QED
  BY OwnerInvariant, <1>1, PTL
-----------------------------------------------------------------------------
(* Refinement: Publish is a claim, Dispatch its taking up, Release its     *)
(* release, and every other step leaves the abstract slot as it is.        *)
SlotSame == Stage' = Stage /\ claimConn' = claimConn

LEMMA HttpRefines ==
    ASSUME IInv, HttpThread
    PROVE  (\E c \in Conns : Slot!Claim(c)) \/ SlotSame
<1> USE ConstAssumption
        DEF SlotSame, Stage, IInv, TypeOK, HttpInv, Handling, HttpPcs,
            NoLostWakeup, ClaimInv, Serving, WorkerPcs, workerVars, slotVars
<1>1. CASE Publish
  BY <1>1 DEF Publish, Slot!Claim
<1>2. CASE Listen \/ Poll \/ Read \/ IsBusy \/ TryBusy \/ TryFree
         \/ StoreKey \/ StoreMode \/ Give
  BY <1>2 DEF Listen, Poll, Read, IsBusy, TryBusy, TryFree, StoreKey, StoreMode,
              Give, HttpGoto
<1>3. CASE \/ Resolution \/ StopRead \/ StopClose \/ StopDone \/ StopTimeout
           \/ Switch \/ Reply \/ Close
  BY <1>3 DEF Resolution, StopRead, StopClose, StopDone, StopTimeout, StopReturn,
              Switch, Reply, Close, HttpGoto
<1>4. ASSUME NEW p \in Ports, Accept(p) PROVE SlotSame
  BY <1>4 DEF Accept
<1> QED
  BY <1>1, <1>2, <1>3, <1>4 DEF HttpThread

LEMMA WorkerRefines ==
    ASSUME IInv, StreamThread
    PROVE  Slot!Serve \/ Slot!Release \/ SlotSame
<1> USE ConstAssumption
        DEF SlotSame, Stage, IInv, TypeOK, NoLostWakeup, ClaimInv,
            Serving, WorkerPcs, slotVars
<1>1. CASE Dispatch
  BY <1>1 DEF Dispatch, Entry, Modes, Slot!Serve
<1>2. CASE Release
  BY <1>2 DEF Release, Slot!Release
<1>3. CASE Take \/ Wake
  BY <1>3 DEF Take, Wake
<1>4. CASE \/ Handshake \/ Refused \/ RefusedClose \/ Header \/ Capture \/ Send
           \/ AwaitPeer \/ WorkerClose
  BY <1>4 DEF Handshake, Refused, RefusedClose, Header, Capture, Send, AwaitPeer,
              WorkerClose, WorkerGoto
<1> QED
  BY <1>1, <1>2, <1>3, <1>4 DEF StreamThread

(* The HTTP thread, the worker and a forced stop implement the abstract    *)
(* slot: claims are exclusive, taken up once, released by the worker.      *)
THEOREM SlotRefinement == Spec => ImplementsSlot
<1>1. Init => Slot!Init
  BY DEF Init, Slot!Init, Stage
<1>2. IInv /\ [Next]_vars => [Slot!Next]_(Slot!vars)
  <2> SUFFICES ASSUME IInv, [Next]_vars PROVE [Slot!Next]_(Slot!vars)
    OBVIOUS
  <2>1. CASE HttpThread
    BY <2>1, HttpRefines DEF Slot!Next, Slot!vars, SlotSame
  <2>2. CASE StreamThread
    BY <2>2, WorkerRefines DEF Slot!Next, Slot!vars, SlotSame
  <2>3. CASE Clients
    BY <2>3 DEF Clients, Connect, Disconnect, workerVars, slotVars, Slot!vars, Stage
  <2>4. CASE UNCHANGED vars
    BY <2>4 DEF vars, workerVars, slotVars, Slot!vars, Stage
  <2> QED
    BY <2>1, <2>2, <2>3, <2>4 DEF Next, Dead
<1> QED
  BY Invariant, <1>1, <1>2, PTL DEF Spec, ImplementsSlot, Slot!Spec
=============================================================================
