---------------------------- MODULE StreamServer ----------------------------
(***************************************************************************)
(* The two threads that share one streaming slot, and the sockets they     *)
(* pass to each other.                                                     *)
(*                                                                         *)
(* The HTTP thread (http_server.c) polls two listening sockets, handles    *)
(* one accepted client at a time to the end, and hands the descriptor of a *)
(* streaming client to the stream worker (stream_handler.c) through        *)
(* stream_client_fd and a binary semaphore.  A resolution request makes    *)
(* the HTTP thread close that descriptor under the worker and wait for it. *)
(*                                                                         *)
(* Both threads are interleaved between their accesses to shared state: a  *)
(* superset of what their priorities (7 and 8, preemptive, one core) allow.*)
(* The network is the descriptor table and the clients' side of the        *)
(* connections.  Left out: the bytes sent, the frame counters and fps of   *)
(* /api/status, poll errors, and the frame errors of the stream handlers,  *)
(* which frame_source_get never returns (frame_source.c:52-54).            *)
(***************************************************************************)
EXTENDS Naturals, Sequences

CONSTANTS
    Conns,          \* identities of client connections
    FDs,            \* descriptor numbers available to client sockets
    NoConn, NoFd,   \* "no connection"; the -1 of stream_client_fd
    Paths,          \* the request paths that clients use in this instance
    Backlog         \* HTTP_LISTEN_BACKLOG

Ports     == {"http", "stream"}
Modes     == {"mjpeg", "ws", "snapshot"}
AllPaths  == Modes \cup {"page", "resolution"}

ASSUME ConstAssumption ==
    /\ NoConn \notin Conns
    /\ NoFd \notin FDs
    /\ Paths \subseteq AllPaths
    /\ Backlog \in Nat

VARIABLES
    backlog,    \* per listening socket, the connections not yet accepted
    fdt,        \* the descriptor table: the connection behind each number
    gone,       \* connections whose client has left
    hpc,        \* control point of the HTTP thread
    revents,    \* listening sockets the last poll reported and not yet served
    hport,      \* listening socket the current client came from
    hfd,        \* its descriptor, NoFd once closed or handed over
    hconn,      \* history: the connection accepted on hfd
    hmode,      \* mode its request asks stream_try_start for, or "none"
    stopFd,     \* local fd of stream_force_stop
    forced,     \* history: forced stops so far, see ForcedStops
    wpc,        \* control point of the stream worker
    wfd, wmode, \* its local fd, and the mode it dispatched on
    sem,        \* stream_sem
    slot,       \* stream_client_fd
    mode,       \* cur_mode
    key,        \* ws_pending_key: the connection whose key it holds
    claimConn,  \* history: connection of the last successful stream_try_start
    claimMode   \* history: the mode it asked for

netVars    == <<backlog, fdt, gone>>
httpVars   == <<hpc, revents, hport, hfd, hconn, hmode, stopFd, forced>>
workerVars == <<wpc, wfd, wmode>>
slotVars   == <<sem, slot, mode, key, claimConn, claimMode>>
vars       == <<netVars, httpVars, workerVars, slotVars>>

(* No descriptor was closed by force yet; every forced stop waited until   *)
(* the slot was free; one gave up after its 50 polls.                      *)
ForcedStops == {"none", "waited", "gaveUp"}

HttpPcs == {"start", "dead", "loop", "read", "isBusy", "try", "storeKey",
            "storeMode", "publish", "give", "resolution", "stopRead",
            "stopClose", "stopWait", "switch", "reply", "close"}
WorkerPcs == {"take", "wake", "dispatch", "handshake", "refused", "refusedClose",
              "header", "capture", "send", "wait", "close", "closed"}
-----------------------------------------------------------------------------
(* Descriptors.  A number is reused as soon as it is closed; which free    *)
(* number accept returns is left open.  Closing a number that is not open  *)
(* fails with EBADF and changes nothing.                                   *)

Free    == {f \in FDs : fdt[f] = NoConn}
Open(c) == \E f \in FDs : fdt[f] = c
Waiting(c) == \E p \in Ports, i \in 1 .. Backlog :
                 i \in DOMAIN backlog[p] /\ backlog[p][i] = c

zsock_close(f) == fdt' = [fdt EXCEPT ![f] = NoConn]

(* A send succeeds only on an open socket whose client is there.  It may   *)
(* also fail because the client reads too slowly (SO_SNDTIMEO).            *)
CanSend(f) == fdt[f] # NoConn /\ fdt[f] \notin gone
-----------------------------------------------------------------------------
Init ==
    /\ backlog = [p \in Ports |-> <<>>]
    /\ fdt = [f \in FDs |-> NoConn]
    /\ gone = {}
    /\ hpc = "start" /\ revents = {} /\ hport = "http" /\ hmode = "none"
    /\ hfd = NoFd /\ hconn = NoConn /\ stopFd = NoFd
    /\ forced = "none"
    /\ wpc = "take" /\ wfd = NoFd /\ wmode = "none"
    /\ sem = 0 /\ slot = NoFd /\ mode = "mjpeg" /\ key = NoConn
    /\ claimConn = NoConn /\ claimMode = "none"
-----------------------------------------------------------------------------
(* Clients.                                                                *)

(* A client connects to a listening port whose backlog has room.  An       *)
(* identity is used again only after its last connection is out of use.    *)
Connect(c, p) ==
    /\ hpc \notin {"start", "dead"}
    /\ Len(backlog[p]) < Backlog
    /\ ~Waiting(c) /\ ~Open(c) /\ c \notin {hconn, claimConn}
    /\ backlog' = [backlog EXCEPT ![p] = Append(@, c)]
    /\ gone' = gone \ {c}
    /\ UNCHANGED <<fdt, httpVars, workerVars, slotVars>>

Disconnect(c) ==
    /\ Waiting(c) \/ Open(c)
    /\ c \notin gone
    /\ gone' = gone \cup {c}
    /\ UNCHANGED <<backlog, fdt, httpVars, workerVars, slotVars>>
-----------------------------------------------------------------------------
(* The HTTP thread.                                                        *)

(* create_listen_socket for both ports; on a failure the thread returns.   *)
Listen ==
    /\ hpc = "start"
    /\ hpc' \in {"loop", "dead"}
    /\ UNCHANGED <<netVars, revents, hport, hfd, hconn, hmode, stopFd, forced,
                   workerVars, slotVars>>

(* Mutant: the stream listener is missing from the poll set. *)
Poll_HttpOnly ==
    /\ hpc = "loop" /\ revents = {}
    /\ revents' = {p \in {"http"} : backlog[p] # <<>>}
    /\ revents' # {}
    /\ UNCHANGED <<netVars, hpc, hport, hfd, hconn, hmode, stopFd, forced,
                   workerVars, slotVars>>

Poll ==
    /\ hpc = "loop" /\ revents = {}
    /\ revents' = {p \in Ports : backlog[p] # <<>>}
    /\ revents' # {}
    /\ UNCHANGED <<netVars, hpc, hport, hfd, hconn, hmode, stopFd, forced,
                   workerVars, slotVars>>

(* The HTTP port is served before the stream port of the same poll.        *)
NextPort(p) == p \in revents /\ (p = "stream" => "http" \notin revents)

Accept(p) ==
    /\ hpc = "loop" /\ NextPort(p) /\ backlog[p] # <<>>
    /\ revents' = revents \ {p}
    /\ hport' = p
    /\ \E f \in Free :
         /\ fdt' = [fdt EXCEPT ![f] = Head(backlog[p])]
         /\ hfd' = f
         /\ hconn' = Head(backlog[p])
    /\ backlog' = [backlog EXCEPT ![p] = Tail(@)]
    /\ hpc' = "read"
    /\ UNCHANGED <<gone, hmode, stopFd, forced, workerVars, slotVars>>

(* What http_read_request and http_parse_request make of a client: nothing *)
(* arrived, no request line, headers not complete, or a whole request.     *)
Requests == [fate : {"lost", "malformed", "partial", "whole"},
             get : BOOLEAN, key : BOOLEAN, path : Paths]

StartsStream(r) == r.path \in Modes /\ (r.path = "ws" => r.key)

(* handle_client: where a request takes the HTTP thread next.              *)
HttpRoute(r) ==
    IF r.fate \in {"lost", "malformed"} THEN "close"
    ELSE IF r.fate = "whole" /\ r.get
         THEN IF StartsStream(r) /\ r.path # "snapshot" THEN "try"
              ELSE IF r.path = "resolution" THEN "resolution" ELSE "reply"
         ELSE "reply"

(* handle_stream_client: neither the method nor the end of the headers is  *)
(* looked at.                                                              *)
StreamRoute(r) ==
    IF r.fate \in {"lost", "malformed"} THEN "close" ELSE "isBusy"

Read ==
    /\ hpc = "read"
    /\ \E r \in Requests :
         /\ hpc' = IF hport = "http" THEN HttpRoute(r) ELSE StreamRoute(r)
         /\ hmode' = IF StartsStream(r) THEN r.path ELSE "none"
    /\ UNCHANGED <<netVars, revents, hport, hfd, hconn, stopFd, forced,
                   workerVars, slotVars>>

(* The steps below move the HTTP thread and leave the rest as it is.       *)
HttpGoto(pc) ==
    /\ hpc' = pc
    /\ UNCHANGED <<netVars, revents, hport, hfd, hconn, hmode, stopFd, forced,
                   workerVars, slotVars>>

(* The handler returns to the loop of http_thread_fn; its locals are gone. *)
NextClient ==
    hpc' = "loop" /\ hfd' = NoFd /\ hconn' = NoConn /\ hmode' = "none"

(* Mutants: the path test, or the busy test, is missing. *)
IsBusy_AnyPath ==
    hpc = "isBusy" /\ HttpGoto(IF slot # NoFd THEN "reply" ELSE "try")
IsBusy_NoTest ==
    hpc = "isBusy" /\ HttpGoto(IF hmode = "none" THEN "reply" ELSE "try")

(* handle_stream_client rejects before it looks at the path.               *)
IsBusy ==
    /\ hpc = "isBusy"
    /\ HttpGoto(IF slot # NoFd \/ hmode = "none" THEN "reply" ELSE "try")

(* stream_try_start.  On -EBUSY handle_client answers 503; the stream port *)
(* ignores the result and returns without closing the client.              *)
TryBusy ==
    /\ hpc = "try" /\ slot # NoFd
    /\ IF hport = "http"
       THEN hpc' = "reply" /\ UNCHANGED <<hfd, hconn, hmode>>
       ELSE NextClient
    /\ UNCHANGED <<netVars, revents, hport, stopFd, forced, workerVars, slotVars>>

(* Mutant: stream_try_start does not look at stream_client_fd. *)
TryFree_NoTest == hpc = "try" /\ HttpGoto("storeKey")

TryFree ==
    /\ hpc = "try" /\ slot = NoFd
    /\ HttpGoto("storeKey")

(* The worker may still be anywhere in its loop while these are written.   *)
(* Mutant: the key is copied on the HTTP port only. *)
StoreKey_HttpOnly ==
    /\ hpc = "storeKey"
    /\ key' = IF hmode = "ws" /\ hport = "http" THEN hconn ELSE key
    /\ hpc' = "storeMode"
    /\ UNCHANGED <<netVars, revents, hport, hfd, hconn, hmode, stopFd, forced,
                   workerVars, sem, slot, mode, claimConn, claimMode>>

StoreKey ==
    /\ hpc = "storeKey"
    /\ key' = IF hmode = "ws" THEN hconn ELSE key
    /\ hpc' = "storeMode"
    /\ UNCHANGED <<netVars, revents, hport, hfd, hconn, hmode, stopFd, forced,
                   workerVars, sem, slot, mode, claimConn, claimMode>>

StoreMode ==
    /\ hpc = "storeMode"
    /\ mode' = hmode
    /\ hpc' = "publish"
    /\ UNCHANGED <<netVars, revents, hport, hfd, hconn, hmode, stopFd, forced,
                   workerVars, sem, slot, key, claimConn, claimMode>>

Publish ==
    /\ hpc = "publish"
    /\ slot' = hfd
    /\ claimConn' = hconn /\ claimMode' = hmode
    /\ hpc' = "give"
    /\ UNCHANGED <<netVars, revents, hport, hfd, hconn, hmode, stopFd, forced,
                   workerVars, sem, mode, key>>

(* Mutant: the semaphore is not given for a snapshot. *)
Give_NotSnapshot ==
    /\ hpc = "give"
    /\ sem' = IF hmode = "snapshot" THEN sem ELSE 1
    /\ NextClient
    /\ UNCHANGED <<netVars, revents, hport, stopFd, forced, workerVars,
                   slot, mode, key, claimConn, claimMode>>

Give ==
    /\ hpc = "give"
    /\ sem' = 1
    /\ NextClient
    /\ UNCHANGED <<netVars, revents, hport, stopFd, forced, workerVars,
                   slot, mode, key, claimConn, claimMode>>

(* handle_api_resolution with the name of a resolution.                    *)
Resolution ==
    /\ hpc = "resolution"
    /\ HttpGoto(IF slot # NoFd THEN "stopRead" ELSE "switch")

(* stream_force_stop: read the descriptor, close it, poll for the release. *)
StopRead ==
    /\ hpc = "stopRead"
    /\ hpc' = IF slot = NoFd THEN "switch" ELSE "stopClose"
    /\ stopFd' = slot
    /\ UNCHANGED <<netVars, revents, hport, hfd, hconn, hmode, forced,
                   workerVars, slotVars>>

(* Mutant: the descriptor is closed and the worker is not waited for. *)
StopClose_NoWait ==
    /\ hpc = "stopClose"
    /\ zsock_close(stopFd)
    /\ forced' = IF forced = "none" THEN "waited" ELSE forced
    /\ hpc' = "switch"
    /\ UNCHANGED <<backlog, gone, revents, hport, hfd, hconn, hmode, stopFd,
                   workerVars, slotVars>>

StopClose ==
    /\ hpc = "stopClose"
    /\ zsock_close(stopFd)
    /\ forced' = IF forced = "none" THEN "waited" ELSE forced
    /\ hpc' = "stopWait"
    /\ UNCHANGED <<backlog, gone, revents, hport, hfd, hconn, hmode, stopFd,
                   workerVars, slotVars>>

StopReturn ==
    /\ hpc' = "switch" /\ stopFd' = NoFd
    /\ UNCHANGED <<netVars, revents, hport, hfd, hconn, hmode,
                   workerVars, slotVars>>

StopDone ==
    /\ hpc = "stopWait" /\ slot = NoFd
    /\ StopReturn /\ UNCHANGED forced

StopTimeout ==
    /\ hpc = "stopWait" /\ slot # NoFd
    /\ StopReturn
    /\ forced' = "gaveUp"

(* cam_i2s_reset_warmup and camera_set_resolution: the camera is another   *)
(* module's subject; here they are a stretch of time.                      *)
Switch == hpc = "switch" /\ HttpGoto("reply")

(* The answer, then the wait for the client to close, then the close.      *)
Reply == hpc = "reply" /\ HttpGoto("close")

Close ==
    /\ hpc = "close"
    /\ zsock_close(hfd)
    /\ NextClient
    /\ UNCHANGED <<backlog, gone, revents, hport, stopFd, forced,
                   workerVars, slotVars>>

HttpThread ==
    \/ Listen \/ Poll \/ (\E p \in Ports : Accept(p)) \/ Read
    \/ IsBusy \/ TryBusy \/ TryFree \/ StoreKey \/ StoreMode \/ Publish \/ Give
    \/ Resolution \/ StopRead \/ StopClose \/ StopDone \/ StopTimeout \/ Switch
    \/ Reply \/ Close
-----------------------------------------------------------------------------
(* The stream worker.                                                      *)

WorkerGoto(pc) ==
    /\ wpc' = pc
    /\ UNCHANGED <<netVars, httpVars, wfd, wmode, slotVars>>

Take ==
    /\ wpc = "take" /\ sem = 1
    /\ sem' = 0
    /\ wpc' = "wake"
    /\ UNCHANGED <<netVars, httpVars, wfd, wmode, slot, mode, key,
                   claimConn, claimMode>>

Wake ==
    /\ wpc = "wake"
    /\ wpc' = IF slot = NoFd THEN "take" ELSE "dispatch"
    /\ wfd' = slot
    /\ UNCHANGED <<netVars, httpVars, wmode, slotVars>>

(* Where each mode's handling begins.                                      *)
Entry(m) == [ws |-> "handshake", snapshot |-> "capture", mjpeg |-> "header"][m]

(* The tests of cur_mode.                                                  *)
Dispatch ==
    /\ wpc = "dispatch"
    /\ wpc' = Entry(mode) /\ wmode' = mode
    /\ UNCHANGED <<netVars, httpVars, wfd, slotVars>>

(* ws_handshake fails on a short key or a failed send; the descriptor is   *)
(* then closed and the slot freed with no cooldown.                        *)
Handshake ==
    /\ wpc = "handshake"
    /\ \/ CanSend(wfd) /\ WorkerGoto("capture")
       \/ WorkerGoto("refused")

(* http_wait_for_peer_close(fd, 500), and the close.                       *)
Refused == wpc = "refused" /\ WorkerGoto("refusedClose")

RefusedClose ==
    /\ wpc = "refusedClose"
    /\ zsock_close(wfd)
    /\ wpc' = "closed"
    /\ UNCHANGED <<backlog, gone, httpVars, wfd, wmode, slotVars>>

Header ==
    /\ wpc = "header"
    /\ \/ CanSend(wfd) /\ WorkerGoto("capture")
       \/ WorkerGoto("wait")

(* frame_source_get: a camera frame, or the test pattern.                  *)
Capture == wpc = "capture" /\ WorkerGoto("send")

(* Mutant: a failed send does not end the stream. *)
Send_Retry ==
    /\ wpc = "send"
    /\ WorkerGoto(IF wmode = "snapshot" THEN "wait" ELSE "capture")

Send ==
    /\ wpc = "send"
    /\ \/ CanSend(wfd) /\ wmode # "snapshot" /\ WorkerGoto("capture")
       \/ WorkerGoto("wait")

(* http_wait_for_peer_close(fd, 1000) reads from the socket.               *)
AwaitPeer == wpc = "wait" /\ WorkerGoto("close")

WorkerClose ==
    /\ wpc = "close"
    /\ zsock_close(wfd)
    /\ wpc' = "closed"
    /\ UNCHANGED <<backlog, gone, httpVars, wfd, wmode, slotVars>>

(* Mutant: the socket is closed once more. *)
Release_CloseAgain ==
    /\ wpc = "closed"
    /\ zsock_close(wfd)
    /\ slot' = NoFd
    /\ claimConn' = NoConn /\ claimMode' = "none"
    /\ wpc' = "take" /\ wfd' = NoFd /\ wmode' = "none"
    /\ UNCHANGED <<backlog, gone, httpVars, sem, mode, key>>

(* The slot is freed after the cooldown of 3 s (none after a refusal).     *)
Release ==
    /\ wpc = "closed"
    /\ slot' = NoFd
    /\ claimConn' = NoConn /\ claimMode' = "none"
    /\ wpc' = "take" /\ wfd' = NoFd /\ wmode' = "none"
    /\ UNCHANGED <<netVars, httpVars, sem, mode, key>>

StreamThread ==
    \/ Take \/ Wake \/ Dispatch \/ Handshake \/ Refused \/ RefusedClose \/ Header
    \/ Capture \/ Send \/ AwaitPeer \/ WorkerClose \/ Release

Clients == \E c \in Conns : Disconnect(c) \/ \E p \in Ports : Connect(c, p)

(* Without its sockets the server stops; the worker waits for ever.        *)
Dead == hpc = "dead" /\ UNCHANGED vars

Next == HttpThread \/ StreamThread \/ Clients \/ Dead

(* Both threads run: the HTTP thread's receives, sends and peer waits have *)
(* timeouts, and so have the worker's captures, sends and waits.  Nothing  *)
(* is assumed of clients.                                                  *)
Spec     == Init /\ [][Next]_vars
FairSpec == Spec /\ WF_vars(HttpThread) /\ WF_vars(StreamThread)
-----------------------------------------------------------------------------
(* Every variable keeps to its values (the type invariant).                *)
TypeOK ==
    /\ backlog \in [Ports -> Seq(Conns)]
    /\ fdt \in [FDs -> Conns \cup {NoConn}]
    /\ gone \subseteq Conns
    /\ hpc \in HttpPcs
    /\ revents \subseteq Ports
    /\ hport \in Ports
    /\ hfd \in FDs \cup {NoFd}
    /\ hconn \in Conns \cup {NoConn}
    /\ hmode \in Modes \cup {"none"}
    /\ stopFd \in FDs \cup {NoFd}
    /\ forced \in ForcedStops
    /\ wpc \in WorkerPcs
    /\ wfd \in FDs \cup {NoFd}
    /\ wmode \in Modes \cup {"none"}
    /\ sem \in 0 .. 1
    /\ slot \in FDs \cup {NoFd}
    /\ mode \in Modes
    /\ key \in Conns \cup {NoConn}
    /\ claimConn \in Conns \cup {NoConn}
    /\ claimMode \in Modes \cup {"none"}

(* No descriptor leaks: an open client socket is the one the HTTP thread   *)
(* is handling or the one in the slot, so that somebody will close it.     *)
(* stream_try_start's ignored result (http_server.c:238-251), the early    *)
(* returns of the handlers and a forced stop could each lose one.          *)
NoLeak == \A f \in FDs : fdt[f] # NoConn => f \in {hfd, slot}

(* The semaphore and stream_client_fd agree: a count is a claim that the   *)
(* idle worker has not taken up, a worker that is not idle has a claim     *)
(* (the test fd < 0 at stream_handler.c:359 never succeeds), and a claim   *)
(* is never left with nobody to serve it.                                  *)
NoLostWakeup ==
    /\ sem = 1 => slot # NoFd /\ wpc = "take" /\ hpc # "give"
    /\ wpc # "take" => slot # NoFd /\ hpc # "give"
    /\ slot # NoFd => sem = 1 \/ wpc # "take" \/ hpc = "give"

(* The worker serves what was asked for: the descriptor, mode and WebSocket*)
(* key it works with are those of the one claim that woke it, although     *)
(* each is a variable of its own.                                          *)
Serving == WorkerPcs \ {"take", "wake", "dispatch"}
ServesTheClaim ==
    /\ wpc \in Serving => wfd = slot /\ wmode = claimMode
    /\ wpc = "handshake" => key = claimConn

(* The worker's sends, receives and closes reach the client whose stream   *)
(* it serves, or fail; never another client that got the same number.      *)
(* Once a forced stop gave up, nothing protects the number any more.       *)
Touching == Serving \ {"closed"}
WorkerTouchesItsClient ==
    wpc \in Touching /\ forced # "gaveUp" => fdt[wfd] \in {claimConn, NoConn}

(* An answer goes to the connection that asked ("each sends a complete     *)
(* HTTP response to client", http_api.h:28).                               *)
ReplyReachesRequester == hpc = "reply" => fdt[hfd] = hconn

(* As long as stream_force_stop has closed no descriptor, answers reach    *)
(* the client that asked although numbers are reused at once: nobody but   *)
(* its owner closes a number.                                              *)
RepliesUnforced == forced = "none" => ReplyReachesRequester

(* The camera is reprogrammed only when no stream is active, as            *)
(* camera_init.h:38 asks of the caller of camera_set_resolution, unless a  *)
(* forced stop gave up.                                                    *)
QuietSwitch == hpc = "switch" /\ forced # "gaveUp" => slot = NoFd /\ wpc = "take"

(* The claim is made when stream_client_fd is stored, taken up when the    *)
(* worker has read it and its mode, and released when it is -1 again.      *)
Stage == IF claimConn = NoConn THEN "free"
         ELSE IF wpc \in Serving THEN "serving" ELSE "claimed"

Slot == INSTANCE StreamSlot WITH holder <- claimConn, stage <- Stage

(* stream_try_start, the worker and a forced stop implement the abstract   *)
(* slot: one claim at a time, taken up once, and released by the worker.   *)
ImplementsSlot == Slot!Spec

(* No wakeup is lost: every claim is taken up by the worker.               *)
ClaimTakenUp == Stage = "claimed" ~> Stage = "serving"

(* A client in a backlog is accepted, streams running or not: the single-  *)
(* threaded server comes back to its sockets from every client it handles, *)
(* one whose request waits for a forced stop included.                     *)
BacklogServed == \A c \in Conns : Waiting(c) ~> ~Waiting(c)

(* When its client has left, a stream ends and frees the slot (or, after a *)
(* forced stop that gave up, may go on with the next client of its number).*)
SlotReleased == \A c \in Conns :
    claimConn = c /\ c \in gone ~> claimConn # c \/ forced = "gaveUp"
=============================================================================
