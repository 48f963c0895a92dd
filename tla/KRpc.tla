-------------------------------- MODULE KRpc --------------------------------
(***************************************************************************)
(* krpc_call (fs/nfs/rpc_subr.c): a UDP remote procedure call.  The caller *)
(* opens a socket with a 1 s receive timeout, binds it to the highest free *)
(* reserved port, draws a transaction id into the static xid, and sends    *)
(* the request up to `retries' times, waiting 1, 2, ... MAX_RESEND_DELAY  *)
(* seconds for a reply whose xid matches the static xid.                  *)
(*                                                                         *)
(* The network loses, duplicates, delays and reorders datagrams; a server *)
(* answers each request it receives.  The call's data (program, procedure, *)
(* arguments, the reply body) is abstracted away; a datagram carries the  *)
(* xid, the client port and, as history, the id of the call that sent the *)
(* request.  The buffers the code points to (so, sin, call, reply, tv) are *)
(* taken as valid storage of the call.                                    *)
(***************************************************************************)
EXTENDS Integers, FiniteSets, Bags, BagsExt

CONSTANTS
  Callers,            \* tasks that call krpc_call
  Xids,               \* the values rand() can return
  LowPort, HighPort,  \* the reserved ports the bind loop tries (512..1023)
  Retries,            \* the retries argument of the calls
  MAX_RESEND_DELAY,   \* the longest wait for a reply, in seconds
  MaxCalls,           \* bound: calls per caller
  MaxDups,            \* bound: datagrams the network duplicates
  MaxFaults           \* bound: failing socket, send and recvfrom calls

ASSUME LowPort <= HighPort /\ Retries > 0 /\ MAX_RESEND_DELAY > 0

\* The outcomes a server reports: accepted and succeeded, not accepted
\* (rp_astatus != 0), accepted with an error status (rp_status != 0).
Answers == {"ok", "denied", "failed"}

NoCall == <<"none", 0>>

VARIABLES
  xid,      \* the static xid of krpc_call, shared by all calls
  task,     \* per caller: the locals of its current krpc_call
  bound,    \* the ports bound by open sockets
  net,      \* the datagrams in the network, a bag
  dups,     \* datagrams duplicated so far
  faults    \* socket calls failed so far

vars == <<xid, task, bound, net, dups, faults>>

Ports == LowPort..HighPort
CallIds == (Callers \X (1..MaxCalls)) \cup {NoCall}
Requests == [dir : {"call"}, xid : Xids, port : Ports, id : CallIds]
Replies == [dir : {"reply"}, xid : Xids, port : Ports, id : CallIds, stat : Answers]

\* The id of the call caller c is running (or ran last).
Id(c) == <<c, task[c].n>>

Init ==
  /\ xid \in Xids
  /\ task = [c \in Callers |->
               [pc |-> "idle", n |-> 0, port |-> 0, rpxid |-> 0, retries |-> 0,
                timo |-> 0, secs |-> 0, waited |-> 0, ret |-> "none", took |-> NoCall]]
  /\ bound = {}
  /\ net = EmptyBag
  /\ dups = 0
  /\ faults = 0

\* The goto out path: psock_close(so) releases the port, and error is
\* returned.
Out(c, err) ==
  /\ bound' = bound \ {task[c].port}
  /\ task' = [task EXCEPT ![c] = [@ EXCEPT !.pc = "idle", !.port = 0, !.ret = err]]

\* krpc_call's entry: psock_socket and the SO_RCVTIMEO (and, with from_p,
\* SO_BROADCAST) options, any of which may fail.
Call(c) ==
  /\ task[c].pc = "idle" /\ task[c].n < MaxCalls
  /\ LET t == [task[c] EXCEPT !.n = @ + 1, !.ret = "none", !.took = NoCall, !.waited = 0]
     IN \/ /\ faults < MaxFaults
           /\ faults' = faults + 1
           /\ task' = [task EXCEPT ![c] = [t EXCEPT !.ret = "error"]]
        \/ /\ task' = [task EXCEPT ![c] = [t EXCEPT !.pc = "bind"]]
           /\ UNCHANGED faults
  /\ UNCHANGED <<xid, bound, net, dups>>

\* Mutant: the bind loop waits for a reserved port to become free.
BindUntilFree(c) ==
  /\ task[c].pc = "bind"
  /\ LET free == Ports \ bound
     IN \/ /\ free = {}
           /\ UNCHANGED <<xid, bound, task>>
        \/ \E x \in Xids, p \in {q \in free : \A r \in free : r <= q} :
             /\ xid' = x
             /\ bound' = bound \cup {p}
             /\ task' = [task EXCEPT ![c] = [@ EXCEPT !.pc = "send", !.port = p, !.rpxid = x,
                                                      !.retries = Retries, !.timo = 0, !.secs = 0]]
  /\ UNCHANGED <<net, dups, faults>>

\* The bind loop tries tport = 1023 downwards while bind reports EADDRINUSE
\* and tport > 512, so it binds the highest free reserved port or fails
\* ("bind failed", goto out).  Then xid = rand() and the request header
\* with call->rp_xid = xid.
Bind(c) ==
  /\ task[c].pc = "bind"
  /\ LET free == Ports \ bound
     IN \/ /\ free = {}
           /\ Out(c, "error")
           /\ UNCHANGED xid
        \/ \E x \in Xids, p \in {q \in free : \A r \in free : r <= q} :
             /\ xid' = x
             /\ bound' = bound \cup {p}
             /\ task' = [task EXCEPT ![c] = [@ EXCEPT !.pc = "send", !.port = p, !.rpxid = x,
                                                      !.retries = Retries, !.timo = 0, !.secs = 0]]
  /\ UNCHANGED <<net, dups, faults>>

\* Mutant: the loop runs while retries >= 0, one send too many.
SendOneExtra(c) ==
  /\ task[c].pc = "send"
  /\ \/ /\ task[c].retries = -1
        /\ Out(c, "ETIMEDOUT")
        /\ UNCHANGED <<xid, net, dups, faults>>
     \/ /\ task[c].retries # -1 /\ faults < MaxFaults
        /\ faults' = faults + 1
        /\ Out(c, "error")
        /\ UNCHANGED <<xid, net, dups>>
     \/ /\ task[c].retries # -1
        /\ LET timo == IF task[c].timo < MAX_RESEND_DELAY THEN task[c].timo + 1 ELSE task[c].timo
           IN task' = [task EXCEPT ![c] = [@ EXCEPT !.pc = "recv", !.timo = timo, !.secs = timo]]
        /\ net' = BagAdd(net, [dir |-> "call", xid |-> task[c].rpxid, port |-> task[c].port, id |-> Id(c)])
        /\ UNCHANGED <<xid, bound, dups, faults>>

\* Mutant: the back-off grows while timo <= MAX_RESEND_DELAY.
SendCapOffByOne(c) ==
  /\ task[c].pc = "send"
  /\ \/ /\ task[c].retries = 0
        /\ Out(c, "ETIMEDOUT")
        /\ UNCHANGED <<xid, net, dups, faults>>
     \/ /\ task[c].retries # 0 /\ faults < MaxFaults
        /\ faults' = faults + 1
        /\ Out(c, "error")
        /\ UNCHANGED <<xid, net, dups>>
     \/ /\ task[c].retries # 0
        /\ LET timo == IF task[c].timo <= MAX_RESEND_DELAY THEN task[c].timo + 1 ELSE task[c].timo
           IN task' = [task EXCEPT ![c] = [@ EXCEPT !.pc = "recv", !.timo = timo, !.secs = timo]]
        /\ net' = BagAdd(net, [dir |-> "call", xid |-> task[c].rpxid, port |-> task[c].port, id |-> Id(c)])
        /\ UNCHANGED <<xid, bound, dups, faults>>

\* One pass of the send loop: the loop ends with ETIMEDOUT when retries is
\* zero; otherwise psock_send (which may fail), the next timeout
\* (timo + 1 up to MAX_RESEND_DELAY) and secs = timo.
Send(c) ==
  /\ task[c].pc = "send"
  /\ \/ /\ task[c].retries = 0
        /\ Out(c, "ETIMEDOUT")
        /\ UNCHANGED <<xid, net, dups, faults>>
     \/ /\ task[c].retries # 0 /\ faults < MaxFaults
        /\ faults' = faults + 1
        /\ Out(c, "error")
        /\ UNCHANGED <<xid, net, dups>>
     \/ /\ task[c].retries # 0
        /\ LET timo == IF task[c].timo < MAX_RESEND_DELAY THEN task[c].timo + 1 ELSE task[c].timo
           IN task' = [task EXCEPT ![c] = [@ EXCEPT !.pc = "recv", !.timo = timo, !.secs = timo]]
        /\ net' = BagAdd(net, [dir |-> "call", xid |-> task[c].rpxid, port |-> task[c].port, id |-> Id(c)])
        /\ UNCHANGED <<xid, bound, dups, faults>>

\* psock_recvfrom returns EWOULDBLOCK after the 1 s receive timeout: secs is
\* decremented, and at zero the for loop's retries-- leads to the next send.
RecvTimeout(c) ==
  /\ task[c].pc = "recv"
  /\ task' = [task EXCEPT ![c] = [@ EXCEPT !.secs = @ - 1, !.waited = @ + 1,
                                           !.pc = IF task[c].secs = 1 THEN "send" ELSE "recv",
                                           !.retries = IF task[c].secs = 1 THEN @ - 1 ELSE @]]
  /\ UNCHANGED <<xid, bound, net, dups, faults>>

\* psock_recvfrom fails with another error: goto out.
RecvFail(c) ==
  /\ task[c].pc = "recv" /\ faults < MaxFaults
  /\ faults' = faults + 1
  /\ Out(c, "error")
  /\ UNCHANGED <<xid, net, dups>>

\* psock_recvfrom returns a datagram sent to the socket's port.  A reply
\* whose xid is not the static xid is skipped (continue, secs unchanged);
\* a matching one that was not accepted or did not succeed ends the call
\* with ECONNREFUSED; a successful one returns 0 through gotsucreply, which
\* does not close the socket.
Recv(c) ==
  /\ task[c].pc = "recv"
  /\ \E d \in BagToSet(net) :
       /\ d.dir = "reply" /\ d.port = task[c].port
       /\ net' = BagRemove(net, d)
       /\ \/ /\ d.xid # xid
             /\ UNCHANGED <<task, bound>>
          \/ /\ d.xid = xid /\ d.stat # "ok"
             /\ Out(c, "ECONNREFUSED")
          \/ /\ d.xid = xid /\ d.stat = "ok"
             /\ task' = [task EXCEPT ![c] = [@ EXCEPT !.pc = "idle", !.port = 0, !.ret = "ok",
                                                      !.took = d.id]]
             /\ UNCHANGED bound
  /\ UNCHANGED <<xid, dups, faults>>

(***************************************************************************)
(* The server and the network (environment, not code of this repository). *)
(***************************************************************************)
Serve ==
  /\ \E d \in BagToSet(net), a \in Answers :
       /\ d.dir = "call"
       /\ net' = BagAdd(BagRemove(net, d), [dir |-> "reply", xid |-> d.xid, port |-> d.port,
                                             id |-> d.id, stat |-> a])
  /\ UNCHANGED <<xid, task, bound, dups, faults>>

Lose ==
  /\ \E d \in BagToSet(net) : net' = BagRemove(net, d)
  /\ UNCHANGED <<xid, task, bound, dups, faults>>

Duplicate ==
  /\ dups < MaxDups
  /\ \E d \in BagToSet(net) : net' = BagAdd(net, d)
  /\ dups' = dups + 1
  /\ UNCHANGED <<xid, task, bound, faults>>

\* Every caller has made its calls: the model's bound, not a hang.
Finished ==
  /\ \A c \in Callers : task[c].pc = "idle" /\ task[c].n = MaxCalls
  /\ UNCHANGED vars

Next ==
  \/ \E c \in Callers : Call(c) \/ Bind(c) \/ Send(c) \/ RecvTimeout(c) \/ RecvFail(c) \/ Recv(c)
  \/ Serve \/ Lose \/ Duplicate \/ Finished

\* A running call makes progress: the task is scheduled, and SO_RCVTIMEO
\* makes psock_recvfrom return within a second when nothing arrives.
Fairness == \A c \in Callers : WF_vars(Bind(c)) /\ WF_vars(Send(c)) /\ WF_vars(RecvTimeout(c))

Spec == Init /\ [][Next]_vars /\ Fairness

\* The longest krpc_call can wait for replies with n sends: the k-th send
\* waits min(k, MAX_RESEND_DELAY) seconds.
RECURSIVE MaxWait(_)
MaxWait(n) == IF n = 0 THEN 0
              ELSE MaxWait(n - 1) + (IF n < MAX_RESEND_DELAY THEN n ELSE MAX_RESEND_DELAY)

TypeOK ==
  /\ xid \in Xids
  /\ \A c \in Callers :
       /\ task[c].pc \in {"idle", "bind", "send", "recv"}
       /\ task[c].n \in 0..MaxCalls
       /\ task[c].port \in Ports \cup {0}
       /\ task[c].retries \in 0..Retries
       /\ task[c].timo \in 0..MAX_RESEND_DELAY
       /\ task[c].secs \in 0..task[c].timo
       /\ task[c].waited \in Nat
       /\ task[c].ret \in {"none", "ok", "error", "ETIMEDOUT", "ECONNREFUSED"}
       /\ task[c].took \in CallIds
  /\ bound \subseteq Ports
  /\ BagToSet(net) \subseteq Requests \cup Replies
  /\ dups \in 0..MaxDups /\ faults \in 0..MaxFaults

\* Every krpc_call returns: the bind loop, the send loop and the receive
\* loop all end, whatever the network loses or duplicates, and whatever
\* replies with a foreign xid arrive.
CallsReturn == \A c \in Callers : task[c].pc # "idle" ~> task[c].pc = "idle"

\* The back-off is bounded: over its `retries' sends a call never waits
\* for replies longer than min(1, MAX_RESEND_DELAY) + ... +
\* min(retries, MAX_RESEND_DELAY) seconds, however often the timeouts,
\* the foreign replies and the sends interleave.
WaitBounded == \A c \in Callers : task[c].waited <= MaxWait(Retries)

\* A call that returns 0 took a reply to a request of that same call, not
\* one answering an earlier call whose socket had the same port.
OwnReply == \A c \in Callers : task[c].ret = "ok" => task[c].took = Id(c)
====
