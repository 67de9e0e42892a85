--------------------------- MODULE DebuggerServer ---------------------------
(***************************************************************************)
(* The WebSocket debugger server of crates/debugger-server/src/socket.rs.  *)
(* Each upgraded connection runs establish_connection as a tokio task:     *)
(* it takes the process-wide CONNECTION_LOCK, spawns a debugger thread     *)
(* and then forwards every message read from the socket into an mpsc      *)
(* channel (None marks the end).  The debugger thread first runs the       *)
(* interactive REPL (unless WASMINSPECT_SERVER_NO_INTERACTIVE is set),     *)
(* polling `connection_finished` between 500 ms read_line steps, and then  *)
(* serves the channel one request at a time (handle_incoming_message and   *)
(* debugger_proxy::_handle_request).  A CallExported that stops at a      *)
(* breakpoint enters Process::run_loop, a blocking REPL with no timeout.   *)
(*                                                                         *)
(* Requests are abstracted to their kind: "Req" (Version, Init, a          *)
(* CallExported that finishes, or a message that fails to deserialize:    *)
(* all answered by one response), "Break" (a CallExported that stops at a  *)
(* breakpoint) and "Import" (unimplemented!(): the thread panics).        *)
(* The socket client and the user at the server's terminal are the         *)
(* environment: their actions carry no fairness.                          *)
(***************************************************************************)
EXTENDS Naturals, Sequences, FiniteSets

CONSTANTS
  Conns,        \* upgraded WebSocket connections
  MsgKinds,     \* request kinds a client may send
  MaxMsgs,      \* messages a client sends on one connection
  NoConn,       \* CONNECTION_LOCK is free
  EOS           \* the None a reader sends into the channel

ASSUME MaxMsgs \in Nat

VARIABLES
  interactive, \* WASMINSPECT_SERVER_NO_INTERACTIVE is unset in the process
  lock,      \* the connection holding CONNECTION_LOCK, or NoConn
  conn,      \* the establish_connection task of each connection
  dbg,       \* the debugger thread of each connection
  finished,  \* connection_finished
  queue,     \* the mpsc channel from the reader to the debugger thread
  sent,      \* messages the client has sent
  cur,       \* the request the thread is serving, "none" between requests
  accepted,  \* requests the reader put into the channel (history)
  answered   \* requests a response was sent for (history)

vars == <<interactive, lock, conn, dbg, finished, queue, sent, cur, accepted, answered>>

(* The task: waiting for the lock, reading the socket, joining the thread  *)
(* in the epilogue, returned (the guard and request_tx are dropped).       *)
ConnStates == {"waiting", "reading", "joining", "done"}

(* The thread: not spawned, REPL loop, message loop, inside a request,     *)
(* blocked in run_loop at a breakpoint, returned after None, or ended      *)
(* without draining the channel (a panic or a failed sink send).          *)
DbgStates == {"none", "repl", "msgs", "rpc", "breakloop", "done", "dead"}

Ended == {"done", "dead"}

-----------------------------------------------------------------------------
Init ==
  /\ interactive \in BOOLEAN
  /\ lock = NoConn
  /\ conn = [c \in Conns |-> "waiting"]
  /\ dbg = [c \in Conns |-> "none"]
  /\ finished = [c \in Conns |-> FALSE]
  /\ queue = [c \in Conns |-> <<>>]
  /\ sent = [c \in Conns |-> 0]
  /\ cur = [c \in Conns |-> "none"]
  /\ accepted = [c \in Conns |-> <<>>]
  /\ answered = [c \in Conns |-> <<>>]

(* Mutant: the WASMINSPECT_SERVER_NO_INTERACTIVE test inverted.           *)
AcquireReplWhenUnset(c) ==
  /\ conn[c] = "waiting"
  /\ lock = NoConn
  /\ lock' = c
  /\ conn' = [conn EXCEPT ![c] = "reading"]
  /\ dbg' = [dbg EXCEPT ![c] = IF interactive THEN "msgs" ELSE "repl"]
  /\ UNCHANGED <<interactive, finished, queue, sent, cur, accepted, answered>>

(* establish_connection takes the lock; _establish_connection splits the   *)
(* stream, creates the channel and the flag and spawns the thread.         *)
Acquire(c) ==
  /\ conn[c] = "waiting"
  /\ lock = NoConn
  /\ lock' = c
  /\ conn' = [conn EXCEPT ![c] = "reading"]
  /\ dbg' = [dbg EXCEPT ![c] = IF interactive THEN "repl" ELSE "msgs"]
  /\ UNCHANGED <<interactive, finished, queue, sent, cur, accepted, answered>>

(* Returning from establish_connection drops the guard.                    *)
Release(c) ==
  /\ conn' = [conn EXCEPT ![c] = "done"]
  /\ lock' = NoConn

(* rx.next() yields Ok(msg): request_tx.send(Some(msg))?  fails once the   *)
(* thread has returned and dropped request_rx, and `?` returns at once.   *)
ReceiveMsg(c) ==
  /\ conn[c] = "reading"
  /\ sent[c] < MaxMsgs
  /\ sent' = [sent EXCEPT ![c] = @ + 1]
  /\ \E m \in MsgKinds :
       IF dbg[c] \in Ended
         THEN /\ Release(c)
              /\ UNCHANGED <<interactive, queue, accepted>>
         ELSE /\ queue' = [queue EXCEPT ![c] = Append(@, m)]
              /\ accepted' = [accepted EXCEPT ![c] = Append(@, m)]
              /\ UNCHANGED <<interactive, lock, conn>>
  /\ UNCHANGED <<interactive, dbg, finished, cur, answered>>

(* rx.next() yields Err: send(None).unwrap() (a panic unwinding the task   *)
(* when the thread is gone), then return Err: neither the flag is set nor  *)
(* the thread joined.                                                      *)
ReceiveErr(c) ==
  /\ conn[c] = "reading"
  /\ Release(c)
  /\ queue' = [queue EXCEPT ![c] = IF dbg[c] \in Ended THEN @ ELSE Append(@, EOS)]
  /\ UNCHANGED <<interactive, dbg, finished, sent, cur, accepted, answered>>

(* Mutant: the epilogue sets the flag but sends no None.                   *)
StreamEndWithoutNone(c) ==
  /\ conn[c] = "reading"
  /\ finished' = [finished EXCEPT ![c] = TRUE]
  /\ IF dbg[c] \in Ended
       THEN /\ Release(c)
       ELSE /\ conn' = [conn EXCEPT ![c] = "joining"]
            /\ UNCHANGED lock
  /\ UNCHANGED <<interactive, dbg, queue, sent, cur, accepted, answered>>

(* rx.next() yields None: the epilogue sets connection_finished and sends  *)
(* None (the unwrap panics when the thread is gone), then joins.          *)
StreamEnd(c) ==
  /\ conn[c] = "reading"
  /\ finished' = [finished EXCEPT ![c] = TRUE]
  /\ IF dbg[c] \in Ended
       THEN /\ Release(c)
            /\ UNCHANGED queue
       ELSE /\ conn' = [conn EXCEPT ![c] = "joining"]
            /\ queue' = [queue EXCEPT ![c] = Append(@, EOS)]
            /\ UNCHANGED lock
  /\ UNCHANGED <<interactive, dbg, sent, cur, accepted, answered>>

(* handle.join() returns once the thread has ended (its unwrap panics if   *)
(* the thread panicked; the guard is dropped either way).                  *)
Join(c) ==
  /\ conn[c] = "joining"
  /\ dbg[c] \in Ended
  /\ Release(c)
  /\ UNCHANGED <<interactive, dbg, finished, queue, sent, cur, accepted, answered>>

-----------------------------------------------------------------------------
(* The REPL loop: at the top of each iteration the thread checks the flag *)
(* and cancels the read; a 500 ms read_line that times out or a command    *)
(* without a result changes nothing and is a stuttering step.             *)
ReplNotice(c) ==
  /\ dbg[c] = "repl"
  /\ finished[c]
  /\ dbg' = [dbg EXCEPT ![c] = "msgs"]
  /\ UNCHANGED <<interactive, lock, conn, finished, queue, sent, cur, accepted, answered>>

(* The user ends the REPL: Exit (or end of input), or run_step fails.      *)
ReplExit(c) ==
  /\ dbg[c] = "repl"
  /\ dbg' = [dbg EXCEPT ![c] = "msgs"]
  /\ UNCHANGED <<interactive, lock, conn, finished, queue, sent, cur, accepted, answered>>

(* A command whose result is not Exit reaches unreachable!().              *)
ReplPanic(c) ==
  /\ dbg[c] = "repl"
  /\ dbg' = [dbg EXCEPT ![c] = "dead"]
  /\ UNCHANGED <<interactive, lock, conn, finished, queue, sent, cur, accepted, answered>>

(* Mutant: the message loop also stops once connection_finished is set.   *)
RecvStopsOnFinished(c) ==
  /\ dbg[c] = "msgs"
  /\ queue[c] # <<>> \/ finished[c]
  /\ IF finished[c] \/ Head(queue[c]) = EOS
       THEN /\ dbg' = [dbg EXCEPT ![c] = "done"]
            /\ UNCHANGED <<interactive, queue, cur>>
       ELSE /\ dbg' = [dbg EXCEPT ![c] = "rpc"]
            /\ cur' = [cur EXCEPT ![c] = Head(queue[c])]
            /\ queue' = [queue EXCEPT ![c] = Tail(@)]
  /\ UNCHANGED <<interactive, lock, conn, finished, sent, accepted, answered>>

(* Mutant: the next message is peeked and never taken off the channel.    *)
RecvPeeks(c) ==
  /\ dbg[c] = "msgs"
  /\ queue[c] # <<>>
  /\ dbg' = [dbg EXCEPT ![c] = IF Head(queue[c]) = EOS THEN "done" ELSE "rpc"]
  /\ cur' = [cur EXCEPT ![c] = IF Head(queue[c]) = EOS THEN "none" ELSE Head(queue[c])]
  /\ UNCHANGED <<interactive, lock, conn, finished, queue, sent, accepted, answered>>

(* request_rx.recv(): the next message, or the loop ends at None.          *)
Recv(c) ==
  /\ dbg[c] = "msgs"
  /\ queue[c] # <<>>
  /\ dbg' = [dbg EXCEPT ![c] = IF Head(queue[c]) = EOS THEN "done" ELSE "rpc"]
  /\ cur' = [cur EXCEPT ![c] = IF Head(queue[c]) = EOS THEN "none" ELSE Head(queue[c])]
  /\ queue' = [queue EXCEPT ![c] = Tail(@)]
  /\ UNCHANGED <<interactive, lock, conn, finished, sent, accepted, answered>>

(* tx.lock().unwrap().send(msg).await: the response reaches the sink, or  *)
(* the send fails and the message loop ends.                               *)
Respond(c) ==
  \/ /\ answered' = [answered EXCEPT ![c] = Append(@, cur[c])]
     /\ dbg' = [dbg EXCEPT ![c] = "msgs"]
  \/ /\ dbg' = [dbg EXCEPT ![c] = "dead"]
     /\ UNCHANGED answered

(* handle_incoming_message: a CallExported stopping at a breakpoint enters *)
(* run_loop, an Import panics in unimplemented!(), anything else is        *)
(* answered (an error response included).                                  *)
Handle(c) ==
  /\ dbg[c] = "rpc"
  /\ CASE cur[c] = "Break"  -> /\ dbg' = [dbg EXCEPT ![c] = "breakloop"]
                                   /\ UNCHANGED answered
       [] cur[c] = "Import" -> /\ dbg' = [dbg EXCEPT ![c] = "dead"]
                                   /\ UNCHANGED answered
       [] OTHER                 -> Respond(c)
  /\ UNCHANGED <<interactive, lock, conn, finished, queue, sent, cur, accepted>>

(* run_loop returns ProcessFinish, or a run_step error is propagated by    *)
(* `?`; Exit dispatches "process continue" and loops, a stuttering step.   *)
BreakDone(c) ==
  /\ dbg[c] = "breakloop"
  /\ Respond(c)
  /\ UNCHANGED <<interactive, lock, conn, finished, queue, sent, cur, accepted>>

-----------------------------------------------------------------------------
Client(c) == ReceiveMsg(c) \/ ReceiveErr(c) \/ StreamEnd(c)
User(c)   == ReplExit(c) \/ ReplPanic(c) \/ BreakDone(c)
Server(c) == Acquire(c) \/ Join(c) \/ ReplNotice(c) \/ Recv(c) \/ Handle(c)

Next == \E c \in Conns : Client(c) \/ User(c) \/ Server(c)

(* tokio's Mutex queues waiters in FIFO order, so a connection waiting     *)
(* while the lock is released again and again gets it (strong fairness);   *)
(* the threads and the epilogue are never starved by the OS scheduler.     *)
Fairness ==
  \A c \in Conns :
    /\ SF_vars(Acquire(c))
    /\ WF_vars(Join(c))
    /\ WF_vars(ReplNotice(c))
    /\ WF_vars(Recv(c))
    /\ WF_vars(Handle(c))

Spec == Init /\ [][Next]_vars /\ Fairness

-----------------------------------------------------------------------------
(***************************************************************************)
(* Properties.                                                             *)
(***************************************************************************)
TypeOK ==
  /\ lock \in Conns \cup {NoConn}
  /\ conn \in [Conns -> ConnStates]
  /\ dbg \in [Conns -> DbgStates]
  /\ finished \in [Conns -> BOOLEAN]
  /\ queue \in [Conns -> Seq(MsgKinds \cup {EOS})]
  /\ sent \in [Conns -> 0 .. MaxMsgs]
  /\ \A c \in Conns : Len(answered[c]) <= Len(accepted[c])

(* The threads that own the process and read the server's terminal.        *)
Live == {c \in Conns : dbg[c] \notin Ended \cup {"none"}}

(***************************************************************************)
(* A debugger thread that returns normally (it received the None the       *)
(* reader sends last) has answered every request the reader put into the   *)
(* channel before it, in the order they were read: the None of the         *)
(* epilogue or of the error path never overtakes a request, and a request  *)
(* is never served twice.                                                  *)
(***************************************************************************)
DrainedOnReturn ==
  \A c \in Conns : dbg[c] = "done" => answered[c] = accepted[c]

(***************************************************************************)
(* One connection at a time (spec.md 6, CONNECTION_LOCK): a debugger       *)
(* thread, with its process and its REPL on the server's terminal, only    *)
(* runs while its connection holds the lock.                               *)
(***************************************************************************)
AtMostOneSession ==
  /\ Cardinality(Live) <= 1
  /\ \A c \in Live : lock = c

(* A request is pending while its thread lives and has not answered it.    *)
Pending(c) == dbg[c] \notin Ended /\ Len(answered[c]) < Len(accepted[c])

(***************************************************************************)
(* A pending RPC is eventually answered (or its thread ends), whatever the *)
(* user at the server's terminal does (spec.md 5: the polling run_step     *)
(* lets a pending RPC preempt the REPL).                                   *)
(***************************************************************************)
RpcAnswered == \A c \in Conns : Pending(c) ~> ~Pending(c)

(***************************************************************************)
(* The user at the server's terminal eventually leaves every run_loop a    *)
(* CallExported entered at a breakpoint.  Nothing in the code bounds that  *)
(* wait (Process::run_loop reads the terminal with no timeout), so the     *)
(* properties below take it as an assumption rather than as fairness.      *)
(***************************************************************************)
UserResumes == \A c \in Conns : WF_vars(BreakDone(c))

(***************************************************************************)
(* With WASMINSPECT_SERVER_NO_INTERACTIVE set, the thread goes straight to *)
(* its message loop, and every pending RPC is eventually answered (or its  *)
(* thread ends), provided the user resumes the breakpoints it stops at.    *)
(***************************************************************************)
HeadlessRpcAnswered == (~interactive /\ UserResumes) => RpcAnswered

(***************************************************************************)
(* Once the client closes the stream, the epilogue's join returns and the  *)
(* lock is released: the REPL notices connection_finished and the message  *)
(* loop reaches the None sent after the last request.  A request stopped   *)
(* at a breakpoint holds CONNECTION_LOCK for every later connection until  *)
(* the user resumes it, and no longer than that.                           *)
(***************************************************************************)
SessionReleased ==
  UserResumes => \A c \in Conns : conn[c] = "joining" ~> conn[c] = "done"
=============================================================================
