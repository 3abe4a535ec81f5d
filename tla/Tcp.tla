-------------------------------- MODULE Tcp --------------------------------
(***************************************************************************)
(* The TCP connections between the Apps and the gateway, as the socket     *)
(* calls of src/gateway_forSDK/server.c see them: the kernel's backlog,    *)
(* descriptors, receive buffers and error states.  None of it is code of   *)
(* the repository.  Each App connects at most once, so an App here stands  *)
(* for one connection.                                                     *)
(*                                                                         *)
(* The life of a connection, link[a]:                                      *)
(*   none    not established                                               *)
(*   alive   both ends open (in the backlog until accept() takes it)       *)
(*   stuck   ... but the App has stopped reading and the buffers between   *)
(*           the two are full: a send() on it blocks                       *)
(*   closed  the App has closed its end: recv() returns 0 after the data   *)
(*   poked   ... and the gateway has sent on it: a RST is on its way back  *)
(*   broken  the RST has come: the next send() raises SIGPIPE              *)
(*   reset   the App has aborted: the next send() or recv() without data   *)
(*           fails once with ECONNRESET and leaves the connection broken   *)
(*   gone    the gateway has closed its end                                *)
(***************************************************************************)
EXTENDS Integers, Sequences, FiniteSets

CONSTANTS App,        \* the connections Apps may make
          Stalling,   \* those whose Apps may stop reading
          Fd          \* the descriptors the process may open for them

NoFd == -1

VARIABLES link,      \* link[a], the state of a's connection
          fdOf,      \* fdOf[a], the gateway's descriptor for it, or NoFd
          backlog,   \* the connections not accepted yet, in order
          rcv,       \* rcv[a], what a has written and the gateway not read
          got        \* got[a], what the gateway has sent and a's end received

tcpVars == <<link, fdOf, backlog, rcv, got>>

TcpInit == /\ link = [a \in App |-> "none"]
           /\ fdOf = [a \in App |-> NoFd]
           /\ backlog = << >>
           /\ rcv = [a \in App |-> << >>]
           /\ got = [a \in App |-> << >>]

(* What an App, or its host, does. *)
Connect(a) == /\ link[a] = "none"
              /\ link' = [link EXCEPT ![a] = "alive"]
              /\ backlog' = Append(backlog, a)
              /\ UNCHANGED <<fdOf, rcv, got>>

Resume(a) == /\ link[a] = "stuck"
             /\ link' = [link EXCEPT ![a] = "alive"]
             /\ UNCHANGED <<fdOf, backlog, rcv, got>>

Write(a, m) == /\ link[a] \in {"alive", "stuck"}
               /\ rcv' = [rcv EXCEPT ![a] = Append(@, m)]
               /\ UNCHANGED <<link, fdOf, backlog, got>>

Close(a) == /\ link[a] = "alive"
            /\ link' = [link EXCEPT ![a] = "closed"]
            /\ UNCHANGED <<fdOf, backlog, rcv, got>>

(* Closing an end that has data unread is aborting the connection.          *)
Abort(a) == /\ link[a] \in {"alive", "stuck"}
            /\ link' = [link EXCEPT ![a] = "reset"]
            /\ UNCHANGED <<fdOf, backlog, rcv, got>>

RstArrives(a) == /\ link[a] = "poked"
                 /\ link' = [link EXCEPT ![a] = "broken"]
                 /\ UNCHANGED <<fdOf, backlog, rcv, got>>

(* What the gateway's calls find and do.                                    *)
OpenFds == {fdOf[a] : a \in App} \ {NoFd}

LowestFreeFd == CHOOSE fd \in Fd \ OpenFds : \A f \in Fd \ OpenFds : fd <= f

Owner(fd) == CHOOSE a \in App : fdOf[a] = fd

(* poll() reports the descriptor: there is data, or the end or an error of  *)
(* the connection.                                                          *)
Readable(fd) == \/ rcv[Owner(fd)] # << >>
                \/ link[Owner(fd)] \notin {"alive", "stuck"}

(* recv() with a buffer that holds everything an App has written: the whole *)
(* buffer is taken at once.  Without data, it returns 0 at the end of the   *)
(* connection and fails once if the App aborted it.                         *)
TakeData(a) == /\ rcv' = [rcv EXCEPT ![a] = << >>]
               /\ UNCHANGED <<link, fdOf, backlog, got>>

TakeError(a) == /\ link' = [link EXCEPT ![a] = "broken"]
                /\ UNCHANGED <<fdOf, backlog, rcv, got>>

(* send() may fill the buffers of an App that does not read; on a           *)
(* connection whose App has closed it, it provokes the RST; on a reset one  *)
(* it fails; SIGPIPE, on a broken one, and waiting, on a stuck one, are the *)
(* caller's matter.                                                         *)
AfterSend(a) ==
  CASE link[a] = "alive"  -> IF a \in Stalling THEN {"alive", "stuck"} ELSE {"alive"}
    [] link[a] = "closed" -> {"poked"}
    [] link[a] = "reset"  -> {"broken"}
    [] OTHER              -> {link[a]}

Deliver(a, m) ==
  /\ got' = IF link[a] = "alive" THEN [got EXCEPT ![a] = Append(@, m)] ELSE got
  /\ \E after \in AfterSend(a) : link' = [link EXCEPT ![a] = after]
  /\ UNCHANGED <<fdOf, backlog, rcv>>

(* close(): with SO_LINGER set to 0 what was not read is discarded.         *)
CloseFd(a) == /\ link' = [link EXCEPT ![a] = "gone"]
              /\ fdOf' = [fdOf EXCEPT ![a] = NoFd]
              /\ rcv' = [rcv EXCEPT ![a] = << >>]
              /\ UNCHANGED <<backlog, got>>
=============================================================================
