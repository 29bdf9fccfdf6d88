----------------------------- MODULE TrustIOPin -----------------------------
(***************************************************************************)
(* Trust.IO on HiKey: an access to the protected pin, from the driver's    *)
(* trustio_tz_call or trustio_tz_read_call (call.c) through the handlers   *)
(* of the trusted OS (entry_std.c, trustio_test.c) and the network call of *)
(* tee-supplicant (tee_socket.c) to the answering server                   *)
(* (gpio_callback_server_crypto.py), and back.                             *)
(*                                                                         *)
(* The handler writes a constant into a piece of shared memory and has it  *)
(* sent; the answer, the constant plus one, is received into the same      *)
(* memory, and the access is made if it is found there.  Whether the       *)
(* network call failed is not looked at.  Key and initial vector are       *)
(* constants too, so a block is the word it carries: a whole block         *)
(* decrypts to its word, one that is half overwritten to Garbage.          *)
(***************************************************************************)
EXTENDS Integers

CONSTANTS
  Users,        (* the kernel threads that make accesses                   *)
  Values,       (* the numbers they write                                  *)
  MaxAccesses,  (* bound: accesses made altogether                         *)
  None

Accesses == 1 .. MaxAccesses
Requests == [kind : {"read"}, value : {0}] \cup [kind : {"write"}, value : Values]

ASSUME PinAssumption ==
  /\ Values \subseteq Int
  /\ MaxAccesses \in Nat
  /\ None \notin Int \cup Requests

VARIABLES
  pin,        (* the level of the pin                                      *)
  request,    (* what an access asks for, None until it is made            *)
  pc,         (* where the access of a user is                             *)
  number,     (* which access that is                                      *)
  buffer,     (* the word in its shared memory                             *)
  result,     (* what the call into the trusted OS gave                    *)
  up, down,   (* of the connection of an access: the words that arrived    *)
  conn,       (* none, open, or closed by tee-supplicant                   *)
  server,     (* the access it serves, None in accept, Dead                *)
  served,     (* the accesses whose connection it accepted                 *)
  answered,   (* history: the accesses whose challenge it answered         *)
  troubled,   (* history: the accesses that met a failure                  *)
  outcome     (* history: open, performed or refused                       *)

netVars == <<up, down, conn>>
serverVars == <<server, served, answered>>
accessVars == <<pin, request, pc, number, buffer, result, netVars, serverVars,
                troubled, outcome>>

(* tarVal of the two handlers; what a half overwritten block decrypts to.  *)
TarVal(kind) == IF kind = "read" THEN 1107 ELSE 1640
Garbage == -1

Dead == 0
NoMemory == -12

AccessInit ==
  /\ pin \in {0, 1}
  /\ request = [n \in Accesses |-> None]
  /\ pc = [u \in Users |-> "out"]
  /\ number = [u \in Users |-> None]
  /\ buffer = [u \in Users |-> None]
  /\ result = [u \in Users |-> 0]
  /\ up = [n \in Accesses |-> None]
  /\ down = [n \in Accesses |-> None]
  /\ conn = [n \in Accesses |-> "none"]
  /\ server = None
  /\ served = {}
  /\ answered = {}
  /\ troubled = {}
  /\ outcome = [n \in Accesses |-> "open"]

Goto(u, where) == pc' = [pc EXCEPT ![u] = where]
Trouble(n) == troubled' = troubled \cup {n}
-----------------------------------------------------------------------------
(* The driver.                                                             *)
Enter(u, n, r) ==
  /\ pc[u] = "out"
  /\ request[n] = None
  /\ \A m \in 1 .. n - 1 : request[m] # None
  /\ request' = [request EXCEPT ![n] = r]
  /\ number' = [number EXCEPT ![u] = n]
  /\ Goto(u, "call")
  /\ UNCHANGED <<pin, buffer, result, netVars, serverVars, troubled, outcome>>

(* get_msg_arg; if it finds no memory the error is what the call returns,  *)
(* for a read as the value it read.                                        *)
GetMsgArg(u) ==
  /\ pc[u] = "call"
  /\ \/ /\ Goto(u, "secure")
        /\ UNCHANGED <<result, troubled, outcome>>
     \/ /\ Goto(u, "done")
        /\ result' = [result EXCEPT ![u] = NoMemory]
        /\ outcome' = [outcome EXCEPT ![number[u]] = "refused"]
        /\ Trouble(number[u])
  /\ UNCHANGED <<pin, request, number, buffer, netVars, serverVars>>

Leave(u) ==
  /\ pc[u] = "done"
  /\ Goto(u, "out")
  /\ number' = [number EXCEPT ![u] = None]
  /\ UNCHANGED <<pin, request, buffer, result, netVars, serverVars, troubled, outcome>>
-----------------------------------------------------------------------------
(* The handlers in the trusted OS.  They do not look whether they got the  *)
(* memory; if not, the write of the challenge aborts, and OP-TEE panics.   *)
AllocPayload(u) ==
  /\ pc[u] = "secure"
  /\ \/ /\ buffer' = [buffer EXCEPT ![u] = TarVal(request[number[u]].kind)]
        /\ Goto(u, "connect")
        /\ UNCHANGED troubled
     \/ /\ Goto(u, "panic")
        /\ Trouble(number[u])
        /\ UNCHANGED buffer
  /\ UNCHANGED <<pin, request, number, result, netVars, serverVars, outcome>>

(* Fault: the challenge itself is taken for an answer.                     *)
ApprovesEcho(word, kind) == word = TarVal(kind)

Approves(word, kind) == word = TarVal(kind) + 1

(* Fault: the number itself is written to the pin.                         *)
RawLevel(v) == v

(* write_to_trustio_pin.                                                   *)
Level(v) == IF v = 0 THEN 0 ELSE 1

(* After the RPC.  A read that is refused leaves a3 as it came: 0.         *)
Verify(u) ==
  /\ pc[u] = "verify"
  /\ LET n == number[u]
         r == request[n]
     IN  \/ /\ Approves(buffer[u], r.kind)
            /\ outcome' = [outcome EXCEPT ![n] = "performed"]
            /\ \/ /\ r.kind = "write"
                  /\ pin' = Level(r.value)
                  /\ UNCHANGED result
               \/ /\ r.kind = "read"
                  /\ result' = [result EXCEPT ![u] = pin]
                  /\ UNCHANGED pin
         \/ /\ ~Approves(buffer[u], r.kind)
            /\ outcome' = [outcome EXCEPT ![n] = "refused"]
            /\ result' = [result EXCEPT ![u] = 0]
            /\ UNCHANGED pin
  /\ buffer' = [buffer EXCEPT ![u] = None]
  /\ Goto(u, "done")
  /\ UNCHANGED <<request, number, netVars, serverVars, troubled>>
-----------------------------------------------------------------------------
(* trustio_network_call: a connection for each access.                     *)
Connect(u) ==
  /\ pc[u] = "connect"
  /\ \/ /\ server # Dead
        /\ conn' = [conn EXCEPT ![number[u]] = "open"]
        /\ Goto(u, "send")
        /\ UNCHANGED troubled
     \/ /\ Goto(u, "verify")
        /\ Trouble(number[u])
        /\ UNCHANGED conn
  /\ UNCHANGED <<pin, request, number, buffer, result, up, down, serverVars, outcome>>

CloseConn(u) ==
  /\ conn' = [conn EXCEPT ![number[u]] = "closed"]
  /\ Goto(u, "verify")

(* write_with_timeout writes the challenge, fails or gives up.             *)
Send(u) ==
  /\ pc[u] = "send"
  /\ \/ /\ up' = [up EXCEPT ![number[u]] = buffer[u]]
        /\ Goto(u, "recv")
        /\ UNCHANGED <<conn, troubled>>
     \/ /\ CloseConn(u)
        /\ Trouble(number[u])
        /\ UNCHANGED up
  /\ UNCHANGED <<pin, request, number, buffer, result, down, serverVars, outcome>>

(* read_with_timeout reads the answer, or the first part of it, or nothing *)
(* when it gives up or the server has gone.                                *)
Recv(u) ==
  /\ pc[u] = "recv"
  /\ LET answer == down[number[u]]
     IN  \/ /\ answer # None
            /\ buffer' = [buffer EXCEPT ![u] = answer]
            /\ UNCHANGED troubled
         \/ /\ answer # None
            /\ buffer' = [buffer EXCEPT ![u] = Garbage]
            /\ Trouble(number[u])
         \/ /\ answer = None
            /\ Trouble(number[u])
            /\ UNCHANGED buffer
  /\ CloseConn(u)
  /\ UNCHANGED <<pin, request, number, result, up, down, serverVars, outcome>>
-----------------------------------------------------------------------------
(* The answering server serves one connection after the other.             *)
ServerAccept(n) ==
  /\ server = None
  /\ conn[n] # "none"
  /\ n \notin served
  /\ server' = n
  /\ served' = served \cup {n}
  /\ UNCHANGED <<pin, request, pc, number, buffer, result, netVars, answered,
                 troubled, outcome>>

(* The challenge arrives whole: seqnum += 1.                               *)
ServerAnswer(n) ==
  /\ server = n
  /\ up[n] # None
  /\ down' = [down EXCEPT ![n] = up[n] + 1]
  /\ answered' = answered \cup {n}
  /\ server' = None
  /\ UNCHANGED <<pin, request, pc, number, buffer, result, up, conn, served,
                 troubled, outcome>>

(* recv returned less than a block, which does not decrypt, or nothing,    *)
(* because tee-supplicant closed a connection on which it sent nothing:    *)
(* the script ends with an exception.                                      *)
ServerDies(n) ==
  /\ server = n
  /\ up[n] # None \/ conn[n] = "closed"
  /\ server' = Dead
  /\ Trouble(n)
  /\ UNCHANGED <<pin, request, pc, number, buffer, result, netVars, served,
                 answered, outcome>>

AccessStep(u) ==
  GetMsgArg(u) \/ AllocPayload(u) \/ Connect(u) \/ Send(u) \/ Recv(u) \/ Verify(u)

ServerStep == \E n \in Accesses : ServerAccept(n) \/ ServerAnswer(n) \/ ServerDies(n)
-----------------------------------------------------------------------------
AccessTypeOK ==
  /\ pin \in {0, 1}
  /\ request \in [Accesses -> Requests \cup {None}]
  /\ pc \in [Users -> {"out", "call", "secure", "connect", "send", "recv",
                       "verify", "done", "panic"}]
  /\ number \in [Users -> Accesses \cup {None}]
  /\ buffer \in [Users -> Int \cup {None}]
  /\ result \in [Users -> {0, 1, NoMemory}]
  /\ up \in [Accesses -> Int \cup {None}]
  /\ down \in [Accesses -> Int \cup {None}]
  /\ conn \in [Accesses -> {"none", "open", "closed"}]
  /\ server \in Accesses \cup {None, Dead}
  /\ served \subseteq Accesses
  /\ answered \subseteq Accesses
  /\ troubled \subseteq Accesses
  /\ outcome \in [Accesses -> {"open", "performed", "refused"}]

(* What the accesses promise, for the server, the trusted OS and           *)
(* tee-supplicant together.                                                *)
Stage(n) ==
  IF outcome[n] # "open" THEN outcome[n]
  ELSE IF n \in answered THEN "approved" ELSE "open"

Promise == INSTANCE ProtectedPin
             WITH asked <- request, stage <- [n \in Accesses |-> Stage(n)]
=============================================================================
