------------------------------ MODULE TrustIO -------------------------------
(***************************************************************************)
(* Trust.IO on the bare-metal board (software/net_project).                *)
(*                                                                         *)
(* The normal world serves TCP connections.  A command on one of them      *)
(* reads or writes a protected register; the access traps into the         *)
(* monitor, which sends an encrypted challenge over the same connection,   *)
(* waits for the client's encrypted answer and only then performs the      *)
(* access.  Both ends chain their messages with AES-CBC, and the button of *)
(* the board starts an exchange of keys.                                   *)
(*                                                                         *)
(* The board has one thread.  While it waits for an answer it goes on      *)
(* receiving, so a command of another connection starts an access within   *)
(* the one that waits: the stack holds the accesses in progress.           *)
(***************************************************************************)
EXTENDS Integers, Sequences

CONSTANTS
  Clients,      (* the clients, each with a connection of its own          *)
  MaxCommands,  (* bound: the commands a client sends                      *)
  Wants,        (* what a client may expect of an access: the operation    *)
                (* and the value                                           *)
  Events,       (* what else may happen, of EventKinds                     *)
  None          (* no connection                                           *)

(* The button is pressed, once there was a challenge or before the first;  *)
(* an answer arrives in two segments; there is no room in the send buffer; *)
(* a client closes its connection.                                         *)
EventKinds == {"button", "first", "split", "full", "close"}
Values == {0, 1}

ASSUME TrustIOAssumption ==
  /\ MaxCommands \in Nat /\ Events \subseteq EventKinds /\ None \notin Clients
  /\ Wants # {}
  /\ Wants \subseteq [op : {"read", "write"}, value : Values]

VARIABLES
  cpc,        (* where a client is in send_cmd_trustio                     *)
  cmd,        (* the command it sent                                       *)
  want,       (* its verify_tuple: the operation and the value it expects  *)
  aes,        (* its aes_obj: a key and the last block seen                *)
  left,       (* how many more commands it may send                        *)
  approvals,  (* the requests approved so far, with what was expected      *)
  toBoard,    (* the segments on their way to the board, per connection    *)
  toClient,   (* and on their way back                                     *)
  tpcb,       (* tpcb_global                                               *)
  callback,   (* the receive callback of a connection                      *)
  response,   (* crypto_response                                           *)
  nsChallenge,(* ns_challenge                                              *)
  stack,      (* the protected accesses in progress                        *)
  key,        (* the monitor's key                                         *)
  ctx,        (* its AES context: a key and the last block seen            *)
  ready,      (* AES_initialized                                           *)
  updating,   (* updating_key                                              *)
  challenge,  (* the challenge that was issued last                        *)
  counter,
  device,     (* the protected register: 0 or 1                            *)
  accesses,   (* the accesses performed so far                             *)
  fresh       (* the last block that was encrypted                         *)

clientVars == <<cpc, cmd, want, aes, left, approvals>>
netVars == <<toBoard, toClient>>
normalVars == <<tpcb, callback, response, nsChallenge>>
monitorVars == <<key, ctx, ready, updating, challenge, counter, device,
                 accesses>>
vars == <<clientVars, netVars, normalVars, stack, monitorVars, fresh>>

Commands == {"on", "off", "read"}

(* The access a command makes.                                             *)
OpOf(c) == IF c = "read" THEN "read" ELSE "write"
Written(c) == IF c = "on" THEN 1 ELSE 0

(***************************************************************************)
(* AES-CBC on one block.  A block decrypts to what was encrypted only      *)
(* under the same key and after the same previous block; blocks and keys   *)
(* are numbered as they are made.                                          *)
(***************************************************************************)
Vector == 0
FirstKey == 0
LostKey == -1
NoKey == -2
Garbage == [kind |-> "garbage"]

Block(a, plain, n) == [kind |-> "block", key |-> a.key, after |-> a.last,
                       plain |-> plain, id |-> n]

(* 16 bytes that are no ciphertext: all ones, or something else.           *)
Raw(n) == [kind |-> "block", key |-> NoKey, after |-> -2, plain |-> Garbage,
           id |-> n]
Ones == Raw(-1)
Noise == Raw(-2)

Decrypted(a, m) == IF m.key = a.key /\ m.after = a.last THEN m.plain ELSE Garbage

After(a, m) == [a EXCEPT !.last = m.id]

Access(op, value, n) ==
  [kind |-> "access", op |-> op, value |-> value, counter |-> n]

(* The bytes of a decrypted block, taken as a key.                         *)
KeyIn(plain) == IF plain.kind = "key" THEN plain.key ELSE LostKey

Segment(kind) == [kind |-> kind]
-----------------------------------------------------------------------------
Init ==
  /\ cpc = [c \in Clients |-> "idle"]
  /\ cmd = [c \in Clients |-> "on"]
  /\ want = [c \in Clients |-> CHOOSE w \in Wants : TRUE]
  /\ aes = [c \in Clients |-> [key |-> FirstKey, last |-> Vector]]
  /\ left = [c \in Clients |-> MaxCommands]
  /\ approvals = {}
  /\ toBoard = [c \in Clients |-> <<>>]
  /\ toClient = [c \in Clients |-> <<>>]
  /\ tpcb = None
  /\ callback = [c \in Clients |-> "recv"]
  /\ response = 0
  /\ nsChallenge = Noise
  /\ stack = <<>>
  /\ key = FirstKey
  /\ ctx = [key |-> NoKey, last |-> Vector]
  /\ ready = FALSE
  /\ updating = 0
  /\ challenge = Access("read", 0, -2)
  /\ counter = 0
  /\ device = 0
  /\ accesses = <<>>
  /\ fresh = 0
-----------------------------------------------------------------------------
(* The client (trust_io.py).                                               *)

Received(c) == toClient' = [toClient EXCEPT ![c] = Tail(@)]

(* A block may reach the board in one segment or in two.                   *)
SendBlock(c, m) ==
  \E segments \in {<<m>>} \cup
                  IF "split" \in Events
                  THEN {<<Segment("part"), Segment("part")>>} ELSE {} :
    toBoard' = [toBoard EXCEPT ![c] = @ \o segments]

SendCommand(c, k, w) ==
  /\ cpc[c] = "idle"
  /\ left[c] > 0
  /\ left' = [left EXCEPT ![c] = @ - 1]
  /\ cmd' = [cmd EXCEPT ![c] = k]
  /\ want' = [want EXCEPT ![c] = w]
  /\ toBoard' = [toBoard EXCEPT ![c] = Append(@, [kind |-> "cmd", cmd |-> k])]
  /\ cpc' = [cpc EXCEPT ![c] = "challenge"]
  /\ UNCHANGED <<aes, approvals, toClient, normalVars, stack, monitorVars,
                 fresh>>

(* The client is sent all ones: it makes a key, sends it under the old one *)
(* and starts a new chain.                                                 *)
Rekey(c) ==
  /\ cpc[c] = "challenge"
  /\ toClient[c] # <<>> /\ Head(toClient[c]) = Ones
  /\ SendBlock(c, Block(aes[c], [kind |-> "key", key |-> fresh + 1], fresh + 1))
  /\ aes' = [aes EXCEPT ![c] = [key |-> fresh + 1, last |-> Vector]]
  /\ fresh' = fresh + 1
  /\ Received(c)
  /\ cpc' = [cpc EXCEPT ![c] = "rekeyed"]
  /\ UNCHANGED <<cmd, want, left, approvals, normalVars, stack, monitorVars>>

(* The address and the operation are compared; the value is not.           *)
Valid(c, plain) == plain.kind = "access" /\ plain.op = want[c].op

(* The client answers a challenge: with the counter incremented, or with   *)
(* the challenge as it came.                                               *)
Answer(c) ==
  /\ cpc[c] \in {"challenge", "rekeyed"}
  /\ toClient[c] # <<>>
  /\ LET m == Head(toClient[c])
         plain == Decrypted(aes[c], m)
     IN
     /\ m.kind = "block"
     /\ cpc[c] = "challenge" => m # Ones
     /\ IF Valid(c, plain)
        THEN LET reply == Block(After(aes[c], m),
                                [plain EXCEPT !.counter = @ + 1], fresh + 1)
             IN
             /\ SendBlock(c, reply)
             /\ aes' = [aes EXCEPT ![c] = After(@, reply)]
             /\ fresh' = fresh + 1
             /\ approvals' = approvals \cup
                  {[access |-> plain, wanted |-> want[c]]}
        ELSE /\ SendBlock(c, m)
             /\ aes' = [aes EXCEPT ![c] = After(@, m)]
             /\ UNCHANGED <<fresh, approvals>>
  /\ Received(c)
  /\ cpc' = [cpc EXCEPT ![c] = "result"]
  /\ UNCHANGED <<cmd, want, left, normalVars, stack, monitorVars>>

(* The echo of the command, or the value that was read.                    *)
GetResult(c) ==
  /\ cpc[c] = "result"
  /\ toClient[c] # <<>> /\ Head(toClient[c]).kind # "block"
  /\ Received(c)
  /\ cpc' = [cpc EXCEPT ![c] = "idle"]
  /\ UNCHANGED <<cmd, want, aes, left, approvals, toBoard, normalVars, stack,
                 monitorVars, fresh>>

(* The client ends, and its connection with it: on an error, when it reads *)
(* something else than it expects, or at any time.                         *)
Unexpected(c) ==
  /\ toClient[c] # <<>>
  /\ \/ cpc[c] \in {"challenge", "rekeyed"} /\ Head(toClient[c]).kind # "block"
     \/ cpc[c] = "result" /\ Head(toClient[c]).kind = "block"

Close(c) ==
  /\ cpc[c] # "closed"
  /\ Unexpected(c) \/ "close" \in Events
  /\ cpc' = [cpc EXCEPT ![c] = "closed"]
  /\ toBoard' = [toBoard EXCEPT ![c] = Append(@, Segment("fin"))]
  /\ toClient' = [toClient EXCEPT ![c] = <<>>]
  /\ UNCHANGED <<cmd, want, aes, left, approvals, normalVars, stack,
                 monitorVars, fresh>>
-----------------------------------------------------------------------------
(* The normal world of the board.                                          *)

Top == stack[Len(stack)]

SetTop(frame) == stack' = [stack EXCEPT ![Len(stack)] = frame]

Goto(where) == SetTop([Top EXCEPT !.at = where])

(* Fault: an interrupt receives a segment whatever the board is doing.     *)
ReceivesAnytime == TRUE

(* The main loop, or the loop of crypto_request, receives a segment.       *)
Polling == stack = <<>> \/ (Top.at = "wait" /\ response = 0)

Incoming(c) == IF Polling /\ toBoard[c] # <<>> THEN {Head(toBoard[c])} ELSE {}

Taken(c) == toBoard' = [toBoard EXCEPT ![c] = Tail(@)]

Open(c) == cpc[c] # "closed" /\ callback[c] # "none"

(* tcp_write: nothing reaches a client that is gone.                       *)
Write(c, m) ==
  toClient' = IF Open(c) THEN [toClient EXCEPT ![c] = Append(@, m)] ELSE toClient

(* Interrupt_Handler, up to the challenge: the frame of the access that    *)
(* command k makes.  The register is read for a load as soon as it traps.  *)
Trapped(c, k) ==
  [conn |-> c, cmd |-> k, at |-> "trap", op |-> OpOf(k),
   value |-> IF k = "read" THEN device ELSE Written(k)]

(* recv_callback: a command makes an access.                               *)
RecvCommand(c) ==
  \E m \in Incoming(c) :
    /\ callback[c] = "recv"
    /\ Taken(c)
    /\ m.kind = "cmd"
    /\ tpcb' = c
    /\ stack' = Append(stack, Trapped(c, m.cmd))
    /\ UNCHANGED <<clientVars, toClient, callback, response, nsChallenge,
                   monitorVars, fresh>>

(* recv_callback: anything else is echoed, if the stack of TCP/IP has room *)
(* for that.                                                               *)
RecvOther(c) ==
  \E m \in Incoming(c) :
    /\ callback[c] = "recv"
    /\ Taken(c)
    /\ m.kind \in {"block", "part"}
    /\ tpcb' = c
    /\ \/ Write(c, Segment("echo"))
       \/ "full" \in Events /\ UNCHANGED toClient
    /\ UNCHANGED <<clientVars, callback, response, nsChallenge, stack,
                   monitorVars, fresh>>

(* crypto_callback: an answer has the length of a challenge.               *)
RecvAnswer(c) ==
  \E m \in Incoming(c) :
    /\ callback[c] = "crypto"
    /\ Taken(c)
    /\ m.kind # "fin"
    /\ IF m.kind = "block"
       THEN nsChallenge' = m /\ response' = 1
       ELSE response' = -1 /\ UNCHANGED nsChallenge
    /\ UNCHANGED <<clientVars, toClient, tpcb, callback, stack, monitorVars,
                   fresh>>

(* The connection is closed; only recv_callback notes which one it was.    *)
RecvClose(c) ==
  /\ callback[c] # "none"
  /\ Segment("fin") \in Incoming(c)
  /\ Taken(c)
  /\ callback' = [callback EXCEPT ![c] = "none"]
  /\ tpcb' = IF callback[c] = "recv" THEN c ELSE tpcb
  /\ UNCHANGED <<clientVars, toClient, response, nsChallenge, stack,
                 monitorVars, fresh>>

SetCallback(c, f) ==
  callback' = [callback EXCEPT ![c] = IF @ = "none" THEN @ ELSE f]

(* crypto_request sends the challenge.  With no room in the send buffer    *)
(* "err" is not initialised: it waits for an answer to nothing, or goes on.*)
CryptoRequest ==
  /\ stack # <<>> /\ Top.at = "request"
  /\ \/ /\ callback[tpcb] # "none"
        /\ Write(tpcb, nsChallenge)
        /\ response' = 0
     \/ /\ callback[tpcb] = "none" \/ "full" \in Events
        /\ response' = -1
        /\ UNCHANGED toClient
     \/ /\ "full" \in Events
        /\ response' = 0
        /\ UNCHANGED toClient
  /\ SetCallback(tpcb, "crypto")
  /\ Goto("wait")
  /\ UNCHANGED <<clientVars, toBoard, tpcb, nsChallenge, monitorVars, fresh>>

(* Fault: the callback is not set back.                                    *)
KeepCallback == UNCHANGED callback

(* "Set our callback back".                                                *)
CallbackBack == SetCallback(tpcb, "recv")

(* crypto_request is done waiting.                                         *)
CryptoResponse ==
  /\ stack # <<>> /\ Top.at = "wait"
  /\ response # 0
  /\ CallbackBack
  /\ Goto("answered")
  /\ UNCHANGED <<clientVars, netVars, tpcb, response, nsChallenge, monitorVars,
                 fresh>>

(* The rest of recv_callback: the value read or an echo of the command;    *)
(* nobody looks at whether tcp_write took it.                              *)
Reply ==
  /\ stack # <<>> /\ Top.at = "done"
  /\ \/ Write(Top.conn, Segment("result"))
     \/ "full" \in Events /\ UNCHANGED toClient
  /\ stack' = SubSeq(stack, 1, Len(stack) - 1)
  /\ UNCHANGED <<clientVars, toBoard, normalVars, monitorVars, fresh>>
-----------------------------------------------------------------------------
(* The monitor (interrupts.c, monitor.S).                                  *)

Challenge ==
  LET a == IF ready THEN ctx ELSE [key |-> key, last |-> Vector]
      plain == Access(Top.op, Top.value, counter)
      m == Block(a, plain, fresh + 1)
  IN
  /\ challenge' = plain
  /\ counter' = counter + 2
  /\ nsChallenge' = m
  /\ ctx' = After(a, m)
  /\ ready' = TRUE
  /\ fresh' = fresh + 1

(* get_crypto_challenge.                                                   *)
GetCryptoChallenge ==
  /\ stack # <<>> /\ Top.at = "trap"
  /\ \/ /\ updating = 2
        /\ updating' = 0
        /\ Challenge
     \/ /\ updating # 2
        /\ UNCHANGED updating
        /\ Challenge
     \/ /\ updating # 2
        /\ (IF ready THEN "button" ELSE "first") \in Events
        /\ updating' = 1
        /\ nsChallenge' = Ones
        /\ UNCHANGED <<ctx, ready, challenge, counter, fresh>>
  /\ Goto("request")
  /\ UNCHANGED <<clientVars, netVars, tpcb, callback, response, key, device,
                 accesses>>

(* Faults: the context outlives the key; the build without cryptography;   *)
(* a comparison with the counter as it is now.                             *)
KeepContext == UNCHANGED ready
MatchesAnything(plain) == TRUE
MatchesAdvanced(plain) == plain = [challenge EXCEPT !.counter = counter + 1]

DropContext == ready' = FALSE

(* check_response while the key is updated; the monitor then starts over.  *)
UpdateKey ==
  /\ stack # <<>> /\ Top.at = "answered"
  /\ updating # 0
  /\ key' = KeyIn(Decrypted(ctx, nsChallenge))
  /\ ctx' = After(ctx, Noise)
  /\ nsChallenge' = Noise
  /\ updating' = 2
  /\ DropContext
  /\ Goto("trap")
  /\ UNCHANGED <<clientVars, netVars, tpcb, callback, response, challenge,
                 counter, device, accesses, fresh>>

(* The answer is the challenge issued last with its counter incremented.   *)
Matches(plain) ==
  plain = [challenge EXCEPT !.counter = @ + 1]

(* check_response otherwise, and the access if the answer is right.  It is *)
(* the access of the frame that is performed.                              *)
CheckResponse ==
  /\ stack # <<>> /\ Top.at = "answered"
  /\ updating = 0
  /\ IF Matches(Decrypted(ctx, nsChallenge))
     THEN /\ device' = IF Top.op = "write" THEN Top.value ELSE device
          /\ accesses' = Append(accesses,
               Access(Top.op, Top.value, challenge.counter))
     ELSE UNCHANGED <<device, accesses>>
  /\ ctx' = After(ctx, nsChallenge)
  /\ nsChallenge' = Noise
  /\ Goto("done")
  /\ UNCHANGED <<clientVars, netVars, tpcb, callback, response, key, ready,
                 updating, challenge, counter, fresh>>
-----------------------------------------------------------------------------
ClientStep(c) == Rekey(c) \/ Answer(c) \/ GetResult(c)

Receive(c) ==
  RecvCommand(c) \/ RecvOther(c) \/ RecvAnswer(c) \/ RecvClose(c)

BoardStep ==
  \/ CryptoRequest \/ CryptoResponse \/ Reply
  \/ GetCryptoChallenge \/ UpdateKey \/ CheckResponse

Next ==
  \/ \E c \in Clients :
       \/ \E k \in Commands, w \in Wants : SendCommand(c, k, w)
       \/ ClientStep(c)
       \/ Close(c)
       \/ Receive(c)
  \/ BoardStep

Spec == Init /\ [][Next]_vars

(* TCP delivers, the client answers, and the board goes on.                *)
Fairness == /\ WF_vars(BoardStep)
            /\ \A c \in Clients : WF_vars(ClientStep(c)) /\ WF_vars(Receive(c))

FairSpec == Spec /\ Fairness
-----------------------------------------------------------------------------
Contexts == [key : Int, last : Int]
AccessRecords ==
  [kind : {"access"}, op : {"read", "write"}, value : Values, counter : Int]
Plains == AccessRecords \cup [kind : {"key"}, key : Int] \cup {Garbage}
Blocks == [kind : {"block"}, key : Int, after : Int, plain : Plains, id : Int]
BoardSegments == Blocks \cup [kind : {"cmd"}, cmd : Commands]
                        \cup {Segment("part"), Segment("fin")}
ClientSegments == Blocks \cup {Segment("echo"), Segment("result")}
Frames == [conn : Clients, cmd : Commands, op : {"read", "write"},
           value : Values, at : {"trap", "request", "wait", "answered", "done"}]

(* Every variable keeps to its range, a connection is noted before an      *)
(* access begins, and only the access on top of the stack is anywhere but  *)
(* waiting for an answer.                                                  *)
TypeOK ==
  /\ cpc \in [Clients -> {"idle", "challenge", "rekeyed", "result", "closed"}]
  /\ cmd \in [Clients -> Commands]
  /\ want \in [Clients -> Wants]
  /\ aes \in [Clients -> Contexts]
  /\ left \in [Clients -> 0 .. MaxCommands]
  /\ \A a \in approvals : a \in [access : AccessRecords, wanted : Wants]
  /\ toBoard \in [Clients -> Seq(BoardSegments)]
  /\ toClient \in [Clients -> Seq(ClientSegments)]
  /\ tpcb \in Clients \cup {None}
  /\ callback \in [Clients -> {"recv", "crypto", "none"}]
  /\ response \in {-1, 0, 1}
  /\ nsChallenge \in Blocks
  /\ stack \in Seq(Frames)
  /\ \A i \in 1 .. Len(stack) - 1 : stack[i].at = "wait"
  /\ stack # <<>> => tpcb \in Clients
  /\ key \in Int /\ ctx \in Contexts
  /\ ready \in BOOLEAN /\ updating \in 0 .. 2
  /\ challenge \in AccessRecords
  /\ counter \in Nat /\ device \in Values /\ fresh \in Nat
  /\ accesses \in Seq(AccessRecords)

(* The monitor performs an access only if a client approved exactly that   *)
(* access - its operation, its value and its counter - and an approval     *)
(* serves for one access: neither the accesses that nest on the stack, nor *)
(* the change of a key, nor an answer in pieces lets an answer count for   *)
(* another access than the one it was given for (monitor.S, interrupts.c). *)
AccessesApproved ==
  \A i \in DOMAIN accesses :
    /\ \E a \in approvals : a.access = accesses[i]
    /\ \A j \in DOMAIN accesses : accesses[i] = accesses[j] => i = j

(* A load returns what the register holds when it is allowed, although the *)
(* monitor reads the register before it asks (monitor.S): no access in     *)
(* between changes it.                                                     *)
ReadsAreCurrent ==
  [][\A i \in DOMAIN accesses' \ DOMAIN accesses :
       accesses'[i].op = "read" => accesses'[i].value = device]_vars

(* Both together, and of the register itself: nothing but an access that   *)
(* was granted changes it, whatever nests, is lost or comes late           *)
(* (monitor.S, which makes the access after check_response).               *)
Promise == INSTANCE ProtectedRegister
             WITH register <- device,
                  granted <- {a.access : a \in approvals},
                  performed <- {accesses[i] : i \in DOMAIN accesses}

ImplementsProtectedRegister == Promise!RegisterSpec

(* What makes them hold.  A challenge has an even counter, and a block  *)
(* with an odd one is an answer a client gave to what it approved.         *)
Even(n) == n % 2 = 0

Asked(m) ==
  m.kind = "block" /\ m.plain.kind = "access" => Even(m.plain.counter)

Vouched(m, given) ==
  m.kind = "block" /\ m.plain.kind = "access" =>
    \/ Even(m.plain.counter)
    \/ \E a \in given : m.plain = [a.access EXCEPT !.counter = @ + 1]

BlocksVouched ==
  /\ \A c \in Clients : \A i \in DOMAIN toBoard[c] : Vouched(toBoard[c][i], approvals)
  /\ \A c \in Clients : \A i \in DOMAIN toClient[c] : Asked(toClient[c][i])
  /\ Vouched(nsChallenge, approvals)
  /\ stack # <<>> /\ Top.at = "request" => Asked(nsChallenge)

CountersOrdered ==
  /\ Even(counter) /\ Even(challenge.counter)
  /\ challenge.counter < counter
  /\ \A i \in DOMAIN accesses : accesses[i].counter < counter

(* The challenge issued last is for the access on top of the stack, and    *)
(* was not used yet.                                                       *)
ChallengeFits ==
  /\ challenge.op = Top.op /\ challenge.value = Top.value
  /\ \A i \in DOMAIN accesses : accesses[i].counter # challenge.counter

(* A load has the value the register holds now.                            *)
Current == Top.op = "read" => Top.value = device

(* An access was made within this one: its answer is void.                 *)
Void == nsChallenge = Noise /\ response # 0 /\ updating = 0

Pending == Current /\ (ChallengeFits \/ updating = 1)

AnswerFits ==
  stack # <<>> =>
    /\ Top.at = "trap" => Current
    /\ Top.at = "request" => Pending
    /\ Top.at \in {"wait", "answered"} => Pending \/ Void
    /\ Top.at = "answered" => response # 0
    /\ Top.at = "done" => Void

(* The invariant that the accesses rest on: blocks are vouched for,        *)
(* counters grow, and an answer either fits the access that waits for it,  *)
(* or is void because another access was made meanwhile.                   *)
ApprovalInv ==
  TypeOK /\ BlocksVouched /\ CountersOrdered /\ AnswerFits /\ AccessesApproved

(* Nothing is going on.                                                    *)
Quiet(c) ==
  cpc[c] = "idle" /\ stack = <<>> /\ toBoard[c] = <<>> /\ toClient[c] = <<>>

(* When nothing is going on, the client and the monitor hold the same key  *)
(* and are at the same place of the chain, whatever was approved, denied   *)
(* or re-keyed before (interrupts.c, trust_io.py).                         *)
ChainsAgree ==
  \A c \in Clients : Quiet(c) =>
    aes[c] = IF ready THEN ctx ELSE [key |-> key, last |-> Vector]

(* "Key updated!": after an exchange of keys the client and the monitor    *)
(* use the same one (interrupts.c, check_response).                        *)
KeysAgree == \A c \in Clients : Quiet(c) => key = aes[c].key

(* And every access the client approved was performed.                     *)
ApprovalsTakeEffect ==
  \A c \in Clients : Quiet(c) =>
    \A a \in approvals : \E i \in DOMAIN accesses : accesses[i] = a.access

(* "Set our callback back": once no access is in progress, the connections *)
(* that are open take commands again (main.c, crypto_request).             *)
CallbackRestored ==
  stack = <<>> => \A c \in Clients : callback[c] # "crypto"

(* Every command comes to its end: the client is told the result, through  *)
(* a change of the key too (crypto_request, send_cmd_trustio).             *)
CommandsFinish ==
  \A c \in Clients : cpc[c] = "challenge" ~> cpc[c] = "idle"
=============================================================================
