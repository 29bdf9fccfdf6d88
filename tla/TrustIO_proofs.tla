--------------------------- MODULE TrustIO_proofs ---------------------------
(***************************************************************************)
(* Proofs about TrustIO, for any number of clients and commands: the       *)
(* monitor performs only what a client approved, once for each approval,   *)
(* and a load returns the current value.                                   *)
(*                                                                         *)
(* And for one client and any number of commands, with answers in pieces   *)
(* too: whenever the two ends are at rest they are at the same place of    *)
(* the chain and hold the same key, and every approval took effect; and    *)
(* the callback is set back.                                               *)
(***************************************************************************)
EXTENDS TrustIO, SequenceTheorems, TLAPS

-----------------------------------------------------------------------------
(* Stacks and segments.                                                    *)

LEMMA TopType ==
  ASSUME TypeOK, stack # <<>>
  PROVE  /\ Top \in Frames
         /\ Len(stack) \in Nat \ {0}
         /\ tpcb \in Clients
BY DEF TypeOK, Top

LEMMA SetTopType ==
  ASSUME TypeOK, stack # <<>>, NEW f \in Frames, SetTop(f)
  PROVE  /\ stack' \in Seq(Frames)
         /\ stack' # <<>>
         /\ Len(stack') = Len(stack)
         /\ Top' = f
         /\ \A i \in 1 .. Len(stack') - 1 : stack'[i].at = "wait"
BY TopType DEF TypeOK, SetTop, Top

LEMMA GotoType ==
  ASSUME TypeOK, stack # <<>>,
         NEW where \in {"trap", "request", "wait", "answered", "done"},
         Goto(where)
  PROVE  /\ stack' \in Seq(Frames)
         /\ stack' # <<>>
         /\ Top' = [Top EXCEPT !.at = where]
         /\ Top'.at = where
         /\ \A i \in 1 .. Len(stack') - 1 : stack'[i].at = "wait"
<1> DEFINE f == [Top EXCEPT !.at = where]
<1>1. f \in Frames
  BY TopType DEF Frames
<1>2. f.at = where
  BY TopType DEF Frames
<1> HIDE DEF f
<1>3. SetTop(f)
  BY DEF Goto, f
<1> QED
  BY <1>1, <1>2, <1>3, SetTopType DEF f

LEMMA IncomingType ==
  ASSUME TypeOK, NEW c \in Clients, NEW m \in Incoming(c)
  PROVE  /\ m \in BoardSegments
         /\ toBoard[c] # <<>> /\ m = toBoard[c][1]
         /\ Polling
BY DEF TypeOK, Incoming

LEMMA TakenType ==
  ASSUME TypeOK, NEW c \in Clients, toBoard[c] # <<>>, Taken(c)
  PROVE  /\ toBoard' \in [Clients -> Seq(BoardSegments)]
         /\ \A d \in Clients : \A i \in DOMAIN toBoard'[d] :
              \E j \in DOMAIN toBoard[d] : toBoard'[d][i] = toBoard[d][j]
<1>1. Tail(toBoard[c]) \in Seq(BoardSegments)
  BY DEF TypeOK
<1>2. \A i \in DOMAIN Tail(toBoard[c]) :
        i + 1 \in DOMAIN toBoard[c] /\ Tail(toBoard[c])[i] = toBoard[c][i + 1]
  BY DEF TypeOK
<1> QED
  BY <1>1, <1>2 DEF TypeOK, Taken

LEMMA BlockType ==
  ASSUME NEW a \in Contexts, NEW plain \in Plains, NEW n \in Int
  PROVE  /\ Block(a, plain, n) \in Blocks
         /\ Block(a, plain, n).kind = "block"
         /\ Block(a, plain, n).plain = plain
BY DEF Block, Blocks, Contexts

LEMMA RawType ==
  /\ Ones \in Blocks /\ Noise \in Blocks
  /\ Ones.plain = Garbage /\ Noise.plain = Garbage
BY DEF Ones, Noise, Raw, Blocks, Plains, NoKey

LEMMA AfterType ==
  ASSUME NEW a \in Contexts, NEW m \in Blocks
  PROVE  After(a, m) \in Contexts
BY DEF After, Contexts, Blocks

LEMMA DecryptedType ==
  ASSUME NEW a, NEW m \in Blocks
  PROVE  Decrypted(a, m) \in Plains /\ Decrypted(a, m) \in {m.plain, Garbage}
BY DEF Decrypted, Blocks, Plains

LEMMA KeyInType ==
  ASSUME NEW p \in Plains
  PROVE  KeyIn(p) \in Int
BY DEF KeyIn, Plains, LostKey, AccessRecords, Garbage

(* What joins the segments to the board is the block, or pieces of it.     *)
LEMMA SendBlockType ==
  ASSUME TypeOK, NEW c \in Clients, NEW m \in Blocks, SendBlock(c, m)
  PROVE  /\ toBoard' \in [Clients -> Seq(BoardSegments)]
         /\ \A d \in Clients : \A i \in DOMAIN toBoard'[d] :
              \/ \E j \in DOMAIN toBoard[d] : toBoard'[d][i] = toBoard[d][j]
              \/ toBoard'[d][i] \in {m, Segment("part")}
<1>1. PICK segments \in {<<m>>, <<Segment("part"), Segment("part")>>} :
        toBoard' = [toBoard EXCEPT ![c] = @ \o segments]
  BY DEF SendBlock
<1>2. /\ segments \in Seq(BoardSegments)
      /\ \A i \in DOMAIN segments : segments[i] \in {m, Segment("part")}
  <2>1. m \in BoardSegments /\ Segment("part") \in BoardSegments
    BY DEF BoardSegments
  <2>2. CASE segments = <<m>>
    BY <2>1, <2>2
  <2>3. CASE segments = <<Segment("part"), Segment("part")>>
    BY <2>1, <2>3
  <2> QED
    BY <1>1, <2>2, <2>3
<1>3. toBoard[c] \in Seq(BoardSegments)
  BY DEF TypeOK
<1>4. toBoard[c] \o segments \in Seq(BoardSegments)
  BY <1>2, <1>3
<1>5. \A i \in DOMAIN (toBoard[c] \o segments) :
        \/ \E j \in DOMAIN toBoard[c] :
             (toBoard[c] \o segments)[i] = toBoard[c][j]
        \/ (toBoard[c] \o segments)[i] \in {m, Segment("part")}
  BY <1>2, <1>3
<1> QED
  BY <1>1, <1>4, <1>5 DEF TypeOK

LEMMA AppendBoardType ==
  ASSUME TypeOK, NEW c \in Clients, NEW m \in BoardSegments,
         toBoard' = [toBoard EXCEPT ![c] = Append(@, m)]
  PROVE  /\ toBoard' \in [Clients -> Seq(BoardSegments)]
         /\ \A d \in Clients : \A i \in DOMAIN toBoard'[d] :
              \/ \E j \in DOMAIN toBoard[d] : toBoard'[d][i] = toBoard[d][j]
              \/ toBoard'[d][i] = m
<1>1. toBoard[c] \in Seq(BoardSegments)
  BY DEF TypeOK
<1>2. \A i \in DOMAIN Append(toBoard[c], m) :
        \/ \E j \in DOMAIN toBoard[c] : Append(toBoard[c], m)[i] = toBoard[c][j]
        \/ Append(toBoard[c], m)[i] = m
  BY <1>1
<1> QED
  BY <1>1, <1>2 DEF TypeOK

LEMMA WriteType ==
  ASSUME TypeOK, NEW c \in Clients, NEW m \in ClientSegments, Write(c, m)
  PROVE  /\ toClient' \in [Clients -> Seq(ClientSegments)]
         /\ \A d \in Clients : \A i \in DOMAIN toClient'[d] :
              \/ \E j \in DOMAIN toClient[d] : toClient'[d][i] = toClient[d][j]
              \/ toClient'[d][i] = m
<1>1. toClient[c] \in Seq(ClientSegments)
  BY DEF TypeOK
<1>2. \A i \in DOMAIN Append(toClient[c], m) :
        \/ \E j \in DOMAIN toClient[c] :
             Append(toClient[c], m)[i] = toClient[c][j]
        \/ Append(toClient[c], m)[i] = m
  BY <1>1
<1> QED
  BY <1>1, <1>2 DEF TypeOK, Write

LEMMA ReceivedType ==
  ASSUME TypeOK, NEW c \in Clients, toClient[c] # <<>>, Received(c)
  PROVE  /\ toClient' \in [Clients -> Seq(ClientSegments)]
         /\ Head(toClient[c]) \in ClientSegments
         /\ Head(toClient[c]) = toClient[c][1] /\ 1 \in DOMAIN toClient[c]
         /\ \A d \in Clients : \A i \in DOMAIN toClient'[d] :
              \E j \in DOMAIN toClient[d] : toClient'[d][i] = toClient[d][j]
<1>1. /\ toClient[c] \in Seq(ClientSegments)
      /\ Tail(toClient[c]) \in Seq(ClientSegments)
  BY DEF TypeOK
<1>2. \A i \in DOMAIN Tail(toClient[c]) :
        /\ i + 1 \in DOMAIN toClient[c]
        /\ Tail(toClient[c])[i] = toClient[c][i + 1]
  BY <1>1
<1> QED
  BY <1>1, <1>2 DEF TypeOK, Received

LEMMA ClientBlockType ==
  ASSUME NEW m \in ClientSegments, m.kind = "block"
  PROVE  m \in Blocks
BY DEF ClientSegments, Segment, Blocks

LEMMA BoardBlockType ==
  ASSUME NEW m \in BoardSegments, m.kind = "block"
  PROVE  m \in Blocks
BY DEF BoardSegments, Segment, Blocks

LEMMA SegmentTypes ==
  /\ Segment("part") \in BoardSegments /\ Segment("fin") \in BoardSegments
  /\ Segment("echo") \in ClientSegments /\ Segment("result") \in ClientSegments
  /\ \A k : Segment(k).kind = k
  /\ Blocks \subseteq BoardSegments /\ Blocks \subseteq ClientSegments
BY DEF Segment, BoardSegments, ClientSegments

(* What an answer is: a block that increments what was approved, or the    *)
(* challenge as it came.                                                   *)
LEMMA AnswerType ==
  ASSUME TypeOK, NEW c \in Clients, Answer(c)
  PROVE  LET m == Head(toClient[c])
             plain == Decrypted(aes[c], m)
         IN
         /\ m \in Blocks /\ m = toClient[c][1] /\ 1 \in DOMAIN toClient[c]
         /\ \/ /\ plain \in AccessRecords /\ plain = m.plain
               /\ \E reply \in Blocks :
                    /\ reply.plain = [plain EXCEPT !.counter = @ + 1]
                    /\ SendBlock(c, reply)
                    /\ aes' = [aes EXCEPT ![c] = After(@, reply)]
               /\ fresh' = fresh + 1
               /\ approvals' = approvals \cup
                    {[access |-> plain, wanted |-> want[c]]}
            \/ /\ SendBlock(c, m)
               /\ aes' = [aes EXCEPT ![c] = After(@, m)]
               /\ UNCHANGED <<fresh, approvals>>
<1> DEFINE m == Head(toClient[c])
           plain == Decrypted(aes[c], m)
           reply == Block(After(aes[c], m),
                          [plain EXCEPT !.counter = @ + 1], fresh + 1)
<1>1. m \in Blocks /\ m = toClient[c][1] /\ 1 \in DOMAIN toClient[c]
  BY ReceivedType, ClientBlockType DEF Answer
<1>2. plain \in Plains /\ plain \in {m.plain, Garbage}
  BY <1>1, DecryptedType
<1>3. CASE Valid(c, plain)
  <2>1. plain \in AccessRecords /\ plain.kind = "access"
    BY <1>2, <1>3 DEF Valid, Plains, Garbage
  <2>2. plain = m.plain
    BY <1>2, <2>1 DEF Garbage
  <2>3. [plain EXCEPT !.counter = @ + 1] \in Plains
    BY <2>1 DEF Plains, AccessRecords
  <2>4. After(aes[c], m) \in Contexts /\ fresh + 1 \in Int
    BY <1>1, AfterType DEF TypeOK
  <2>5. reply \in Blocks /\ reply.plain = [plain EXCEPT !.counter = @ + 1]
    BY <2>3, <2>4, BlockType
  <2>6. /\ SendBlock(c, reply)
        /\ aes' = [aes EXCEPT ![c] = After(@, reply)]
        /\ fresh' = fresh + 1
        /\ approvals' = approvals \cup
             {[access |-> plain, wanted |-> want[c]]}
    BY <1>3 DEF Answer
  <2> HIDE DEF reply, plain, m
  <2> QED
    BY <1>1, <2>1, <2>2, <2>5, <2>6 DEF m, plain
<1>4. CASE ~Valid(c, plain)
  BY <1>1, <1>4 DEF Answer
<1> QED
  BY <1>3, <1>4
-----------------------------------------------------------------------------
(* Every step keeps the types.                                             *)

LEMMA InitType == Init => TypeOK
<1> SUFFICES ASSUME Init PROVE TypeOK
  OBVIOUS
<1>1. want \in [Clients -> Wants]
  BY TrustIOAssumption DEF Init
<1>2. nsChallenge \in Blocks
  BY RawType DEF Init
<1>3. /\ aes \in [Clients -> Contexts] /\ ctx \in Contexts /\ key \in Int
      /\ challenge \in AccessRecords
  BY DEF Init, Contexts, FirstKey, NoKey, Vector, AccessRecords, Access, Values
<1>4. /\ toBoard \in [Clients -> Seq(BoardSegments)]
      /\ toClient \in [Clients -> Seq(ClientSegments)]
      /\ stack \in Seq(Frames) /\ accesses \in Seq(AccessRecords)
      /\ \A i \in 1 .. Len(stack) - 1 : stack[i].at = "wait"
  BY DEF Init
<1>5. /\ cpc \in [Clients -> {"idle", "challenge", "rekeyed", "result", "closed"}]
      /\ cmd \in [Clients -> Commands]
      /\ left \in [Clients -> 0 .. MaxCommands]
      /\ callback \in [Clients -> {"recv", "crypto", "none"}]
  BY TrustIOAssumption DEF Init, Commands
<1>6. /\ approvals = {} /\ tpcb = None /\ response = 0 /\ stack = <<>>
      /\ updating = 0 /\ counter = 0 /\ device = 0 /\ fresh = 0
  BY DEF Init
<1>7. ready \in BOOLEAN
  BY DEF Init
<1> QED
  BY <1>1, <1>2, <1>3, <1>4, <1>5, <1>6, <1>7 DEF TypeOK, Values

LEMMA ClientType ==
  ASSUME TypeOK, NEW c \in Clients,
         \/ \E k \in Commands, w \in Wants : SendCommand(c, k, w)
         \/ ClientStep(c)
         \/ Close(c)
  PROVE  TypeOK'
<1>1. CASE \E k \in Commands, w \in Wants : SendCommand(c, k, w)
  <2>1. PICK k \in Commands, w \in Wants : SendCommand(c, k, w)
    BY <1>1
  <2>2. [kind |-> "cmd", cmd |-> k] \in BoardSegments
    BY DEF BoardSegments
  <2>3. toBoard' \in [Clients -> Seq(BoardSegments)]
    BY <2>1, <2>2, AppendBoardType DEF SendCommand
  <2>4. left' \in [Clients -> 0 .. MaxCommands]
    BY <2>1, TrustIOAssumption DEF SendCommand, TypeOK
  <2> QED
    BY <2>1, <2>3, <2>4
    DEF SendCommand, TypeOK, normalVars, monitorVars
<1>2. CASE Rekey(c)
  <2> DEFINE plain == [kind |-> "key", key |-> fresh + 1]
  <2>1. plain \in Plains /\ aes[c] \in Contexts /\ fresh + 1 \in Nat
    BY DEF TypeOK, Plains
  <2>2. Block(aes[c], plain, fresh + 1) \in Blocks
    BY <2>1, BlockType
  <2>3. toBoard' \in [Clients -> Seq(BoardSegments)]
    BY <1>2, <2>2, SendBlockType DEF Rekey
  <2>4. toClient' \in [Clients -> Seq(ClientSegments)]
    BY <1>2, ReceivedType DEF Rekey
  <2>5. aes' \in [Clients -> Contexts] /\ fresh' \in Nat
    BY <1>2, <2>1 DEF Rekey, TypeOK, Contexts, Vector
  <2> QED
    BY <1>2, <2>3, <2>4, <2>5 DEF Rekey, TypeOK, normalVars, monitorVars
<1>3. CASE Answer(c)
  <2> DEFINE m == Head(toClient[c])
             plain == Decrypted(aes[c], m)
  <2>1. m \in Blocks
    BY <1>3, AnswerType
  <2>2. toClient' \in [Clients -> Seq(ClientSegments)]
    BY <1>3, ReceivedType DEF Answer
  <2>3. /\ toBoard' \in [Clients -> Seq(BoardSegments)]
        /\ aes' \in [Clients -> Contexts] /\ fresh' \in Nat
        /\ \A a \in approvals' : a \in [access : AccessRecords, wanted : Wants]
    <3>1. CASE /\ plain \in AccessRecords
               /\ fresh' = fresh + 1
               /\ approvals' = approvals \cup
                    {[access |-> plain, wanted |-> want[c]]}
               /\ \E reply \in Blocks :
                    /\ SendBlock(c, reply)
                    /\ aes' = [aes EXCEPT ![c] = After(@, reply)]
      <4>1. PICK reply \in Blocks :
              /\ SendBlock(c, reply)
              /\ aes' = [aes EXCEPT ![c] = After(@, reply)]
        BY <3>1
      <4> HIDE DEF plain
      <4>2. After(aes[c], reply) \in Contexts
        BY AfterType DEF TypeOK
      <4>3. toBoard' \in [Clients -> Seq(BoardSegments)]
        BY <4>1, SendBlockType
      <4>4. \A a \in approvals' : a \in [access : AccessRecords, wanted : Wants]
        BY <3>1 DEF TypeOK
      <4>5. aes' \in [Clients -> Contexts]
        BY <4>1, <4>2 DEF TypeOK
      <4>6. fresh' \in Nat
        BY <3>1 DEF TypeOK
      <4> QED
        BY <4>3, <4>4, <4>5, <4>6
    <3>2. CASE /\ SendBlock(c, m)
               /\ aes' = [aes EXCEPT ![c] = After(@, m)]
               /\ UNCHANGED <<fresh, approvals>>
      <4> HIDE DEF m
      <4>1. After(aes[c], m) \in Contexts
        BY <2>1, AfterType DEF TypeOK
      <4>2. toBoard' \in [Clients -> Seq(BoardSegments)]
        BY <2>1, <3>2, SendBlockType
      <4> QED
        BY <3>2, <4>1, <4>2 DEF TypeOK
    <3> QED
      BY <1>3, <3>1, <3>2, AnswerType
  <2>4. /\ cpc' = [cpc EXCEPT ![c] = "result"]
        /\ UNCHANGED <<cmd, want, left, normalVars, stack, monitorVars>>
    BY <1>3 DEF Answer
  <2> QED
    BY <2>2, <2>3, <2>4 DEF TypeOK, normalVars, monitorVars
<1>4. CASE GetResult(c)
  <2>1. toClient' \in [Clients -> Seq(ClientSegments)]
    BY <1>4, ReceivedType DEF GetResult
  <2> QED
    BY <1>4, <2>1 DEF GetResult, TypeOK, normalVars, monitorVars
<1>5. CASE Close(c)
  <2>1. toBoard' \in [Clients -> Seq(BoardSegments)]
    BY <1>5, SegmentTypes, AppendBoardType DEF Close
  <2>2. toClient' \in [Clients -> Seq(ClientSegments)]
    BY <1>5 DEF Close, TypeOK
  <2> QED
    BY <1>5, <2>1, <2>2 DEF Close, TypeOK, normalVars, monitorVars
<1> QED
  BY <1>1, <1>2, <1>3, <1>4, <1>5 DEF ClientStep

LEMMA FrameType ==
  ASSUME TypeOK, NEW c \in Clients, NEW k \in Commands
  PROVE  [conn |-> c, cmd |-> k, at |-> "trap", op |-> OpOf(k),
          value |-> IF k = "read" THEN device ELSE Written(k)] \in Frames
BY DEF TypeOK, Frames, OpOf, Written, Values

(* A command adds an access on top of those that wait.                     *)
LEMMA PushType ==
  ASSUME TypeOK, NEW f \in Frames, Polling, stack' = Append(stack, f)
  PROVE  /\ stack' \in Seq(Frames)
         /\ stack' # <<>>
         /\ Top' = f
         /\ \A i \in 1 .. Len(stack') - 1 : stack'[i].at = "wait"
<1>1. stack \in Seq(Frames) /\ Len(stack) \in Nat
  BY DEF TypeOK
<1>2. Len(stack') = Len(stack) + 1
  BY <1>1
<1>3. \A i \in 1 .. Len(stack) : stack'[i] = stack[i]
  BY <1>1
<1>4. \A i \in 1 .. Len(stack) : stack[i].at = "wait"
  <2>1. CASE stack = <<>>
    BY <2>1
  <2>2. CASE stack # <<>>
    BY <1>1, <2>2 DEF Polling, TypeOK, Top
  <2> QED
    BY <2>1, <2>2
<1>5. Top' = f /\ stack' \in Seq(Frames) /\ stack' # <<>>
  BY <1>1, <1>2 DEF Top
<1> QED
  BY <1>1, <1>2, <1>3, <1>4, <1>5

LEMMA PopType ==
  ASSUME TypeOK, stack # <<>>, stack' = SubSeq(stack, 1, Len(stack) - 1)
  PROVE  /\ stack' \in Seq(Frames)
         /\ \A i \in 1 .. Len(stack') - 1 : stack'[i].at = "wait"
         /\ stack' # <<>> => Top'.at = "wait"
<1>1. stack \in Seq(Frames) /\ Len(stack) \in Nat \ {0}
  BY DEF TypeOK
<1>2. /\ stack' \in Seq(Frames)
      /\ Len(stack') = Len(stack) - 1
      /\ \A i \in 1 .. Len(stack) - 1 : stack'[i] = stack[i]
  <2> DEFINE n == Len(stack)
             rest == SubSeq(stack, 1, n - 1)
  <2>1. n \in 1 .. Len(stack) /\ n \in Nat
    BY <1>1
  <2> HIDE DEF n
  <2>2. /\ rest \in Seq(Frames) /\ Len(rest) = n - 1
        /\ \A i \in 1 .. n - 1 : rest[i] = stack[i]
    BY <1>1, <2>1, SubSeqProperties
  <2> QED
    BY <2>2 DEF n
<1>3. \A i \in 1 .. Len(stack) - 1 : stack[i].at = "wait"
  BY DEF TypeOK
<1>4. stack' # <<>> => Len(stack') \in 1 .. Len(stack) - 1
  BY <1>1, <1>2
<1> QED
  BY <1>1, <1>2, <1>3, <1>4 DEF Top

LEMMA ReceiveType ==
  ASSUME TypeOK, NEW c \in Clients, Receive(c)
  PROVE  TypeOK'
<1>1. CASE RecvCommand(c)
  <2>1. PICK m \in Incoming(c) :
          /\ Taken(c) /\ m.kind = "cmd"
          /\ tpcb' = c
          /\ stack' = Append(stack,
               [conn |-> c, cmd |-> m.cmd, at |-> "trap", op |-> OpOf(m.cmd),
                value |-> IF m.cmd = "read" THEN device ELSE Written(m.cmd)])
          /\ UNCHANGED <<clientVars, toClient, callback, response, nsChallenge,
                         monitorVars, fresh>>
    BY <1>1 DEF RecvCommand, Trapped
  <2>2. m \in BoardSegments /\ toBoard[c] # <<>> /\ Polling
    BY IncomingType
  <2>3. m.cmd \in Commands
    BY <2>1, <2>2 DEF BoardSegments, Blocks, Segment
  <2>4. toBoard' \in [Clients -> Seq(BoardSegments)]
    BY <2>1, <2>2, TakenType
  <2>5. /\ stack' \in Seq(Frames)
        /\ \A i \in 1 .. Len(stack') - 1 : stack'[i].at = "wait"
    BY <2>1, <2>2, <2>3, FrameType, PushType
  <2> QED
    BY <2>1, <2>4, <2>5 DEF TypeOK, clientVars, monitorVars
<1>2. CASE RecvOther(c)
  <2>1. PICK m \in Incoming(c) :
          /\ Taken(c) /\ tpcb' = c
          /\ Write(c, Segment("echo")) \/ UNCHANGED toClient
          /\ UNCHANGED <<clientVars, callback, response, nsChallenge, stack,
                         monitorVars, fresh>>
    BY <1>2 DEF RecvOther
  <2>2. toBoard' \in [Clients -> Seq(BoardSegments)]
    BY <2>1, IncomingType, TakenType
  <2>3. toClient' \in [Clients -> Seq(ClientSegments)]
    BY <2>1, SegmentTypes, WriteType DEF TypeOK
  <2> QED
    BY <2>1, <2>2, <2>3 DEF TypeOK, clientVars, monitorVars
<1>3. CASE RecvAnswer(c)
  <2>1. PICK m \in Incoming(c) :
          /\ Taken(c)
          /\ IF m.kind = "block"
             THEN nsChallenge' = m /\ response' = 1
             ELSE response' = -1 /\ UNCHANGED nsChallenge
          /\ UNCHANGED <<clientVars, toClient, tpcb, callback, stack,
                         monitorVars, fresh>>
    BY <1>3 DEF RecvAnswer
  <2>2. toBoard' \in [Clients -> Seq(BoardSegments)]
    BY <2>1, IncomingType, TakenType
  <2>3. nsChallenge' \in Blocks /\ response' \in {-1, 0, 1}
    BY <2>1, IncomingType, BoardBlockType DEF TypeOK
  <2> QED
    BY <2>1, <2>2, <2>3 DEF TypeOK, clientVars, monitorVars
<1>4. CASE RecvClose(c)
  <2>1. toBoard' \in [Clients -> Seq(BoardSegments)]
    BY <1>4, IncomingType, TakenType DEF RecvClose
  <2>2. /\ callback' \in [Clients -> {"recv", "crypto", "none"}]
        /\ tpcb' \in {c, tpcb}
        /\ UNCHANGED <<clientVars, toClient, response, nsChallenge, stack,
                       monitorVars, fresh>>
    BY <1>4 DEF RecvClose, TypeOK
  <2> QED
    BY <2>1, <2>2 DEF TypeOK, clientVars, monitorVars
<1> QED
  BY <1>1, <1>2, <1>3, <1>4 DEF Receive

LEMMA SetCallbackType ==
  ASSUME TypeOK, NEW c \in Clients, NEW f \in {"recv", "crypto"},
         SetCallback(c, f)
  PROVE  callback' \in [Clients -> {"recv", "crypto", "none"}]
BY DEF TypeOK, SetCallback

LEMMA ChallengeType ==
  ASSUME TypeOK, stack # <<>>, Challenge
  PROVE  /\ nsChallenge' \in Blocks
         /\ nsChallenge'.plain = challenge'
         /\ challenge' = Access(Top.op, Top.value, counter)
         /\ challenge' \in AccessRecords
         /\ ctx' \in Contexts /\ ready' \in BOOLEAN
         /\ counter' = counter + 2 /\ fresh' = fresh + 1
<1> DEFINE a == IF ready THEN ctx ELSE [key |-> key, last |-> Vector]
           plain == Access(Top.op, Top.value, counter)
           m == Block(a, plain, fresh + 1)
<1>1. a \in Contexts
  BY DEF TypeOK, Contexts, Vector
<1>2. plain \in AccessRecords
  BY TopType DEF TypeOK, Access, AccessRecords, Frames
<1>3. plain \in Plains /\ fresh + 1 \in Int
  BY <1>2 DEF Plains, TypeOK
<1>4. /\ challenge' = plain /\ nsChallenge' = m /\ ctx' = After(a, m)
      /\ ready' = TRUE /\ counter' = counter + 2 /\ fresh' = fresh + 1
  BY DEF Challenge
<1> HIDE DEF a, plain
<1>5. m \in Blocks /\ m.plain = plain
  BY <1>1, <1>3, BlockType
<1> HIDE DEF m
<1>6. After(a, m) \in Contexts
  BY <1>1, <1>5, AfterType
<1>7. ready' \in BOOLEAN
  BY <1>4
<1> QED
  BY <1>2, <1>4, <1>5, <1>6, <1>7 DEF plain

LEMMA BoardType ==
  ASSUME TypeOK, BoardStep
  PROVE  TypeOK'
<1>1. CASE CryptoRequest
  <2>1. stack # <<>> /\ tpcb \in Clients
    BY <1>1, TopType DEF CryptoRequest
  <2>2. toClient' \in [Clients -> Seq(ClientSegments)] /\ response' \in {-1, 0, 1}
    <3>1. nsChallenge \in ClientSegments
      BY SegmentTypes DEF TypeOK
    <3> QED
      BY <1>1, <2>1, <3>1, WriteType DEF CryptoRequest, TypeOK
  <2>3. callback' \in [Clients -> {"recv", "crypto", "none"}]
    BY <1>1, <2>1, SetCallbackType DEF CryptoRequest
  <2>4. /\ stack' \in Seq(Frames)
        /\ \A i \in 1 .. Len(stack') - 1 : stack'[i].at = "wait"
    BY <1>1, <2>1, GotoType DEF CryptoRequest
  <2>5. UNCHANGED <<clientVars, toBoard, tpcb, nsChallenge, monitorVars, fresh>>
    BY <1>1 DEF CryptoRequest
  <2> QED
    BY <2>1, <2>2, <2>3, <2>4, <2>5 DEF TypeOK, clientVars, monitorVars
<1>2. CASE CryptoResponse
  <2>1. stack # <<>> /\ tpcb \in Clients
    BY <1>2, TopType DEF CryptoResponse
  <2>2. callback' \in [Clients -> {"recv", "crypto", "none"}]
    BY <1>2, <2>1, SetCallbackType DEF CryptoResponse, CallbackBack
  <2>3. /\ stack' \in Seq(Frames)
        /\ \A i \in 1 .. Len(stack') - 1 : stack'[i].at = "wait"
    BY <1>2, <2>1, GotoType DEF CryptoResponse
  <2>4. UNCHANGED <<clientVars, netVars, tpcb, response, nsChallenge,
                    monitorVars, fresh>>
    BY <1>2 DEF CryptoResponse
  <2> QED
    BY <2>1, <2>2, <2>3, <2>4 DEF TypeOK, clientVars, netVars, monitorVars
<1>3. CASE Reply
  <2>1. Top \in Frames /\ stack # <<>> /\ tpcb \in Clients
    BY <1>3, TopType DEF Reply
  <2>2. toClient' \in [Clients -> Seq(ClientSegments)]
    BY <1>3, <2>1, SegmentTypes, WriteType DEF Reply, Frames, TypeOK
  <2>3. /\ stack' \in Seq(Frames)
        /\ \A i \in 1 .. Len(stack') - 1 : stack'[i].at = "wait"
    BY <1>3, <2>1, PopType DEF Reply
  <2>4. UNCHANGED <<clientVars, toBoard, normalVars, monitorVars, fresh>>
    BY <1>3 DEF Reply
  <2> QED
    BY <2>1, <2>2, <2>3, <2>4 DEF TypeOK, clientVars, normalVars, monitorVars
<1>4. CASE GetCryptoChallenge
  <2>1. stack # <<>> /\ tpcb \in Clients
    BY <1>4, TopType DEF GetCryptoChallenge
  <2>2. /\ nsChallenge' \in Blocks /\ challenge' \in AccessRecords
        /\ ctx' \in Contexts /\ ready' \in BOOLEAN
        /\ counter' \in Nat /\ fresh' \in Nat /\ updating' \in 0 .. 2
    <3>1. CASE Challenge /\ updating' \in {0, updating}
      BY <2>1, <3>1, ChallengeType DEF TypeOK
    <3>2. CASE /\ updating' = 1 /\ nsChallenge' = Ones
               /\ UNCHANGED <<ctx, ready, challenge, counter, fresh>>
      <4>1. ready' \in BOOLEAN
        BY <3>2 DEF TypeOK
      <4> QED
        BY <3>2, <4>1, RawType DEF TypeOK
    <3> QED
      BY <1>4, <3>1, <3>2 DEF GetCryptoChallenge
  <2>3. /\ stack' \in Seq(Frames)
        /\ \A i \in 1 .. Len(stack') - 1 : stack'[i].at = "wait"
    BY <1>4, <2>1, GotoType DEF GetCryptoChallenge
  <2>4. UNCHANGED <<clientVars, netVars, tpcb, callback, response, key, device,
                    accesses>>
    BY <1>4 DEF GetCryptoChallenge
  <2> QED
    BY <2>1, <2>2, <2>3, <2>4 DEF TypeOK, clientVars, netVars
<1>5. CASE UpdateKey
  <2>1. stack # <<>> /\ tpcb \in Clients
    BY <1>5, TopType DEF UpdateKey
  <2>2. /\ key' \in Int /\ ctx' \in Contexts /\ nsChallenge' \in Blocks
        /\ updating' \in 0 .. 2
    BY <1>5, DecryptedType, KeyInType, AfterType, RawType DEF UpdateKey, TypeOK
  <2>3. ready' \in BOOLEAN
    BY <1>5 DEF UpdateKey, DropContext
  <2>4. /\ stack' \in Seq(Frames)
        /\ \A i \in 1 .. Len(stack') - 1 : stack'[i].at = "wait"
    BY <1>5, <2>1, GotoType DEF UpdateKey
  <2>5. UNCHANGED <<clientVars, netVars, tpcb, callback, response, challenge,
                    counter, device, accesses, fresh>>
    BY <1>5 DEF UpdateKey
  <2> QED
    BY <2>1, <2>2, <2>3, <2>4, <2>5 DEF TypeOK, clientVars, netVars
<1>6. CASE CheckResponse
  <2>1. Top \in Frames /\ stack # <<>> /\ tpcb \in Clients
    BY <1>6, TopType DEF CheckResponse
  <2>2. ctx' \in Contexts /\ nsChallenge' \in Blocks
    BY <1>6, AfterType, RawType DEF CheckResponse, TypeOK
  <2>3. Access(Top.op, Top.value, challenge.counter) \in AccessRecords
    BY <2>1 DEF Access, AccessRecords, Frames, TypeOK
  <2>4. device' \in Values /\ accesses' \in Seq(AccessRecords)
    <3>1. Append(accesses, Access(Top.op, Top.value, challenge.counter))
            \in Seq(AccessRecords)
      BY <2>3 DEF TypeOK
    <3>2. Top.value \in Values
      BY <2>1 DEF Frames
    <3> QED
      BY <1>6, <3>1, <3>2 DEF CheckResponse, TypeOK
  <2>5. /\ stack' \in Seq(Frames)
        /\ \A i \in 1 .. Len(stack') - 1 : stack'[i].at = "wait"
    BY <1>6, <2>1, GotoType DEF CheckResponse
  <2>6. UNCHANGED <<clientVars, netVars, tpcb, callback, response, key, ready,
                    updating, challenge, counter, fresh>>
    BY <1>6 DEF CheckResponse
  <2> QED
    BY <2>1, <2>2, <2>4, <2>5, <2>6 DEF TypeOK, clientVars, netVars
<1> QED
  BY <1>1, <1>2, <1>3, <1>4, <1>5, <1>6 DEF BoardStep

LEMMA TypeStep == TypeOK /\ [Next]_vars => TypeOK'
<1> SUFFICES ASSUME TypeOK, [Next]_vars PROVE TypeOK'
  OBVIOUS
<1>1. CASE \E c \in Clients :
             \/ \E k \in Commands, w \in Wants : SendCommand(c, k, w)
             \/ ClientStep(c)
             \/ Close(c)
  BY <1>1, ClientType
<1>2. CASE \E c \in Clients : Receive(c)
  BY <1>2, ReceiveType
<1>3. CASE BoardStep
  BY <1>3, BoardType
<1>4. CASE UNCHANGED vars
  BY <1>4 DEF vars, clientVars, netVars, normalVars, monitorVars, TypeOK
<1> QED
  BY <1>1, <1>2, <1>3, <1>4 DEF Next

(* Every variable keeps to its range, and only the access on top of the    *)
(* stack is anywhere but waiting for an answer.                            *)
THEOREM Typing == Spec => []TypeOK
BY InitType, TypeStep, PTL DEF Spec
-----------------------------------------------------------------------------
(* Every step keeps the invariant that the accesses rest on.               *)

LEMMA EvenSteps ==
  ASSUME NEW n \in Int, Even(n)
  PROVE  Even(n + 2) /\ ~Even(n + 1)
BY DEF Even

LEMMA IncrementOnce ==
  ASSUME NEW x \in AccessRecords, NEW y \in AccessRecords,
         [x EXCEPT !.counter = @ + 1] = [y EXCEPT !.counter = @ + 1]
  PROVE  x = y
<1>1. x.counter + 1 = y.counter + 1 /\ x.op = y.op /\ x.value = y.value
  BY DEF AccessRecords
<1>2. x.kind = "access" /\ y.kind = "access"
  BY DEF AccessRecords
<1>3. x.counter = y.counter
  BY <1>1 DEF AccessRecords
<1> QED
  BY <1>1, <1>2, <1>3 DEF AccessRecords

LEMMA NotGarbage ==
  ASSUME NEW x \in AccessRecords
  PROVE  Garbage # [x EXCEPT !.counter = @ + 1]
<1>1. [x EXCEPT !.counter = @ + 1].kind = "access"
  BY DEF AccessRecords
<1> QED
  BY <1>1 DEF Garbage

LEMMA PlainSegments ==
  /\ \A k : k # "block" => Asked(Segment(k))
  /\ Asked(Ones) /\ Asked(Noise)
BY RawType DEF Segment, Asked, Garbage

LEMMA AskedVouched ==
  ASSUME NEW m, NEW given, Asked(m)
  PROVE  Vouched(m, given)
BY DEF Asked, Vouched

LEMMA VouchedKept ==
  ASSUME NEW given, NEW more, given \subseteq more, NEW m, Vouched(m, given)
  PROVE  Vouched(m, more)
BY DEF Vouched

LEMMA InitApproval == Init => ApprovalInv
<1> SUFFICES ASSUME Init PROVE ApprovalInv
  OBVIOUS
<1>1. TypeOK
  BY InitType
<1>2. BlocksVouched
  BY PlainSegments, AskedVouched DEF Init, BlocksVouched
<1>3. CountersOrdered
  BY DEF Init, CountersOrdered, Even, Access
<1>4. AnswerFits /\ AccessesApproved
  BY DEF Init, AnswerFits, AccessesApproved
<1> QED
  BY <1>1, <1>2, <1>3, <1>4 DEF ApprovalInv

(* A client leaves the board alone, and vouches for what it sends.         *)
LEMMA ClientKeeps ==
  ASSUME ApprovalInv,
         UNCHANGED <<normalVars, stack, monitorVars>>,
         approvals \subseteq approvals',
         \A d \in Clients : \A i \in DOMAIN toBoard'[d] :
           \/ \E j \in DOMAIN toBoard[d] : toBoard'[d][i] = toBoard[d][j]
           \/ Vouched(toBoard'[d][i], approvals'),
         \A d \in Clients : \A i \in DOMAIN toClient'[d] :
           \E j \in DOMAIN toClient[d] : toClient'[d][i] = toClient[d][j]
  PROVE  BlocksVouched' /\ CountersOrdered' /\ AnswerFits' /\ AccessesApproved'
<1>1. CountersOrdered'
  BY DEF ApprovalInv, CountersOrdered, monitorVars
<1>2. AnswerFits'
  BY DEF ApprovalInv, AnswerFits, Pending, Void, Current, ChallengeFits, Top,
         normalVars, monitorVars
<1>3. AccessesApproved'
  BY DEF ApprovalInv, AccessesApproved, monitorVars
<1>4. \A d \in Clients : \A i \in DOMAIN toBoard'[d] : Vouched(toBoard'[d][i], approvals')
  <2> SUFFICES ASSUME NEW d \in Clients, NEW i \in DOMAIN toBoard'[d],
                      NEW j \in DOMAIN toBoard[d],
                      toBoard'[d][i] = toBoard[d][j]
               PROVE  Vouched(toBoard'[d][i], approvals')
    OBVIOUS
  <2>1. Vouched(toBoard[d][j], approvals)
    BY DEF ApprovalInv, BlocksVouched
  <2> QED
    BY <2>1, VouchedKept
<1>5. \A d \in Clients : \A i \in DOMAIN toClient'[d] : Asked(toClient'[d][i])
  BY DEF ApprovalInv, BlocksVouched, Asked
<1>6. Vouched(nsChallenge', approvals')
  BY DEF ApprovalInv, BlocksVouched, Vouched, normalVars
<1>7. (stack # <<>> /\ Top.at = "request" => Asked(nsChallenge))'
  BY DEF ApprovalInv, BlocksVouched, Asked, Top, normalVars
<1> QED
  BY <1>1, <1>2, <1>3, <1>4, <1>5, <1>6, <1>7 DEF BlocksVouched

LEMMA ClientApproval ==
  ASSUME ApprovalInv, NEW c \in Clients,
         \/ \E k \in Commands, w \in Wants : SendCommand(c, k, w)
         \/ ClientStep(c)
         \/ Close(c)
  PROVE  ApprovalInv'
<1> USE DEF ClientStep
<1>1. TypeOK /\ TypeOK'
  BY ClientType DEF ApprovalInv
<1>2. BlocksVouched' /\ CountersOrdered' /\ AnswerFits' /\ AccessesApproved'
  <2>1. CASE \E k \in Commands, w \in Wants : SendCommand(c, k, w)
    <3>1. PICK k \in Commands, w \in Wants : SendCommand(c, k, w)
      BY <2>1
    <3> DEFINE m == [kind |-> "cmd", cmd |-> k]
    <3>2. m \in BoardSegments /\ Vouched(m, approvals')
      BY DEF BoardSegments, Vouched
    <3>3. /\ toBoard' = [toBoard EXCEPT ![c] = Append(@, m)]
          /\ UNCHANGED <<approvals, toClient, normalVars, stack, monitorVars>>
      BY <3>1 DEF SendCommand
    <3> HIDE DEF m
    <3>4. \A d \in Clients : \A i \in DOMAIN toBoard'[d] :
            \/ \E j \in DOMAIN toBoard[d] : toBoard'[d][i] = toBoard[d][j]
            \/ Vouched(toBoard'[d][i], approvals')
      BY <1>1, <3>2, <3>3, AppendBoardType
    <3> QED
      BY <3>3, <3>4, ClientKeeps
  <2>2. CASE Rekey(c)
    <3> DEFINE m == Block(aes[c], [kind |-> "key", key |-> fresh + 1], fresh + 1)
    <3>1. [kind |-> "key", key |-> fresh + 1] \in Plains
      BY <1>1 DEF TypeOK, Plains
    <3> DEFINE n == fresh + 1
               a == aes[c]
    <3>2. n \in Int /\ a \in Contexts
      BY <1>1 DEF TypeOK
    <3> HIDE DEF n, a
    <3>3. m = Block(a, [kind |-> "key", key |-> n], n)
      BY DEF n, a
    <3>4. m \in Blocks /\ m.plain = [kind |-> "key", key |-> n]
      BY <3>1, <3>2, <3>3, BlockType DEF n
    <3>5. Asked(m)
      BY <3>4 DEF Asked
    <3>6. /\ SendBlock(c, m) /\ toClient[c] # <<>> /\ Received(c)
          /\ UNCHANGED <<approvals, normalVars, stack, monitorVars>>
      BY <2>2 DEF Rekey
    <3> HIDE DEF m
    <3>7. \A d \in Clients : \A i \in DOMAIN toBoard'[d] :
            \/ \E j \in DOMAIN toBoard[d] : toBoard'[d][i] = toBoard[d][j]
            \/ Vouched(toBoard'[d][i], approvals')
      BY <1>1, <3>4, <3>5, <3>6, SendBlockType, PlainSegments, AskedVouched
    <3>8. \A d \in Clients : \A i \in DOMAIN toClient'[d] :
            \E j \in DOMAIN toClient[d] : toClient'[d][i] = toClient[d][j]
      BY <1>1, <3>6, ReceivedType
    <3> QED
      BY <3>6, <3>7, <3>8, ClientKeeps
  <2>3. CASE Answer(c)
    <3> DEFINE m == Head(toClient[c])
               plain == Decrypted(aes[c], m)
    <3>1. /\ toClient[c] # <<>> /\ Received(c)
          /\ UNCHANGED <<normalVars, stack, monitorVars>>
      BY <2>3 DEF Answer
    <3>2. Asked(m) /\ m \in Blocks
      BY <1>1, <2>3, AnswerType DEF ApprovalInv, BlocksVouched
    <3>3. \A d \in Clients : \A i \in DOMAIN toClient'[d] :
            \E j \in DOMAIN toClient[d] : toClient'[d][i] = toClient[d][j]
      BY <1>1, <3>1, ReceivedType
    <3>4. \E b \in Blocks :
            /\ SendBlock(c, b) /\ Vouched(b, approvals')
            /\ approvals \subseteq approvals'
      <4>1. CASE /\ plain \in AccessRecords /\ plain = m.plain
                 /\ \E reply \in Blocks :
                      /\ reply.plain = [plain EXCEPT !.counter = @ + 1]
                      /\ SendBlock(c, reply)
                 /\ approvals' = approvals \cup
                      {[access |-> plain, wanted |-> want[c]]}
        <5> HIDE DEF plain, m
        <5>1. PICK reply \in Blocks :
                /\ reply.plain = [plain EXCEPT !.counter = @ + 1]
                /\ SendBlock(c, reply)
          BY <4>1
        <5> DEFINE a == [access |-> plain, wanted |-> want[c]]
        <5>2. a \in approvals' /\ a.access = plain
          BY <4>1
        <5> HIDE DEF a
        <5>3. reply.plain = [a.access EXCEPT !.counter = @ + 1]
          BY <5>1, <5>2
        <5>4. Vouched(reply, approvals')
          BY <5>2, <5>3 DEF Vouched
        <5> QED
          BY <4>1, <5>1, <5>4
      <4>2. CASE SendBlock(c, m) /\ UNCHANGED approvals
        <5> HIDE DEF m
        <5> QED
          BY <3>2, <4>2, AskedVouched
      <4> QED
        BY <1>1, <2>3, <4>1, <4>2, AnswerType
    <3>5. PICK b \in Blocks :
            /\ SendBlock(c, b) /\ Vouched(b, approvals')
            /\ approvals \subseteq approvals'
      BY <3>4
    <3>6. \A d \in Clients : \A i \in DOMAIN toBoard'[d] :
            \/ \E j \in DOMAIN toBoard[d] : toBoard'[d][i] = toBoard[d][j]
            \/ Vouched(toBoard'[d][i], approvals')
      <4>1. Vouched(Segment("part"), approvals')
        BY PlainSegments, AskedVouched
      <4>2. \A d \in Clients : \A i \in DOMAIN toBoard'[d] :
              \/ \E j \in DOMAIN toBoard[d] : toBoard'[d][i] = toBoard[d][j]
              \/ toBoard'[d][i] \in {b, Segment("part")}
        BY <1>1, <3>5, SendBlockType
      <4> QED
        BY <3>5, <4>1, <4>2
    <3> QED
      BY <3>1, <3>3, <3>5, <3>6, ClientKeeps
  <2>4. CASE GetResult(c)
    <3>1. /\ toClient[c] # <<>> /\ Received(c)
          /\ UNCHANGED <<approvals, toBoard, normalVars, stack, monitorVars>>
      BY <2>4 DEF GetResult
    <3>2. \A d \in Clients : \A i \in DOMAIN toClient'[d] :
            \E j \in DOMAIN toClient[d] : toClient'[d][i] = toClient[d][j]
      BY <1>1, <3>1, ReceivedType
    <3> QED
      BY <3>1, <3>2, ClientKeeps
  <2>5. CASE Close(c)
    <3>1. /\ toBoard' = [toBoard EXCEPT ![c] = Append(@, Segment("fin"))]
          /\ toClient' = [toClient EXCEPT ![c] = <<>>]
          /\ UNCHANGED <<approvals, normalVars, stack, monitorVars>>
      BY <2>5 DEF Close
    <3>2. \A d \in Clients : \A i \in DOMAIN toBoard'[d] :
            \/ \E j \in DOMAIN toBoard[d] : toBoard'[d][i] = toBoard[d][j]
            \/ Vouched(toBoard'[d][i], approvals')
      BY <1>1, <3>1, AppendBoardType, SegmentTypes, PlainSegments, AskedVouched
    <3>3. \A d \in Clients : \A i \in DOMAIN toClient'[d] :
            \E j \in DOMAIN toClient[d] : toClient'[d][i] = toClient[d][j]
      BY <1>1, <3>1 DEF TypeOK
    <3> QED
      BY <3>1, <3>2, <3>3, ClientKeeps
  <2> QED
    BY <2>1, <2>2, <2>3, <2>4, <2>5
<1> QED
  BY <1>1, <1>2 DEF ApprovalInv

(* A step of the board that performs no access takes segments from the     *)
(* network and adds to it what is no block, or what it may ask.            *)
LEMMA NetworkKeeps ==
  ASSUME ApprovalInv, UNCHANGED approvals,
         \A d \in Clients : \A i \in DOMAIN toBoard'[d] :
           \E j \in DOMAIN toBoard[d] : toBoard'[d][i] = toBoard[d][j],
         \A d \in Clients : \A i \in DOMAIN toClient'[d] :
           \/ \E j \in DOMAIN toClient[d] : toClient'[d][i] = toClient[d][j]
           \/ Asked(toClient'[d][i])
  PROVE  /\ \A d \in Clients : \A i \in DOMAIN toBoard'[d] :
              Vouched(toBoard'[d][i], approvals')
         /\ \A d \in Clients : \A i \in DOMAIN toClient'[d] :
              Asked(toClient'[d][i])
<1>1. /\ \A d \in Clients : \A j \in DOMAIN toBoard[d] :
           Vouched(toBoard[d][j], approvals')
      /\ \A d \in Clients : \A j \in DOMAIN toClient[d] : Asked(toClient[d][j])
  BY DEF ApprovalInv, BlocksVouched
<1> QED
  BY <1>1

LEMMA ReceiveApproval ==
  ASSUME ApprovalInv, NEW c \in Clients, Receive(c)
  PROVE  ApprovalInv'
<1>1. TypeOK /\ TypeOK'
  BY ReceiveType DEF ApprovalInv
<1>2. PICK m \in Incoming(c) :
        /\ Taken(c)
        /\ UNCHANGED <<clientVars, monitorVars, fresh>>
        /\ \/ /\ m.kind = "cmd"
              /\ stack' = Append(stack,
                   [conn |-> c, cmd |-> m.cmd, at |-> "trap", op |-> OpOf(m.cmd),
                    value |-> IF m.cmd = "read" THEN device ELSE Written(m.cmd)])
              /\ UNCHANGED <<toClient, response, nsChallenge>>
           \/ /\ Write(c, Segment("echo"))
              /\ UNCHANGED <<stack, response, nsChallenge>>
           \/ /\ IF m.kind = "block" THEN nsChallenge' = m /\ response' = 1
                 ELSE response' = -1 /\ UNCHANGED nsChallenge
              /\ UNCHANGED <<stack, toClient>>
           \/ UNCHANGED <<stack, toClient, response, nsChallenge>>
  BY DEF Receive, RecvCommand, Trapped, RecvOther, RecvAnswer, RecvClose
<1>3. m \in BoardSegments /\ toBoard[c] # <<>> /\ m = toBoard[c][1] /\ Polling
  BY <1>1, IncomingType
<1>4. Vouched(m, approvals)
  BY <1>1, <1>3 DEF ApprovalInv, BlocksVouched, TypeOK
<1>5. CountersOrdered' /\ AccessesApproved'
  BY <1>2 DEF ApprovalInv, CountersOrdered, AccessesApproved, monitorVars,
              clientVars
<1>6. /\ \A d \in Clients : \A i \in DOMAIN toBoard'[d] :
           Vouched(toBoard'[d][i], approvals')
      /\ \A d \in Clients : \A i \in DOMAIN toClient'[d] : Asked(toClient'[d][i])
  <2>1. \A d \in Clients : \A i \in DOMAIN toBoard'[d] :
          \E j \in DOMAIN toBoard[d] : toBoard'[d][i] = toBoard[d][j]
    BY <1>1, <1>2, <1>3, TakenType
  <2>2. \A d \in Clients : \A i \in DOMAIN toClient'[d] :
          \/ \E j \in DOMAIN toClient[d] : toClient'[d][i] = toClient[d][j]
          \/ Asked(toClient'[d][i])
    <3>1. CASE UNCHANGED toClient
      BY <3>1
    <3>2. CASE Write(c, Segment("echo"))
      <4>1. Asked(Segment("echo"))
        BY PlainSegments
      <4> QED
        BY <1>1, <3>2, <4>1, SegmentTypes, WriteType
    <3> QED
      BY <1>2, <3>1, <3>2
  <2>3. UNCHANGED approvals
    BY <1>2 DEF clientVars
  <2> QED
    BY <2>1, <2>2, <2>3, NetworkKeeps
<1>7. Vouched(nsChallenge', approvals')
  BY <1>2, <1>4 DEF ApprovalInv, BlocksVouched, clientVars
<1>8. /\ (stack # <<>> /\ Top.at = "request" => Asked(nsChallenge))'
      /\ AnswerFits'
  <2>1. CASE /\ m.kind = "cmd"
             /\ stack' = Append(stack,
                  [conn |-> c, cmd |-> m.cmd, at |-> "trap", op |-> OpOf(m.cmd),
                   value |-> IF m.cmd = "read" THEN device
                             ELSE Written(m.cmd)])
    <3> DEFINE f == [conn |-> c, cmd |-> m.cmd, at |-> "trap",
                     op |-> OpOf(m.cmd),
                     value |-> IF m.cmd = "read" THEN device
                               ELSE Written(m.cmd)]
    <3>1. m.cmd \in Commands
      BY <1>3, <2>1 DEF BoardSegments, Blocks, Segment
    <3>2. f \in Frames
      BY <1>1, <3>1, FrameType
    <3>3. f.at = "trap" /\ (f.op = "read" => f.value = device)
      BY DEF OpOf
    <3> HIDE DEF f
    <3>4. Top' = f
      BY <1>1, <1>3, <2>1, <3>2, PushType DEF f
    <3> QED
      BY <1>2, <3>3, <3>4 DEF AnswerFits, Current, monitorVars
  <2>2. CASE UNCHANGED <<stack, response, nsChallenge>>
    BY <1>2, <2>2 DEF ApprovalInv, BlocksVouched, AnswerFits, Pending, Void,
                      Current, ChallengeFits, Top, monitorVars
  <2>3. CASE UNCHANGED stack /\ response' # 0
    <3>1. stack # <<>> => Top.at = "wait" /\ response = 0
      BY <1>3 DEF Polling
    <3>2. stack # <<>> => Pending
      BY <3>1 DEF ApprovalInv, AnswerFits, Void
    <3>3. stack' # <<>> => Pending' /\ Top'.at = "wait"
      BY <1>2, <2>3, <3>1, <3>2
         DEF Pending, Current, ChallengeFits, Top, monitorVars
    <3> QED
      BY <3>3 DEF AnswerFits
  <2> QED
    BY <1>2, <2>1, <2>2, <2>3
<1> QED
  BY <1>1, <1>5, <1>6, <1>7, <1>8 DEF ApprovalInv, BlocksVouched

LEMMA RequestApproval ==
  ASSUME ApprovalInv, CryptoRequest
  PROVE  ApprovalInv'
<1>1. TypeOK /\ TypeOK'
  BY BoardType DEF ApprovalInv, BoardStep
<1>2. /\ stack # <<>> /\ Top.at = "request"
      /\ Top \in Frames /\ tpcb \in Clients
      /\ Goto("wait")
      /\ UNCHANGED <<clientVars, toBoard, tpcb, nsChallenge, monitorVars, fresh>>
  BY <1>1, TopType DEF CryptoRequest
<1>3. Asked(nsChallenge) /\ Pending
  BY <1>2 DEF ApprovalInv, BlocksVouched, AnswerFits
<1>4. stack' # <<>> /\ Top' = [Top EXCEPT !.at = "wait"] /\ Top'.at = "wait"
  BY <1>1, <1>2, GotoType
<1>5. Top'.op = Top.op /\ Top'.value = Top.value
  BY <1>2, <1>4 DEF Frames
<1>6. AnswerFits'
  BY <1>2, <1>3, <1>4, <1>5
     DEF AnswerFits, Pending, Current, ChallengeFits, monitorVars
<1>7. CountersOrdered' /\ AccessesApproved'
  BY <1>2 DEF ApprovalInv, CountersOrdered, AccessesApproved, monitorVars,
              clientVars
<1>8. /\ \A d \in Clients : \A i \in DOMAIN toBoard'[d] :
           Vouched(toBoard'[d][i], approvals')
      /\ \A d \in Clients : \A i \in DOMAIN toClient'[d] : Asked(toClient'[d][i])
  <2>1. \A d \in Clients : \A i \in DOMAIN toClient'[d] :
          \/ \E j \in DOMAIN toClient[d] : toClient'[d][i] = toClient[d][j]
          \/ Asked(toClient'[d][i])
    <3>1. CASE UNCHANGED toClient
      BY <3>1
    <3>2. CASE Write(tpcb, nsChallenge)
      <4>1. nsChallenge \in ClientSegments
        BY <1>1, SegmentTypes DEF TypeOK
      <4> QED
        BY <1>1, <1>2, <1>3, <3>2, <4>1, WriteType
    <3> QED
      BY <3>1, <3>2 DEF CryptoRequest
  <2> QED
    BY <1>2, <2>1, NetworkKeeps DEF clientVars
<1>9. Vouched(nsChallenge', approvals')
  BY <1>2 DEF ApprovalInv, BlocksVouched, clientVars
<1> QED
  BY <1>1, <1>4, <1>6, <1>7, <1>8, <1>9 DEF ApprovalInv, BlocksVouched

LEMMA ResponseApproval ==
  ASSUME ApprovalInv, CryptoResponse
  PROVE  ApprovalInv'
<1>1. TypeOK /\ TypeOK'
  BY BoardType DEF ApprovalInv, BoardStep
<1>2. /\ stack # <<>> /\ Top.at = "wait" /\ response # 0 /\ Top \in Frames
      /\ Goto("answered")
      /\ UNCHANGED <<clientVars, netVars, response, nsChallenge, monitorVars>>
  BY <1>1, TopType DEF CryptoResponse
<1>3. Pending \/ Void
  BY <1>2 DEF ApprovalInv, AnswerFits
<1>4. /\ stack' # <<>> /\ Top' = [Top EXCEPT !.at = "answered"]
      /\ Top'.at = "answered"
  BY <1>1, <1>2, GotoType
<1>5. Top'.op = Top.op /\ Top'.value = Top.value
  BY <1>2, <1>4 DEF Frames
<1>6. AnswerFits'
  BY <1>2, <1>3, <1>4, <1>5
     DEF AnswerFits, Pending, Void, Current, ChallengeFits, monitorVars
<1>7. CountersOrdered' /\ AccessesApproved'
  BY <1>2 DEF ApprovalInv, CountersOrdered, AccessesApproved, monitorVars,
              clientVars
<1>8. BlocksVouched'
  BY <1>2, <1>4 DEF ApprovalInv, BlocksVouched, Asked, clientVars, netVars
<1> QED
  BY <1>1, <1>6, <1>7, <1>8 DEF ApprovalInv

(* The access below one that is done finds its own answer void.            *)
LEMMA ReplyApproval ==
  ASSUME ApprovalInv, Reply
  PROVE  ApprovalInv'
<1>1. TypeOK /\ TypeOK'
  BY BoardType DEF ApprovalInv, BoardStep
<1>2. /\ stack # <<>> /\ Top.at = "done" /\ Top \in Frames
      /\ stack' = SubSeq(stack, 1, Len(stack) - 1)
      /\ UNCHANGED <<clientVars, toBoard, normalVars, monitorVars>>
  BY <1>1, TopType DEF Reply
<1>3. Void
  BY <1>2 DEF ApprovalInv, AnswerFits
<1>4. stack' # <<>> => Top'.at = "wait"
  BY <1>1, <1>2, PopType
<1>5. Void'
  BY <1>2, <1>3 DEF Void, normalVars, monitorVars
<1>6. AnswerFits'
  BY <1>4, <1>5 DEF AnswerFits
<1>7. CountersOrdered' /\ AccessesApproved'
  BY <1>2 DEF ApprovalInv, CountersOrdered, AccessesApproved, monitorVars,
              clientVars
<1>8. /\ \A d \in Clients : \A i \in DOMAIN toBoard'[d] :
           Vouched(toBoard'[d][i], approvals')
      /\ \A d \in Clients : \A i \in DOMAIN toClient'[d] : Asked(toClient'[d][i])
  <2>1. \A d \in Clients : \A i \in DOMAIN toClient'[d] :
          \/ \E j \in DOMAIN toClient[d] : toClient'[d][i] = toClient[d][j]
          \/ Asked(toClient'[d][i])
    <3>1. CASE UNCHANGED toClient
      BY <3>1
    <3>2. CASE Write(Top.conn, Segment("result"))
      <4>1. Asked(Segment("result")) /\ Top.conn \in Clients
        BY <1>2, PlainSegments DEF Frames
      <4> QED
        BY <1>1, <3>2, <4>1, SegmentTypes, WriteType
    <3> QED
      BY <3>1, <3>2 DEF Reply
  <2> QED
    BY <1>2, <2>1, NetworkKeeps DEF clientVars
<1>9. Vouched(nsChallenge', approvals')
  BY <1>2 DEF ApprovalInv, BlocksVouched, clientVars, normalVars
<1> QED
  BY <1>1, <1>4, <1>6, <1>7, <1>8, <1>9 DEF ApprovalInv, BlocksVouched

(* A challenge is for the access on top, with a counter never used.        *)
LEMMA ChallengeApproval ==
  ASSUME ApprovalInv, GetCryptoChallenge
  PROVE  ApprovalInv'
<1>1. TypeOK /\ TypeOK'
  BY BoardType DEF ApprovalInv, BoardStep
<1>2. /\ stack # <<>> /\ Top.at = "trap" /\ Top \in Frames
      /\ Goto("request")
      /\ UNCHANGED <<clientVars, netVars, response, device, accesses>>
  BY <1>1, TopType DEF GetCryptoChallenge
<1>3. Current
  BY <1>2 DEF ApprovalInv, AnswerFits
<1>4. /\ stack' # <<>> /\ Top' = [Top EXCEPT !.at = "request"]
      /\ Top'.at = "request"
  BY <1>1, <1>2, GotoType
<1>5. Top'.op = Top.op /\ Top'.value = Top.value
  BY <1>2, <1>4 DEF Frames
<1>6. Current'
  BY <1>2, <1>3, <1>5 DEF Current
<1>7. AccessesApproved'
  BY <1>2 DEF ApprovalInv, AccessesApproved, clientVars
<1>8. /\ Asked(nsChallenge')
      /\ CountersOrdered'
      /\ ChallengeFits' \/ updating' = 1
  <2>1. CASE Challenge
    <3>1. /\ nsChallenge'.plain = challenge'
          /\ challenge' = Access(Top.op, Top.value, counter)
          /\ counter' = counter + 2
      BY <1>1, <1>2, <2>1, ChallengeType
    <3>2. /\ challenge'.counter = counter
          /\ challenge'.op = Top.op /\ challenge'.value = Top.value
      BY <3>1 DEF Access
    <3>3. /\ counter \in Nat /\ Even(counter)
          /\ \A i \in DOMAIN accesses : accesses[i].counter < counter
      BY <1>1 DEF ApprovalInv, CountersOrdered, TypeOK
    <3>4. \A i \in DOMAIN accesses : accesses[i].counter \in Int
      <4>1. \A i \in DOMAIN accesses : accesses[i] \in AccessRecords
        BY <1>1 DEF TypeOK
      <4> QED
        BY <4>1 DEF AccessRecords
    <3>5. Even(counter + 2)
      BY <3>3, EvenSteps
    <3>6. Asked(nsChallenge')
      BY <3>1, <3>2, <3>3 DEF Asked
    <3>7. CountersOrdered'
      BY <1>2, <3>1, <3>2, <3>3, <3>4, <3>5 DEF CountersOrdered
    <3>8. ChallengeFits'
      BY <1>2, <1>5, <3>2, <3>3, <3>4 DEF ChallengeFits
    <3> QED
      BY <3>6, <3>7, <3>8
  <2>2. CASE /\ updating' = 1 /\ nsChallenge' = Ones
             /\ UNCHANGED <<challenge, counter>>
    BY <1>2, <2>2, PlainSegments DEF ApprovalInv, CountersOrdered
  <2> QED
    BY <2>1, <2>2 DEF GetCryptoChallenge
<1>9. AnswerFits'
  BY <1>4, <1>6, <1>8 DEF AnswerFits, Pending
<1>10. BlocksVouched'
  BY <1>2, <1>8, AskedVouched DEF ApprovalInv, BlocksVouched, clientVars, netVars
<1> QED
  BY <1>1, <1>7, <1>8, <1>9, <1>10 DEF ApprovalInv

(* A void answer is never taken for a key.                                 *)
LEMMA KeyApproval ==
  ASSUME ApprovalInv, UpdateKey
  PROVE  ApprovalInv'
<1>1. TypeOK /\ TypeOK'
  BY BoardType DEF ApprovalInv, BoardStep
<1>2. /\ stack # <<>> /\ Top.at = "answered" /\ Top \in Frames
      /\ updating # 0 /\ nsChallenge' = Noise
      /\ Goto("trap")
      /\ UNCHANGED <<clientVars, netVars, challenge, counter, device, accesses>>
  BY <1>1, TopType DEF UpdateKey
<1>3. Current
  BY <1>2 DEF ApprovalInv, AnswerFits, Pending, Void
<1>4. stack' # <<>> /\ Top' = [Top EXCEPT !.at = "trap"] /\ Top'.at = "trap"
  BY <1>1, <1>2, GotoType
<1>5. Top'.op = Top.op /\ Top'.value = Top.value
  BY <1>2, <1>4 DEF Frames
<1>6. AnswerFits'
  BY <1>2, <1>3, <1>4, <1>5 DEF AnswerFits, Current
<1>7. CountersOrdered' /\ AccessesApproved'
  BY <1>2 DEF ApprovalInv, CountersOrdered, AccessesApproved, clientVars
<1>8. BlocksVouched'
  BY <1>2, <1>4, PlainSegments, AskedVouched
     DEF ApprovalInv, BlocksVouched, clientVars, netVars
<1> QED
  BY <1>1, <1>6, <1>7, <1>8 DEF ApprovalInv

(* An answer that matches was given to the access on top of the stack.     *)
LEMMA MatchApproved ==
  ASSUME ApprovalInv, stack # <<>>, Top.at = "answered", updating = 0,
         Matches(Decrypted(ctx, nsChallenge))
  PROVE  /\ Access(Top.op, Top.value, challenge.counter) = challenge
         /\ \E a \in approvals : a.access = challenge
         /\ ChallengeFits /\ Current
<1>1. TypeOK
  BY DEF ApprovalInv
<1>2. challenge \in AccessRecords /\ nsChallenge \in Blocks
  BY <1>1 DEF TypeOK
<1> DEFINE answer == [challenge EXCEPT !.counter = @ + 1]
<1>3. Decrypted(ctx, nsChallenge) = answer /\ answer # Garbage
  BY <1>2, NotGarbage DEF Matches
<1>4. nsChallenge.plain = answer
  BY <1>2, <1>3, DecryptedType
<1>5. answer.kind = "access" /\ answer.counter = challenge.counter + 1
  BY <1>2 DEF AccessRecords
<1> HIDE DEF answer
<1>6. ~Void
  BY <1>3, <1>4, RawType DEF Void
<1>7. ChallengeFits /\ Current
  BY <1>6 DEF ApprovalInv, AnswerFits, Pending
<1>8. ~Even(answer.counter)
  BY <1>2, <1>5, EvenSteps DEF ApprovalInv, CountersOrdered, AccessRecords
<1>9. nsChallenge.kind = "block" /\ Vouched(nsChallenge, approvals)
  BY <1>2 DEF ApprovalInv, BlocksVouched, Blocks
<1>10. PICK a \in approvals : answer = [a.access EXCEPT !.counter = @ + 1]
  BY <1>4, <1>5, <1>8, <1>9 DEF Vouched
<1>11. a.access \in AccessRecords
  BY <1>1 DEF TypeOK
<1>12. a.access = challenge
  BY <1>2, <1>10, <1>11, IncrementOnce DEF answer
<1>13. Access(Top.op, Top.value, challenge.counter) = challenge
  BY <1>2, <1>7 DEF Access, AccessRecords, ChallengeFits
<1> QED
  BY <1>7, <1>12, <1>13

LEMMA CheckApproval ==
  ASSUME ApprovalInv, CheckResponse
  PROVE  /\ ApprovalInv'
         /\ \A i \in DOMAIN accesses' \ DOMAIN accesses :
              accesses'[i].op = "read" => accesses'[i].value = device
<1> DEFINE x == Access(Top.op, Top.value, challenge.counter)
           ok == Matches(Decrypted(ctx, nsChallenge))
<1>1. TypeOK /\ TypeOK'
  BY BoardType DEF ApprovalInv, BoardStep
<1>2. /\ stack # <<>> /\ Top.at = "answered" /\ Top \in Frames
      /\ updating = 0 /\ nsChallenge' = Noise
      /\ Goto("done")
      /\ UNCHANGED <<clientVars, netVars, response, updating, challenge, counter>>
  BY <1>1, TopType DEF CheckResponse
<1>3. IF ok THEN accesses' = Append(accesses, x) ELSE accesses' = accesses
  BY DEF CheckResponse
<1>4. ok => /\ x = challenge
            /\ \E a \in approvals : a.access = challenge
            /\ ChallengeFits /\ Current
  BY <1>2, MatchApproved
<1>5. x.op = Top.op /\ x.value = Top.value
  BY DEF Access
<1> HIDE DEF ok, x
<1>6. response # 0
  BY <1>2 DEF ApprovalInv, AnswerFits
<1>7. stack' # <<>> /\ Top'.at = "done"
  BY <1>1, <1>2, GotoType
<1>8. AnswerFits'
  BY <1>2, <1>6, <1>7 DEF AnswerFits, Void
<1>9. BlocksVouched'
  BY <1>2, <1>7, PlainSegments, AskedVouched
     DEF ApprovalInv, BlocksVouched, clientVars, netVars
<1>10. accesses \in Seq(AccessRecords) /\ Len(accesses) \in Nat
  BY <1>1 DEF TypeOK
<1>11. \A i \in DOMAIN accesses' :
         \/ i \in DOMAIN accesses /\ accesses'[i] = accesses[i]
         \/ ok /\ i = Len(accesses) + 1 /\ accesses'[i] = x
  BY <1>3, <1>10
<1>12. CountersOrdered'
  <2>1. \A i \in DOMAIN accesses' : accesses'[i].counter < counter
    BY <1>4, <1>11 DEF ApprovalInv, CountersOrdered
  <2> QED
    BY <1>2, <2>1 DEF ApprovalInv, CountersOrdered
<1>13. AccessesApproved'
  <2>1. \A i \in DOMAIN accesses' :
          \E a \in approvals : a.access = accesses'[i]
    BY <1>4, <1>11 DEF ApprovalInv, AccessesApproved
  <2>2. ok => \A i \in DOMAIN accesses : accesses[i] # x
    BY <1>4 DEF ChallengeFits
  <2>3. \A i, j \in DOMAIN accesses' : accesses'[i] = accesses'[j] => i = j
    BY <1>11, <2>2 DEF ApprovalInv, AccessesApproved
  <2> QED
    BY <1>2, <2>1, <2>3 DEF AccessesApproved, clientVars
<1>14. \A i \in DOMAIN accesses' \ DOMAIN accesses :
         accesses'[i].op = "read" => accesses'[i].value = device
  BY <1>4, <1>5, <1>11 DEF Current
<1> QED
  BY <1>1, <1>8, <1>9, <1>12, <1>13, <1>14 DEF ApprovalInv

LEMMA ApprovalStep == ApprovalInv /\ [Next]_vars => ApprovalInv'
<1> SUFFICES ASSUME ApprovalInv, [Next]_vars PROVE ApprovalInv'
  OBVIOUS
<1>1. CASE \E c \in Clients :
             \/ \E k \in Commands, w \in Wants : SendCommand(c, k, w)
             \/ ClientStep(c)
             \/ Close(c)
  BY <1>1, ClientApproval
<1>2. CASE \E c \in Clients : Receive(c)
  BY <1>2, ReceiveApproval
<1>3. CASE BoardStep
  BY <1>3, RequestApproval, ResponseApproval, ReplyApproval, ChallengeApproval,
     KeyApproval, CheckApproval DEF BoardStep
<1>4. CASE UNCHANGED vars
  <2>1. TypeOK'
    BY <1>4, TypeStep DEF ApprovalInv
  <2>2. /\ UNCHANGED <<approvals, toBoard, toClient, nsChallenge, stack>>
        /\ UNCHANGED <<response, updating, challenge, counter, device, accesses>>
    BY <1>4 DEF vars, clientVars, netVars, normalVars, monitorVars
  <2>3. BlocksVouched' /\ CountersOrdered' /\ AccessesApproved'
    BY <2>2 DEF ApprovalInv, BlocksVouched, Asked, CountersOrdered,
                AccessesApproved, Top
  <2>4. AnswerFits'
    BY <2>2 DEF ApprovalInv, AnswerFits, Pending, Void, Current, ChallengeFits,
                Top
  <2> QED
    BY <2>1, <2>3, <2>4 DEF ApprovalInv
<1> QED
  BY <1>1, <1>2, <1>3, <1>4 DEF Next

(* The inductive invariant of the protocol: what is on the wires, in the   *)
(* buffers of the board and in the client belongs to the access that waits,*)
(* or is void.                                                             *)
THEOREM AlwaysApproval == Spec => []ApprovalInv
BY InitApproval, ApprovalStep, PTL DEF Spec

(* The monitor performs an access only if a client approved exactly that   *)
(* access, and an approval serves for one access.                          *)
THEOREM Approval == Spec => []AccessesApproved
<1>1. ApprovalInv => AccessesApproved
  BY DEF ApprovalInv
<1> QED
  BY <1>1, AlwaysApproval, PTL

(* A load returns what the register holds when it is allowed.              *)
THEOREM CurrentReads == Spec => ReadsAreCurrent
<1> DEFINE Fine == \A i \in DOMAIN accesses' \ DOMAIN accesses :
                     accesses'[i].op = "read" => accesses'[i].value = device
<1>1. ASSUME ApprovalInv, [Next]_vars
      PROVE  [Fine]_vars
  <2>1. CASE CheckResponse
    BY <1>1, <2>1, CheckApproval
  <2>2. CASE UNCHANGED accesses
    BY <2>2
  <2>3. CheckResponse \/ UNCHANGED accesses \/ UNCHANGED vars
    BY <1>1 DEF Next, SendCommand, ClientStep, Rekey, Answer, GetResult, Close,
      Receive, RecvCommand, Trapped, RecvOther, RecvAnswer, RecvClose, BoardStep,
      CryptoRequest, CryptoResponse, Reply, GetCryptoChallenge, UpdateKey,
      monitorVars
  <2> QED
    BY <2>1, <2>2, <2>3
<1> QED
  BY <1>1, AlwaysApproval, PTL DEF Spec, ReadsAreCurrent
-----------------------------------------------------------------------------
(* Only check_response leads to an access.                                 *)
LEMMA OnlyCheckPerforms ==
  ASSUME [Next]_vars, ~CheckResponse
  PROVE  UNCHANGED <<device, accesses>>
BY DEF Next, SendCommand, ClientStep, Rekey, Answer, GetResult, Close, Receive,
  RecvCommand, RecvOther, RecvAnswer, RecvClose, BoardStep, CryptoRequest,
  CryptoResponse, Reply, GetCryptoChallenge, UpdateKey, monitorVars, vars

(* And only the answer of a client grants one.                             *)
LEMMA OnlyAnswerGrants ==
  ASSUME [Next]_vars
  PROVE  \/ UNCHANGED approvals
         \/ \E a : approvals' = approvals \cup {a} /\ UNCHANGED <<device, accesses>>
<1>1. ASSUME NEW c \in Clients, Answer(c)
      PROVE  \/ UNCHANGED approvals
             \/ \E a : approvals' = approvals \cup {a} /\ UNCHANGED <<device, accesses>>
  BY <1>1 DEF Answer, monitorVars
<1> QED
  BY <1>1
  DEF Next, SendCommand, ClientStep, Rekey, GetResult, Close, Receive, RecvCommand,
    RecvOther, RecvAnswer, RecvClose, BoardStep, CryptoRequest, CryptoResponse, Reply,
    GetCryptoChallenge, UpdateKey, CheckResponse, clientVars, vars

LEMMA GrantPromise ==
  ASSUME NEW a, approvals' = approvals \cup {a}, UNCHANGED <<device, accesses>>
  PROVE  Promise!Grant
<1>1. {b.access : b \in approvals'} = {b.access : b \in approvals} \cup {a.access}
  OBVIOUS
<1> QED
  BY <1>1 DEF Promise!Grant

LEMMA PerformPromise ==
  ASSUME ApprovalInv, CheckResponse
  PROVE  [Promise!RegisterNext]_(Promise!registerVars)
<1> DEFINE x == Access(Top.op, Top.value, challenge.counter)
           n == Len(accesses) + 1
           granted == {a.access : a \in approvals}
           performed == {accesses[i] : i \in DOMAIN accesses}
<1>1. /\ ApprovalInv'
      /\ \A i \in DOMAIN accesses' \ DOMAIN accesses :
           accesses'[i].op = "read" => accesses'[i].value = device
  BY CheckApproval
<1>2. UNCHANGED approvals /\ Top \in Frames /\ accesses \in Seq(AccessRecords)
  BY TopType DEF CheckResponse, clientVars, ApprovalInv, TypeOK
<1>3. CASE UNCHANGED <<device, accesses>>
  BY <1>2, <1>3 DEF Promise!registerVars
<1>4. CASE /\ device' = IF Top.op = "write" THEN Top.value ELSE device
           /\ accesses' = Append(accesses, x)
  <2>1. x \in AccessRecords /\ x.op = Top.op /\ x.value = Top.value
    BY <1>2 DEF Access, AccessRecords, Frames, ApprovalInv, TypeOK
  <2> HIDE DEF x
  <2>2. /\ DOMAIN accesses = 1 .. Len(accesses) /\ DOMAIN accesses' = 1 .. n
        /\ n \notin DOMAIN accesses
        /\ accesses'[n] = x
        /\ \A i \in DOMAIN accesses : accesses'[i] = accesses[i]
    BY <1>2, <1>4, <2>1
  <2>3. x \in granted \ performed
    <3>1. x \in granted
      BY <1>1, <1>2, <2>2 DEF ApprovalInv, AccessesApproved
    <3>2. \A i \in DOMAIN accesses : accesses[i] # x
      BY <1>1, <2>2 DEF ApprovalInv, AccessesApproved
    <3> QED
      BY <3>1, <3>2
  <2>4. {accesses'[i] : i \in DOMAIN accesses'} = performed \cup {x}
    BY <2>2
  <2>5. Promise!PerformRead(x) \/ Promise!PerformWrite(x)
    BY <1>1, <1>2, <1>4, <2>1, <2>2 DEF Promise!PerformRead, Promise!PerformWrite, Frames
  <2>6. Promise!Perform
    BY <1>2, <2>3, <2>4, <2>5 DEF Promise!Perform
  <2> QED
    BY <2>6 DEF Promise!RegisterNext
<1> QED
  BY <1>3, <1>4 DEF CheckResponse

(* For any number of clients and commands the board, the network and the   *)
(* clients together keep the promise: the register changes only when an    *)
(* access a client granted is performed, once for each grant, and a read   *)
(* returns what the register holds.                                        *)
THEOREM Protection == Spec => ImplementsProtectedRegister
<1>1. Init => Promise!RegisterInit
  BY DEF Init, Promise!RegisterInit
<1>2. ApprovalInv /\ [Next]_vars => [Promise!RegisterNext]_(Promise!registerVars)
  <2> SUFFICES ASSUME ApprovalInv, [Next]_vars
               PROVE  [Promise!RegisterNext]_(Promise!registerVars)
    OBVIOUS
  <2>1. CASE CheckResponse
    BY <2>1, PerformPromise
  <2>2. CASE ~CheckResponse /\ UNCHANGED approvals
    BY <2>2, OnlyCheckPerforms DEF Promise!registerVars
  <2>3. CASE \E a : approvals' = approvals \cup {a} /\ UNCHANGED <<device, accesses>>
    BY <2>3, GrantPromise DEF Promise!RegisterNext
  <2> QED
    BY <2>1, <2>2, <2>3, OnlyAnswerGrants
<1> QED
  BY <1>1, <1>2, AlwaysApproval, PTL DEF Spec, ImplementsProtectedRegister,
     Promise!RegisterSpec
-----------------------------------------------------------------------------
(***************************************************************************)
(* One client that talks to the board alone, as trust_io.py does.          *)
(*                                                                         *)
(* A command goes through phases in which the two ends cannot both act, so *)
(* each can say where the other one is in its chain.  A client that has    *)
(* closed its connection says nothing any more.                            *)
(***************************************************************************)

(* The context of the next block the monitor makes.                        *)
Chain == IF ready THEN ctx ELSE [key |-> key, last |-> Vector]

Performed(a) == \E i \in DOMAIN accesses : accesses[i] = a.access


Settled(c) == aes[c] = Chain /\ \A a \in approvals : Performed(a)

(* The last challenge is for the access in progress.                       *)
ChallengeOfTop == challenge = Access(Top.op, Top.value, challenge.counter)

(* What the client is asked: for a key, or for the access.                 *)
Asks(c) ==
  /\ ready
  /\ \A a \in approvals : Performed(a)
  /\ \/ /\ updating = 1 /\ cpc[c] = "challenge"
        /\ nsChallenge = Ones /\ aes[c] = ctx
     \/ /\ updating = 0 /\ cpc[c] \in {"challenge", "rekeyed"}
        /\ ChallengeOfTop
        /\ nsChallenge # Ones
        /\ Decrypted(aes[c], nsChallenge) = challenge
        /\ ctx = After(aes[c], nsChallenge)

(* Its answer m: the key it uses now, or what the chain goes on from, with *)
(* the approval if it gave one.                                            *)
Answers(c, m) ==
  /\ ready
  /\ m \in Blocks
  /\ \/ /\ updating = 1 /\ cpc[c] = "rekeyed"
        /\ aes[c] = [key |-> KeyIn(Decrypted(ctx, m)), last |-> Vector]
        /\ \A a \in approvals : Performed(a)
     \/ /\ updating = 0 /\ cpc[c] = "result"
        /\ ChallengeOfTop
        /\ aes[c] = After(ctx, m)
        /\ \A a \in approvals :
             Performed(a) \/ (a.access = challenge /\ Matches(Decrypted(ctx, m)))

(* The connection of c: what is on its way, and who receives.              *)
Line(c, up, down, receiver) ==
  toBoard[c] = up /\ toClient[c] = down /\ callback[c] = receiver

At(where) == Len(stack) = 1 /\ Top.at = where

Resting(c) ==
  /\ cpc[c] = "idle" /\ stack = <<>> /\ updating = 0
  /\ Line(c, <<>>, <<>>, "recv") /\ Settled(c)

Commanding(c) ==
  /\ cpc[c] = "challenge" /\ stack = <<>> /\ updating = 0
  /\ \E k \in Commands : Line(c, <<[kind |-> "cmd", cmd |-> k]>>, <<>>, "recv")
  /\ Settled(c)

Trapping(c) ==
  /\ At("trap")
  /\ \/ updating = 0 /\ cpc[c] = "challenge"
     \/ updating = 2 /\ cpc[c] = "rekeyed"
  /\ Line(c, <<>>, <<>>, "recv") /\ Settled(c)

Requesting(c) ==
  At("request") /\ Line(c, <<>>, <<>>, "recv") /\ Asks(c)

Asking(c) ==
  At("wait") /\ response = 0 /\ Line(c, <<>>, <<nsChallenge>>, "crypto") /\ Asks(c)

Answering(c) ==
  /\ At("wait") /\ response = 0
  /\ LET m == Head(toBoard[c])
     IN  Line(c, <<m>>, <<>>, "crypto") /\ Answers(c, m)

Answered(c) ==
  /\ \/ At("wait") /\ response = 1 /\ Line(c, <<>>, <<>>, "crypto")
     \/ At("answered") /\ Line(c, <<>>, <<>>, "recv")
  /\ Answers(c, nsChallenge)

Finishing(c) ==
  /\ cpc[c] = "result" /\ At("done") /\ updating = 0
  /\ Line(c, <<>>, <<>>, "recv") /\ Settled(c)

Replying(c) ==
  /\ cpc[c] = "result" /\ stack = <<>> /\ updating = 0
  /\ Line(c, <<>>, <<Segment("result")>>, "recv") /\ Settled(c)

InStep(c) ==
  \/ cpc[c] = "closed"
  \/ Resting(c) \/ Commanding(c) \/ Trapping(c) \/ Requesting(c) \/ Asking(c)
  \/ Answering(c) \/ Answered(c) \/ Finishing(c) \/ Replying(c)

LEMMA Closed ==
  ASSUME TypeOK, NEW c \in Clients, [Next]_vars
  PROVE  cpc[c] = "closed" => cpc'[c] = "closed"
<1>1. ASSUME NEW d \in Clients,
             \/ \E k \in Commands, w \in Wants : SendCommand(d, k, w)
             \/ ClientStep(d)
             \/ Close(d)
      PROVE  cpc[c] = "closed" => cpc'[c] = "closed"
  BY <1>1 DEF ClientStep, SendCommand, Rekey, Answer, GetResult, Close, TypeOK
<1>2. ASSUME NEW d \in Clients, Receive(d)
      PROVE  cpc' = cpc
  BY <1>2 DEF Receive, RecvCommand, RecvOther, RecvAnswer, RecvClose, clientVars
<1>3. CASE BoardStep \/ UNCHANGED vars
  BY <1>3 DEF BoardStep, CryptoRequest, CryptoResponse, Reply, GetCryptoChallenge,
     UpdateKey, CheckResponse, vars, clientVars
<1> QED
  BY <1>1, <1>2, <1>3 DEF Next

(* Who can act says which phase it is.                                     *)
LEMMA Phases ==
  ASSUME TypeOK, NEW c \in Clients, InStep(c), cpc[c] # "closed"
  PROVE  /\ cpc[c] = "idle" => Resting(c)
         /\ toClient[c] # <<>> => Asking(c) \/ Replying(c)
         /\ toBoard[c] # <<>> => Commanding(c) \/ Answering(c)
         /\ stack # <<>> =>
              /\ Top.at = "trap" => Trapping(c)
              /\ Top.at = "request" => Requesting(c)
              /\ Top.at = "wait" /\ response # 0 => Answered(c)
              /\ Top.at = "answered" => Answered(c)
              /\ Top.at = "done" => Finishing(c)
<1>1. stack = <<>> => Len(stack) = 0
  OBVIOUS
<1> USE DEF Line, At
<1>2. CASE Resting(c) \/ Replying(c) \/ Commanding(c)
  BY <1>1, <1>2 DEF Resting, Replying, Commanding
<1>3. CASE Trapping(c) \/ Finishing(c)
  BY <1>3 DEF Trapping, Finishing
<1>4. CASE Requesting(c) \/ Asking(c)
  BY <1>4 DEF Requesting, Asking, Asks
<1>5. CASE Answering(c) \/ Answered(c)
  BY <1>5 DEF Answering, Answered, Answers
<1> QED
  BY <1>2, <1>3, <1>4, <1>5 DEF InStep

LEMMA SendsInStep ==
  ASSUME TypeOK, NEW c \in Clients, InStep(c), NEW k \in Commands, NEW w \in Wants,
         SendCommand(c, k, w)
  PROVE  InStep(c)'
<1>1. Resting(c)
  BY Phases DEF SendCommand
<1>2. toBoard'[c] = <<[kind |-> "cmd", cmd |-> k]>>
  BY <1>1 DEF SendCommand, TypeOK, Resting, Line
<1>3. Settled(c)' /\ UNCHANGED <<toClient, callback, stack, updating>>
  BY <1>1 DEF SendCommand, Resting, Settled, Chain, Performed, monitorVars, normalVars
<1>4. cpc'[c] = "challenge"
  BY DEF SendCommand, TypeOK
<1>5. Commanding(c)'
  BY <1>1, <1>2, <1>3, <1>4 DEF Commanding, Resting, Line
<1> QED
  BY <1>5 DEF InStep

(* An undivided answer is one segment.                                     *)
LEMMA SendsOne ==
  ASSUME TypeOK, NEW c \in Clients, NEW m, SendBlock(c, m), toBoard[c] = <<>>,
         Len(toBoard'[c]) = 1
  PROVE  toBoard'[c] = <<m>>
<1>1. PICK segments \in {<<m>>, <<Segment("part"), Segment("part")>>} :
        toBoard' = [toBoard EXCEPT ![c] = @ \o segments]
  BY DEF SendBlock
<1>2. toBoard'[c] = segments
  BY <1>1 DEF TypeOK
<1> QED
  BY <1>1, <1>2

LEMMA ReceivesOne ==
  ASSUME TypeOK, NEW c \in Clients, NEW m, toClient[c] = <<m>>, Received(c)
  PROVE  toClient'[c] = <<>> /\ Head(toClient[c]) = m
BY DEF TypeOK, Received

LEMMA TakesOne ==
  ASSUME TypeOK, NEW c \in Clients, NEW m, toBoard[c] = <<m>>, Taken(c)
  PROVE  toBoard'[c] = <<>> /\ Head(toBoard[c]) = m
BY DEF TypeOK, Taken

(* A block decrypts in the context it was made in.                         *)
LEMMA Decrypts ==
  ASSUME NEW a, NEW plain, NEW n
  PROVE  Decrypted(a, Block(a, plain, n)) = plain
BY DEF Decrypted, Block

LEMMA RekeyInStep ==
  ASSUME TypeOK, NEW c \in Clients, Len(toBoard'[c]) = 1, InStep(c), Rekey(c)
  PROVE  InStep(c)'
<1> DEFINE plain == [kind |-> "key", key |-> fresh + 1]
           m == Block(aes[c], plain, fresh + 1)
<1>1. /\ cpc[c] = "challenge" /\ toClient[c] # <<>> /\ Head(toClient[c]) = Ones
      /\ SendBlock(c, m)
      /\ aes' = [aes EXCEPT ![c] = [key |-> fresh + 1, last |-> Vector]]
      /\ Received(c)
      /\ cpc' = [cpc EXCEPT ![c] = "rekeyed"]
      /\ UNCHANGED <<approvals, normalVars, stack, monitorVars>>
  BY DEF Rekey
<1>2. Asking(c)
  BY <1>1, Phases DEF Replying
<1>3. /\ nsChallenge = Ones /\ updating = 1 /\ ready /\ aes[c] = ctx
      /\ \A a \in approvals : Performed(a)
      /\ At("wait") /\ response = 0 /\ callback[c] = "crypto"
  BY <1>1, <1>2, ReceivesOne DEF Asking, Asks, Line
<1>4. m \in Blocks
  <2>1. aes[c] \in Contexts /\ fresh + 1 \in Int /\ plain \in Plains
    BY DEF TypeOK, Plains
  <2> QED
    BY <2>1, BlockType
<1>5. Decrypted(ctx, m) = plain
  BY <1>3, Decrypts
<1>6. KeyIn(plain) = fresh + 1
  BY DEF KeyIn
<1> HIDE DEF m, plain
<1>7. PICK b \in Blocks : b = m
  BY <1>4
<1>8. /\ toBoard'[c] = <<b>> /\ Head(toBoard'[c]) = b
      /\ toClient'[c] = <<>>
  BY <1>1, <1>2, <1>7, SendsOne, ReceivesOne DEF Asking, Line
<1>9. /\ cpc'[c] = "rekeyed"
      /\ aes'[c] = [key |-> KeyIn(Decrypted(ctx, b)), last |-> Vector]
  BY <1>1, <1>5, <1>6, <1>7 DEF TypeOK
<1>10. UNCHANGED <<ready, ctx, updating, accesses, approvals, response, callback, stack>>
  BY <1>1 DEF monitorVars, normalVars
<1>11. Answers(c, b)'
  BY <1>3, <1>9, <1>10 DEF Answers, Performed
<1>12. Answering(c)'
  BY <1>3, <1>8, <1>10, <1>11 DEF Answering, Line, At, Top
<1> QED
  BY <1>12 DEF InStep

LEMMA AnswerInStep ==
  ASSUME TypeOK, NEW c \in Clients, Len(toBoard'[c]) = 1, InStep(c), Answer(c)
  PROVE  InStep(c)'
<1> DEFINE m == Head(toClient[c])
           plain == Decrypted(aes[c], m)
           reply == Block(After(aes[c], m),
                          [plain EXCEPT !.counter = @ + 1], fresh + 1)
<1>1. /\ cpc[c] \in {"challenge", "rekeyed"} /\ toClient[c] # <<>>
      /\ cpc[c] = "challenge" => m # Ones
      /\ Received(c)
      /\ cpc' = [cpc EXCEPT ![c] = "result"]
      /\ UNCHANGED <<normalVars, stack, monitorVars>>
  BY DEF Answer
<1>2. Asking(c)
  BY <1>1, Phases DEF Replying
<1>3. m = nsChallenge /\ toClient'[c] = <<>> /\ toBoard[c] = <<>>
  BY <1>1, <1>2, ReceivesOne DEF Asking, Line
<1>4. /\ updating = 0 /\ ready /\ ChallengeOfTop
      /\ plain = challenge /\ ctx = After(aes[c], m)
      /\ \A a \in approvals : Performed(a)
      /\ At("wait") /\ response = 0 /\ callback[c] = "crypto"
  BY <1>1, <1>2, <1>3 DEF Asking, Asks, Line
<1>5. m \in Blocks
  BY <1>3 DEF TypeOK
<1>6. UNCHANGED <<updating, ready, challenge, ctx, accesses, stack, response, callback,
                  nsChallenge>>
  BY <1>1 DEF normalVars, monitorVars
<1>7. SUFFICES ASSUME NEW b \in Blocks, SendBlock(c, b), aes'[c] = After(ctx, b),
                      \A a \in approvals' :
                        \/ Performed(a)
                        \/ a.access = challenge /\ Matches(Decrypted(ctx, b))
               PROVE  InStep(c)'
  <2>1. CASE Valid(c, plain)
    <3>1. /\ SendBlock(c, reply)
          /\ aes' = [aes EXCEPT ![c] = After(@, reply)]
          /\ approvals' = approvals \cup {[access |-> plain, wanted |-> want[c]]}
      BY <2>1 DEF Answer
    <3>2. Decrypted(ctx, reply) = [challenge EXCEPT !.counter = @ + 1]
      BY <1>4, Decrypts
    <3>3. reply \in Blocks
      <4>1. challenge \in AccessRecords
        BY DEF TypeOK
      <4>2. [plain EXCEPT !.counter = @ + 1] \in Plains
        BY <1>4, <4>1 DEF Plains, AccessRecords
      <4>3. After(aes[c], m) \in Contexts /\ fresh + 1 \in Int
        BY <1>5, AfterType DEF TypeOK
      <4> QED
        BY <4>2, <4>3, BlockType
    <3>4. \A b : After(After(aes[c], m), b) = After(aes[c], b)
      BY DEF TypeOK, After, Contexts
    <3> HIDE DEF reply, m, plain
    <3>5. aes'[c] = After(ctx, reply)
      BY <1>4, <3>1, <3>4 DEF TypeOK
    <3>6. Matches(Decrypted(ctx, reply))
      BY <3>2 DEF Matches
    <3>7. \A a \in approvals' : Performed(a) \/ a.access = challenge
      BY <1>4, <3>1
    <3> QED
      BY <1>7, <3>1, <3>3, <3>5, <3>6, <3>7
  <2>2. CASE ~Valid(c, plain)
    <3>1. /\ SendBlock(c, m)
          /\ aes' = [aes EXCEPT ![c] = After(@, m)]
          /\ approvals' = approvals
      BY <2>2 DEF Answer
    <3>2. \A b : After(After(aes[c], m), b) = After(aes[c], b)
      BY DEF TypeOK, After, Contexts
    <3> HIDE DEF m
    <3>3. aes'[c] = After(ctx, m)
      BY <1>4, <3>1, <3>2 DEF TypeOK
    <3> QED
      BY <1>4, <1>5, <1>7, <3>1, <3>3
  <2> QED
    BY <2>1, <2>2
<1> HIDE DEF m, plain, reply
<1>8. toBoard'[c] = <<b>> /\ Head(toBoard'[c]) = b
  BY <1>3, <1>7, SendsOne
<1>9. cpc'[c] = "result"
  BY <1>1 DEF TypeOK
<1>10. Answers(c, b)'
  BY <1>4, <1>6, <1>7, <1>9 DEF Answers, Performed, ChallengeOfTop, Top, Matches
<1>11. Answering(c)'
  BY <1>3, <1>4, <1>6, <1>8, <1>10 DEF Answering, Line, At, Top
<1> QED
  BY <1>11 DEF InStep

LEMMA ResultInStep ==
  ASSUME TypeOK, NEW c \in Clients, InStep(c), GetResult(c)
  PROVE  InStep(c)'
<1>1. /\ cpc[c] = "result" /\ toClient[c] # <<>> /\ Head(toClient[c]).kind # "block"
      /\ Received(c)
      /\ cpc' = [cpc EXCEPT ![c] = "idle"]
      /\ UNCHANGED <<aes, approvals, toBoard, normalVars, stack, monitorVars>>
  BY DEF GetResult
<1>2. Replying(c)
  <2>1. CASE Asking(c)
    BY <1>1, <2>1, ReceivesOne DEF Asking, Asks, Line
  <2> QED
    BY <1>1, <2>1, Phases
<1>3. toClient'[c] = <<>>
  BY <1>1, <1>2, ReceivesOne DEF Replying, Line
<1>4. cpc'[c] = "idle"
  BY <1>1 DEF TypeOK
<1>5. Resting(c)'
  BY <1>1, <1>2, <1>3, <1>4
  DEF Resting, Replying, Line, Settled, Chain, Performed, normalVars, monitorVars
<1> QED
  BY <1>5 DEF InStep

(* What the board receives is a command, while it rests, or the answer it  *)
(* waits for.                                                              *)
LEMMA ReceiveInStep ==
  ASSUME TypeOK, NEW c \in Clients, InStep(c), cpc[c] # "closed", Receive(c)
  PROVE  InStep(c)'
<1>0. PICK m \in Incoming(c) : m = Head(toBoard[c]) /\ toBoard[c] # <<>>
  <2>1. Incoming(c) # {}
    BY DEF Receive, RecvCommand, RecvOther, RecvAnswer, RecvClose
  <2> QED
    BY <2>1 DEF Incoming
<1>1. Incoming(c) = {m}
  BY <1>0 DEF Incoming
<1>2. /\ Taken(c) /\ UNCHANGED clientVars
  BY DEF Receive, RecvCommand, RecvOther, RecvAnswer, RecvClose
<1>3. CASE Commanding(c)
  <2>1. PICK k \in Commands : Line(c, <<[kind |-> "cmd", cmd |-> k]>>, <<>>, "recv")
    BY <1>3 DEF Commanding
  <2>2. m = [kind |-> "cmd", cmd |-> k]
    BY <1>0, <2>1 DEF Line
  <2>3. /\ stack' = Append(stack, Trapped(c, m.cmd))
        /\ UNCHANGED <<toClient, callback, response, nsChallenge, monitorVars>>
    BY <1>1, <2>1, <2>2
    DEF Receive, RecvCommand, RecvOther, RecvAnswer, RecvClose, Line, Segment
  <2>4. toBoard'[c] = <<>>
    BY <1>2, <2>1, TakesOne DEF Line
  <2>5. At("trap")'
    <3>1. stack' = <<Trapped(c, m.cmd)>>
      BY <1>3, <2>3 DEF Commanding
    <3> QED
      BY <3>1 DEF At, Top, Trapped
  <2>6. Trapping(c)'
    BY <1>2, <1>3, <2>1, <2>3, <2>4, <2>5
    DEF Commanding, Trapping, Line, Settled, Chain, Performed, clientVars, monitorVars
  <2> QED
    BY <2>6 DEF InStep
<1>4. CASE Answering(c)
  <2>1. /\ At("wait") /\ response = 0 /\ Line(c, <<m>>, <<>>, "crypto")
        /\ Answers(c, m)
    BY <1>0, <1>4 DEF Answering
  <2>2. m.kind = "block"
    BY <2>1 DEF Answers, Blocks
  <2>3. /\ nsChallenge' = m /\ response' = 1
        /\ UNCHANGED <<toClient, callback, stack, monitorVars>>
    BY <1>1, <2>1, <2>2
    DEF Receive, RecvCommand, RecvOther, RecvAnswer, RecvClose, Line, Segment
  <2>4. toBoard'[c] = <<>>
    BY <1>2, <2>1, TakesOne DEF Line
  <2>5. Answers(c, m)'
    BY <1>2, <2>1, <2>3
    DEF Answers, Performed, ChallengeOfTop, Top, Matches, clientVars, monitorVars
  <2> QED
    BY <1>2, <2>1, <2>3, <2>4, <2>5 DEF InStep, Answered, Line, At, Top
<1> QED
  BY <1>0, <1>3, <1>4, Phases

LEMMA GotoOne ==
  ASSUME TypeOK, stack # <<>>, Len(stack) = 1,
         NEW where \in {"trap", "request", "wait", "answered", "done"},
         Goto(where)
  PROVE  At(where)' /\ Top'.op = Top.op /\ Top'.value = Top.value
<1>1. Top' = [Top EXCEPT !.at = where] /\ Top'.at = where
  BY GotoType
<1>2. Top \in Frames
  BY TopType
<1>3. Len(stack') = 1
  BY DEF Goto, SetTop, TypeOK
<1> QED
  BY <1>1, <1>2, <1>3 DEF At, Frames

LEMMA RequestInStep ==
  ASSUME TypeOK, NEW c \in Clients, Clients = {c}, "full" \notin Events,
         InStep(c), cpc[c] # "closed", CryptoRequest
  PROVE  InStep(c)'
<1>1. /\ stack # <<>> /\ Top.at = "request" /\ tpcb = c
      /\ SetCallback(c, "crypto") /\ Goto("wait")
      /\ UNCHANGED <<clientVars, toBoard, nsChallenge, monitorVars>>
  BY TopType DEF CryptoRequest
<1>2. Requesting(c)
  BY <1>1, Phases
<1>3. callback[c] = "recv" /\ toClient[c] = <<>> /\ toBoard[c] = <<>> /\ Len(stack) = 1
  BY <1>2 DEF Requesting, Line, At
<1>4. Write(c, nsChallenge) /\ response' = 0
  BY <1>1, <1>3 DEF CryptoRequest
<1>5. toClient'[c] = <<nsChallenge>>
  BY <1>3, <1>4 DEF Write, Open, TypeOK
<1>6. callback'[c] = "crypto"
  BY <1>1, <1>3 DEF SetCallback, TypeOK
<1>7. At("wait")' /\ Top'.op = Top.op /\ Top'.value = Top.value
  BY <1>1, <1>3, GotoOne
<1>8. Asks(c)'
  BY <1>1, <1>2, <1>7
  DEF Requesting, Asks, Performed, ChallengeOfTop, clientVars, monitorVars
<1>9. Asking(c)'
  BY <1>1, <1>3, <1>4, <1>5, <1>6, <1>7, <1>8 DEF Asking, Line
<1> QED
  BY <1>9 DEF InStep

LEMMA ResponseInStep ==
  ASSUME TypeOK, NEW c \in Clients, Clients = {c}, InStep(c), cpc[c] # "closed",
         CryptoResponse
  PROVE  InStep(c)'
<1>1. /\ stack # <<>> /\ Top.at = "wait" /\ response # 0 /\ tpcb = c
      /\ SetCallback(c, "recv") /\ Goto("answered")
      /\ UNCHANGED <<clientVars, netVars, nsChallenge, monitorVars>>
  BY TopType DEF CryptoResponse, CallbackBack
<1>2. Answered(c)
  BY <1>1, Phases
<1>3. /\ Line(c, <<>>, <<>>, "crypto") /\ Len(stack) = 1
      /\ Answers(c, nsChallenge)
  BY <1>1, <1>2 DEF Answered, At
<1>4. callback'[c] = "recv"
  BY <1>1, <1>3 DEF SetCallback, TypeOK, Line
<1>5. At("answered")' /\ Top'.op = Top.op /\ Top'.value = Top.value
  BY <1>1, <1>3, GotoOne
<1>6. Answers(c, nsChallenge)'
  BY <1>1, <1>3, <1>5
  DEF Answers, Performed, ChallengeOfTop, Matches, clientVars, monitorVars
<1>7. Answered(c)'
  BY <1>1, <1>3, <1>4, <1>5, <1>6 DEF Answered, Line, netVars
<1> QED
  BY <1>7 DEF InStep

LEMMA ReplyInStep ==
  ASSUME TypeOK, NEW c \in Clients, Clients = {c}, "full" \notin Events,
         InStep(c), cpc[c] # "closed", Reply
  PROVE  InStep(c)'
<1>1. /\ stack # <<>> /\ Top.at = "done" /\ Top.conn = c
      /\ Write(c, Segment("result"))
      /\ stack' = SubSeq(stack, 1, Len(stack) - 1)
      /\ UNCHANGED <<clientVars, toBoard, normalVars, monitorVars>>
  BY TopType DEF Reply, Frames
<1>2. Finishing(c)
  BY <1>1, Phases
<1>3. Len(stack) = 1 /\ Line(c, <<>>, <<>>, "recv")
  BY <1>2 DEF Finishing, At
<1>4. stack' = <<>>
  BY <1>1, <1>3, EmptySeq DEF TypeOK
<1>5. toClient'[c] = <<Segment("result")>>
  BY <1>1, <1>3 DEF Write, Open, TypeOK, Line
<1>6. Replying(c)'
  BY <1>1, <1>2, <1>3, <1>4, <1>5
  DEF Finishing, Replying, Line, Settled, Chain, Performed, clientVars, normalVars,
      monitorVars
<1> QED
  BY <1>6 DEF InStep

LEMMA ChallengeInStep ==
  ASSUME TypeOK, NEW c \in Clients, "first" \notin Events,
         InStep(c), cpc[c] # "closed", GetCryptoChallenge
  PROVE  InStep(c)'
<1>1. /\ stack # <<>> /\ Top.at = "trap" /\ Goto("request")
      /\ UNCHANGED <<clientVars, netVars, callback, key, accesses>>
  BY DEF GetCryptoChallenge
<1>2. Trapping(c)
  BY <1>1, Phases
<1>3. /\ Line(c, <<>>, <<>>, "recv") /\ Settled(c) /\ Len(stack) = 1
      /\ updating \in {0, 2}
      /\ updating = 0 => cpc[c] = "challenge"
      /\ updating = 2 => cpc[c] = "rekeyed"
  BY <1>2 DEF Trapping, At
<1>4. At("request")' /\ Top'.op = Top.op /\ Top'.value = Top.value
  BY <1>1, <1>3, GotoOne
<1>5. CASE Challenge /\ updating' = 0
  <2> DEFINE m == Block(aes[c], challenge', fresh + 1)
  <2>1. /\ challenge' = Access(Top.op, Top.value, counter)
        /\ nsChallenge' = m /\ ctx' = After(aes[c], m) /\ ready'
    BY <1>3, <1>5 DEF Challenge, Settled, Chain
  <2>2. Decrypted(aes[c], m) = challenge'
    BY Decrypts
  <2>3. m # Ones
    <3>1. m.id = fresh + 1 /\ Ones.id = -1
      BY DEF Block, Ones, Raw
    <3> QED
      BY <3>1 DEF TypeOK
  <2> HIDE DEF m
  <2>4. ChallengeOfTop'
    BY <1>4, <2>1 DEF ChallengeOfTop, Access
  <2>5. /\ Decrypted(aes'[c], nsChallenge') = challenge'
        /\ ctx' = After(aes'[c], nsChallenge')
        /\ nsChallenge' # Ones
        /\ cpc'[c] \in {"challenge", "rekeyed"}
    BY <1>1, <1>3, <2>1, <2>2, <2>3 DEF clientVars
  <2>6. \A a \in approvals' : Performed(a)'
    BY <1>1, <1>3 DEF Settled, Performed, clientVars
  <2>7. Asks(c)'
    BY <1>5, <2>1, <2>4, <2>5, <2>6 DEF Asks
  <2> QED
    BY <1>1, <1>3, <1>4, <2>7 DEF InStep, Requesting, Line, netVars
<1>6. CASE /\ updating # 2 /\ updating' = 1 /\ nsChallenge' = Ones /\ ready
           /\ UNCHANGED <<ctx, ready>>
  <2>1. Asks(c)'
    BY <1>1, <1>3, <1>6 DEF Asks, Settled, Chain, Performed, clientVars
  <2> QED
    BY <1>1, <1>3, <1>4, <2>1 DEF InStep, Requesting, Line, netVars
<1> QED
  BY <1>3, <1>5, <1>6 DEF GetCryptoChallenge

LEMMA KeyInStep ==
  ASSUME TypeOK, NEW c \in Clients, InStep(c), cpc[c] # "closed", UpdateKey
  PROVE  InStep(c)'
<1>1. /\ stack # <<>> /\ Top.at = "answered" /\ updating # 0
      /\ key' = KeyIn(Decrypted(ctx, nsChallenge))
      /\ updating' = 2 /\ ready' = FALSE /\ Goto("trap")
      /\ UNCHANGED <<clientVars, netVars, callback, accesses>>
  BY DEF UpdateKey, DropContext
<1>2. Answered(c)
  BY <1>1, Phases
<1>3. /\ Line(c, <<>>, <<>>, "recv") /\ Len(stack) = 1
      /\ cpc[c] = "rekeyed"
      /\ aes[c] = [key |-> KeyIn(Decrypted(ctx, nsChallenge)), last |-> Vector]
      /\ \A a \in approvals : Performed(a)
  BY <1>1, <1>2 DEF Answered, At, Answers
<1>4. At("trap")'
  BY <1>1, <1>3, GotoOne
<1>5. Settled(c)'
  BY <1>1, <1>3 DEF Settled, Chain, Performed, clientVars
<1> QED
  BY <1>1, <1>3, <1>4, <1>5 DEF InStep, Trapping, Line, netVars, clientVars

LEMMA CheckInStep ==
  ASSUME TypeOK, NEW c \in Clients, InStep(c), cpc[c] # "closed", CheckResponse
  PROVE  InStep(c)'
<1>1. /\ stack # <<>> /\ Top.at = "answered" /\ updating = 0
      /\ ctx' = After(ctx, nsChallenge) /\ Goto("done")
      /\ UNCHANGED <<clientVars, netVars, callback, key, ready, updating>>
  BY DEF CheckResponse
<1>2. Answered(c)
  BY <1>1, Phases
<1>3. /\ Line(c, <<>>, <<>>, "recv") /\ Len(stack) = 1
      /\ ready /\ cpc[c] = "result" /\ ChallengeOfTop
      /\ aes[c] = After(ctx, nsChallenge)
      /\ \A a \in approvals :
           \/ Performed(a)
           \/ a.access = challenge /\ Matches(Decrypted(ctx, nsChallenge))
  BY <1>1, <1>2 DEF Answered, At, Answers
<1>4. At("done")'
  BY <1>1, <1>3, GotoOne
<1>5. \A a \in approvals : Performed(a)'
  <2>1. CASE Matches(Decrypted(ctx, nsChallenge))
    <3>1. accesses' = Append(accesses, challenge)
      BY <1>3, <2>1 DEF CheckResponse, ChallengeOfTop
    <3>2. /\ \A i \in DOMAIN accesses : i \in DOMAIN accesses' /\ accesses'[i] = accesses[i]
          /\ Len(accesses) + 1 \in DOMAIN accesses'
          /\ accesses'[Len(accesses) + 1] = challenge
      BY <3>1 DEF TypeOK
    <3> QED
      BY <1>3, <3>2 DEF Performed
  <2>2. CASE ~Matches(Decrypted(ctx, nsChallenge))
    BY <1>3, <2>2 DEF CheckResponse, Performed
  <2> QED
    BY <2>1, <2>2
<1>6. Settled(c)'
  BY <1>1, <1>3, <1>5 DEF Settled, Chain, clientVars
<1> QED
  BY <1>1, <1>3, <1>4, <1>6 DEF InStep, Finishing, Line, netVars, clientVars

-----------------------------------------------------------------------------
(* With one client no access nests, and its callback is crypto_callback    *)
(* only while the access waits.                                            *)
Unnested(c) ==
  /\ Len(stack) \in {0, 1}
  /\ callback[c] = "crypto" => stack # <<>> /\ Top.at = "wait"
  /\ stack # <<>> /\ Top.at = "wait" => callback[c] # "recv"

LEMMA UnnestedStep ==
  ASSUME NEW c, Clients = {c}, TypeOK, Unnested(c), [Next]_vars
  PROVE  Unnested(c)'
<1>0. c \in Clients /\ (stack # <<>> => Len(stack) = 1)
  BY DEF TypeOK, Unnested
<1>1. CASE UNCHANGED <<callback, stack>>
  BY <1>1 DEF Unnested, Top
<1>2. CASE RecvCommand(c)
  <2>1. stack = <<>> /\ callback[c] = "recv"
    BY <1>2 DEF RecvCommand, Incoming, Polling, Unnested
  <2>2. \E f : stack' = <<f>> /\ f.at = "trap"
    BY <1>2, <2>1 DEF RecvCommand, Trapped
  <2>3. callback' = callback
    BY <1>2 DEF RecvCommand
  <2> QED
    BY <2>1, <2>2, <2>3 DEF Unnested, Top
<1>3. CASE RecvClose(c)
  <2>1. callback'[c] = "none" /\ stack' = stack
    BY <1>0, <1>3 DEF RecvClose, TypeOK
  <2> QED
    BY <2>1 DEF Unnested, Top
<1>4. CASE CryptoRequest
  <2>1. /\ stack # <<>> /\ tpcb = c /\ SetCallback(c, "crypto") /\ Goto("wait")
    BY <1>4, TopType DEF CryptoRequest
  <2>2. callback'[c] # "recv"
    BY <1>0, <2>1 DEF SetCallback, TypeOK
  <2>3. At("wait")'
    BY <1>0, <2>1, GotoOne
  <2> QED
    BY <2>2, <2>3 DEF Unnested, At
<1>5. CASE CryptoResponse
  <2>1. /\ stack # <<>> /\ tpcb = c /\ SetCallback(c, "recv") /\ Goto("answered")
    BY <1>5, TopType DEF CryptoResponse, CallbackBack
  <2>2. callback'[c] # "crypto"
    BY <1>0, <2>1 DEF SetCallback, TypeOK
  <2>3. At("answered")'
    BY <1>0, <2>1, GotoOne
  <2> QED
    BY <2>2, <2>3 DEF Unnested, At
<1>6. ASSUME NEW from \in {"trap", "answered"},
             NEW to \in {"trap", "request", "done"},
             stack # <<>>, Top.at = from, Goto(to), callback' = callback
      PROVE  Unnested(c)'
  <2>1. At(to)'
    BY <1>0, <1>6, GotoOne
  <2> QED
    BY <1>6, <2>1 DEF Unnested, At
<1>7. CASE GetCryptoChallenge \/ UpdateKey \/ CheckResponse
  BY <1>6, <1>7 DEF GetCryptoChallenge, UpdateKey, CheckResponse
<1>8. CASE Reply
  <2>1. stack # <<>> /\ Top.at = "done" /\ callback' = callback
    BY <1>8 DEF Reply, normalVars
  <2>2. stack' = <<>>
    BY <1>0, <1>8, <2>1, EmptySeq DEF Reply, TypeOK
  <2> QED
    BY <2>1, <2>2 DEF Unnested
<1>9. CASE \/ \E k \in Commands, w \in Wants : SendCommand(c, k, w)
           \/ ClientStep(c) \/ Close(c) \/ RecvOther(c) \/ RecvAnswer(c)
           \/ UNCHANGED vars
  BY <1>1, <1>9
  DEF SendCommand, ClientStep, Rekey, Answer, GetResult, Close, RecvOther, RecvAnswer,
      vars, normalVars
<1> QED
  BY <1>2, <1>3, <1>4, <1>5, <1>7, <1>8, <1>9 DEF Next, BoardStep, Receive

LEMMA AlwaysUnnested ==
  ASSUME NEW c, Clients = {c}
  PROVE  Spec => []Unnested(c)
<1>1. Init => Unnested(c)
  BY DEF Init, Unnested
<1>2. TypeOK /\ Unnested(c) /\ [Next]_vars => Unnested(c)'
  BY UnnestedStep
<1> QED
  BY <1>1, <1>2, Typing, PTL DEF Spec

(* "Set our callback back" holds for a client that is alone, whatever      *)
(* happens to it: only nested accesses mix the connections up, which is    *)
(* the finding of trustio_callback.                                        *)
THEOREM CallbackOfOneClient ==
  ASSUME NEW c, Clients = {c}
  PROVE  Spec => []CallbackRestored
<1>1. Unnested(c) => CallbackRestored
  BY DEF Unnested, CallbackRestored
<1> QED
  BY <1>1, AlwaysUnnested, PTL
-----------------------------------------------------------------------------
(***************************************************************************)
(* An answer in two pieces is one message too many, for as long as the     *)
(* connection lives: the board returns one message for each that it        *)
(* receives, and so does the client, unless it comes to rest.              *)
(***************************************************************************)
AtRest(c) == IF cpc[c] = "idle" THEN 1 ELSE 0
BoardsTurn == IF Polling THEN 0 ELSE 1

InFlight(c) ==
  Len(toBoard[c]) + Len(toClient[c]) + AtRest(c) + BoardsTurn

Surplus(c) == InFlight(c) >= 2

(* The connection of a client that has not closed it is open.              *)
Connected(c) ==
  cpc[c] # "closed" =>
    callback[c] # "none" /\ \A i \in DOMAIN toBoard[c] : toBoard[c][i].kind # "fin"

LEMMA Lengths ==
  ASSUME TypeOK, NEW c \in Clients
  PROVE  /\ Len(toBoard[c]) \in Nat /\ Len(toClient[c]) \in Nat
         /\ toBoard[c] # <<>> /\ Taken(c) => Len(toBoard'[c]) = Len(toBoard[c]) - 1
         /\ toClient[c] # <<>> /\ Received(c) =>
              Len(toClient'[c]) = Len(toClient[c]) - 1
         /\ \A m : Write(c, m) /\ Open(c) => Len(toClient'[c]) = Len(toClient[c]) + 1
         /\ \A m : SendBlock(c, m) => Len(toBoard'[c]) >= Len(toBoard[c]) + 1
<1>1. toBoard[c] \in Seq(BoardSegments) /\ toClient[c] \in Seq(ClientSegments)
  BY DEF TypeOK
<1>2. ASSUME NEW m, SendBlock(c, m)
      PROVE  Len(toBoard'[c]) >= Len(toBoard[c]) + 1
  <2>1. PICK segments \in {<<m>>, <<Segment("part"), Segment("part")>>} :
          toBoard' = [toBoard EXCEPT ![c] = @ \o segments]
    BY <1>2 DEF SendBlock
  <2>2. Len(toBoard'[c]) = Len(toBoard[c] \o segments)
    BY <2>1 DEF TypeOK
  <2>3. CASE segments = <<m>>
    BY <1>1, <2>2, <2>3
  <2>4. CASE segments = <<Segment("part"), Segment("part")>>
    BY <1>1, <2>2, <2>4
  <2> QED
    BY <2>1, <2>3, <2>4
<1>3. ASSUME NEW m, Write(c, m), Open(c)
      PROVE  Len(toClient'[c]) = Len(toClient[c]) + 1
  BY <1>1, <1>3 DEF Write, TypeOK
<1>4. toBoard[c] # <<>> /\ Taken(c) => Len(toBoard'[c]) = Len(toBoard[c]) - 1
  BY <1>1 DEF Taken, TypeOK
<1>5. toClient[c] # <<>> /\ Received(c) => Len(toClient'[c]) = Len(toClient[c]) - 1
  BY <1>1 DEF Received, TypeOK
<1> QED
  BY <1>1, <1>2, <1>3, <1>4, <1>5

LEMMA SentBlock ==
  ASSUME TypeOK, NEW c \in Clients, Rekey(c) \/ Answer(c)
  PROVE  \E m \in Blocks : SendBlock(c, m)
<1>1. CASE Answer(c)
  BY <1>1, AnswerType
<1>2. CASE Rekey(c)
  <2> DEFINE n == fresh + 1
             a == aes[c]
             plain == [kind |-> "key", key |-> n]
  <2>1. n \in Int /\ a \in Contexts
    BY DEF TypeOK
  <2>2. plain \in Plains
    BY <2>1 DEF Plains
  <2>3. SendBlock(c, Block(a, plain, n))
    BY <1>2 DEF Rekey
  <2> HIDE DEF n, a, plain
  <2> QED
    BY <2>1, <2>2, <2>3, BlockType
<1> QED
  BY <1>1, <1>2

LEMMA ConnectedStep ==
  ASSUME TypeOK, NEW c \in Clients, Connected(c), [Next]_vars
  PROVE  Connected(c)'
<1>1. CASE cpc'[c] = "closed"
  BY <1>1 DEF Connected
<1>2. ASSUME cpc'[c] # "closed" PROVE cpc[c] # "closed"
  BY <1>2, Closed
<1>3. ASSUME cpc'[c] # "closed", UNCHANGED <<callback, toBoard>>
      PROVE  Connected(c)'
  BY <1>2, <1>3 DEF Connected
<1>4. ASSUME NEW d \in Clients,
             \/ \E k \in Commands, w \in Wants : SendCommand(d, k, w)
             \/ Rekey(d) \/ Answer(d),
             cpc'[c] # "closed"
      PROVE  Connected(c)'
  <2>1. callback' = callback
    BY <1>4 DEF SendCommand, Rekey, Answer, normalVars
  <2>2. /\ toBoard' \in [Clients -> Seq(BoardSegments)]
        /\ \A i \in DOMAIN toBoard'[c] :
             \/ \E j \in DOMAIN toBoard[c] : toBoard'[c][i] = toBoard[c][j]
             \/ toBoard'[c][i].kind # "fin"
    <3>1. CASE \E k \in Commands, w \in Wants : SendCommand(d, k, w)
      <4>1. PICK k \in Commands :
              toBoard' = [toBoard EXCEPT ![d] = Append(@, [kind |-> "cmd", cmd |-> k])]
        BY <3>1 DEF SendCommand
      <4> DEFINE m == [kind |-> "cmd", cmd |-> k]
      <4>2. m \in BoardSegments /\ m.kind # "fin"
        BY DEF BoardSegments
      <4> HIDE DEF m
      <4>3. toBoard' = [toBoard EXCEPT ![d] = Append(@, m)]
        BY <4>1 DEF m
      <4> QED
        BY <4>2, <4>3, AppendBoardType
    <3>2. CASE Rekey(d) \/ Answer(d)
      <4>1. PICK m : SendBlock(d, m) /\ m \in Blocks
        BY <3>2, SentBlock
      <4>2. m.kind # "fin" /\ Segment("part").kind # "fin"
        BY <4>1 DEF Blocks, Segment
      <4> QED
        BY <4>1, <4>2, SendBlockType
    <3> QED
      BY <1>4, <3>1, <3>2
  <2> QED
    BY <1>2, <1>4, <2>1, <2>2 DEF Connected
<1>5. ASSUME NEW d \in Clients, Receive(d), cpc'[c] # "closed"
      PROVE  Connected(c)'
  <2>1. toBoard[d] # <<>> /\ Taken(d)
    BY <1>5 DEF Receive, RecvCommand, RecvOther, RecvAnswer, RecvClose, Incoming
  <2>2. \A i \in DOMAIN toBoard'[c] :
          \E j \in DOMAIN toBoard[c] : toBoard'[c][i] = toBoard[c][j]
    BY <2>1, TakenType
  <2>3. CASE RecvClose(d)
    <3>1. Segment("fin") \in Incoming(d)
      BY <2>3 DEF RecvClose
    <3>2. d # c
      BY <1>2, <1>5, <3>1, IncomingType DEF Connected, Segment, TypeOK
    <3> QED
      BY <1>2, <1>5, <2>2, <2>3, <3>2 DEF Connected, RecvClose
  <2>4. CASE ~RecvClose(d)
    <3>1. callback' = callback
      BY <1>5, <2>4 DEF Receive, RecvCommand, RecvOther, RecvAnswer
    <3> QED
      BY <1>2, <1>5, <2>2, <3>1 DEF Connected
  <2> QED
    BY <2>3, <2>4
<1>6. ASSUME CryptoRequest \/ CryptoResponse, cpc'[c] # "closed"
      PROVE  Connected(c)'
  <2>1. toBoard' = toBoard /\ \E f \in {"crypto", "recv"} : SetCallback(tpcb, f)
    BY <1>6 DEF CryptoRequest, CryptoResponse, CallbackBack, netVars
  <2>2. callback[c] # "none" => callback'[c] # "none"
    BY <2>1 DEF SetCallback, TypeOK
  <2> QED
    BY <1>2, <1>6, <2>1, <2>2 DEF Connected
<1>7. CASE \/ \E d \in Clients : GetResult(d)
           \/ Reply \/ GetCryptoChallenge \/ UpdateKey \/ CheckResponse \/ UNCHANGED vars
  <2>1. UNCHANGED <<callback, toBoard>>
    BY <1>7 DEF GetResult, Reply, GetCryptoChallenge, UpdateKey, CheckResponse, vars,
       normalVars, netVars
  <2> QED
    BY <1>1, <1>3, <2>1
<1>8. ASSUME NEW d \in Clients, Close(d), cpc'[c] # "closed"
      PROVE  Connected(c)'
  <2>1. d # c
    BY <1>8 DEF Close, TypeOK
  <2> QED
    BY <1>2, <1>8, <2>1 DEF Close, Connected, TypeOK, normalVars
<1> QED
  BY <1>1, <1>4, <1>5, <1>6, <1>7, <1>8 DEF Next, ClientStep, BoardStep

(* Whatever they do, the client and the board pass each message on.        *)
LEMMA FlightKept ==
  ASSUME NEW c, Clients = {c}, "full" \notin Events,
         TypeOK, Unnested(c), Connected(c), cpc'[c] # "closed", [Next]_vars
  PROVE  InFlight(c)' >= InFlight(c)
<1> DEFINE up == Len(toBoard[c])
           down == Len(toClient[c])
           rest == AtRest(c)
           turn == BoardsTurn
           up1 == Len(toBoard'[c])
           down1 == Len(toClient'[c])
           rest1 == AtRest(c)'
           turn1 == BoardsTurn'
<1>1. c \in Clients /\ cpc[c] # "closed" /\ callback[c] # "none" /\ Open(c)
  BY Closed DEF Connected, Open
<1>2. /\ up \in Nat /\ down \in Nat /\ rest \in Nat /\ turn \in Nat
      /\ up1 \in Nat /\ down1 \in Nat /\ rest1 \in Nat /\ turn1 \in Nat
  <2>1. TypeOK'
    BY TypeStep
  <2> QED
    BY <1>1, <2>1 DEF TypeOK, AtRest, BoardsTurn
<1>3. rest <= 1 /\ turn <= 1
  BY DEF AtRest, BoardsTurn
<1>4. /\ toBoard[c] # <<>> /\ Taken(c) => up1 = up - 1
      /\ \A m : SendBlock(c, m) => up1 >= up + 1
      /\ toBoard' = toBoard => up1 = up
  BY <1>1, Lengths
<1>5. /\ toClient[c] # <<>> /\ Received(c) => down1 = down - 1
      /\ \A m : Write(c, m) => down1 = down + 1
      /\ toClient' = toClient => down1 = down
  BY <1>1, Lengths
<1>6. /\ cpc'[c] = cpc[c] => rest1 = rest
      /\ cpc[c] # "idle" => rest = 0
      /\ cpc'[c] = "idle" => rest1 = 1
  BY DEF AtRest
<1>7. /\ UNCHANGED <<stack, response>> => turn1 = turn
      /\ Polling => turn = 0
      /\ ~Polling' => turn1 = 1
  BY DEF BoardsTurn, Polling, Top
<1> HIDE DEF up, down, rest, turn, up1, down1, rest1, turn1
<1>8. SUFFICES up1 + down1 + rest1 + turn1 >= up + down + rest + turn
  BY DEF InFlight, up, down, rest, turn, up1, down1, rest1, turn1
<1>9. CASE \E k \in Commands, w \in Wants : SendCommand(c, k, w)
  <2>1. PICK k \in Commands :
          toBoard' = [toBoard EXCEPT ![c] = Append(@, [kind |-> "cmd", cmd |-> k])]
    BY <1>9 DEF SendCommand
  <2>2. up1 = up + 1
    BY <1>1, <2>1 DEF TypeOK, up, up1
  <2>3. down1 = down /\ turn1 = turn
    BY <1>5, <1>7, <1>9 DEF SendCommand, normalVars
  <2> QED
    BY <1>2, <1>3, <2>2, <2>3
<1>10. CASE Rekey(c) \/ Answer(c)
  <2>1. /\ toClient[c] # <<>> /\ Received(c) /\ \E m : SendBlock(c, m)
        /\ UNCHANGED <<stack, response>> /\ cpc[c] # "idle"
    BY <1>1, <1>10, SentBlock DEF Rekey, Answer, normalVars
  <2>2. up1 >= up + 1 /\ down1 = down - 1 /\ turn1 = turn /\ rest = 0
    BY <1>4, <1>5, <1>6, <1>7, <2>1
  <2> QED
    BY <1>2, <2>2
<1>11. CASE GetResult(c)
  <2>1. /\ toClient[c] # <<>> /\ Received(c) /\ cpc[c] # "idle" /\ cpc'[c] = "idle"
        /\ UNCHANGED <<toBoard, stack, response>>
    BY <1>1, <1>11 DEF GetResult, normalVars, TypeOK
  <2>2. up1 = up /\ down1 = down - 1 /\ rest = 0 /\ rest1 = 1 /\ turn1 = turn
    BY <1>4, <1>5, <1>6, <1>7, <2>1
  <2> QED
    BY <1>2, <2>2
<1>12. CASE Receive(c)
  <2>1. toBoard[c] # <<>> /\ Taken(c) /\ Polling /\ cpc' = cpc
    BY <1>12 DEF Receive, RecvCommand, RecvOther, RecvAnswer, RecvClose, Incoming,
       clientVars
  <2>2. up1 = up - 1 /\ turn = 0 /\ rest1 = rest
    BY <1>4, <1>6, <1>7, <2>1
  <2>3. CASE RecvCommand(c)
    <3>1. /\ toClient' = toClient /\ callback[c] = "recv"
          /\ \E m : stack' = Append(stack, Trapped(c, m))
      BY <2>3 DEF RecvCommand
    <3>2. stack = <<>>
      BY <2>1, <3>1 DEF Polling, Unnested
    <3>3. ~Polling'
      BY <3>1, <3>2 DEF Polling, Top, Trapped
    <3>4. down1 = down /\ turn1 = 1
      BY <1>5, <1>7, <3>1, <3>3
    <3> QED
      BY <1>2, <2>2, <3>4
  <2>4. CASE RecvOther(c)
    <3>1. Write(c, Segment("echo")) /\ UNCHANGED <<stack, response>>
      BY <2>4 DEF RecvOther
    <3>2. down1 = down + 1 /\ turn1 = turn
      BY <1>5, <1>7, <3>1
    <3> QED
      BY <1>2, <2>2, <3>2
  <2>5. CASE RecvAnswer(c)
    <3>1. /\ UNCHANGED <<toClient, stack>> /\ response' \in {1, -1}
          /\ callback[c] = "crypto"
      BY <2>5 DEF RecvAnswer
    <3>2. ~Polling'
      BY <3>1 DEF Unnested, Polling, Top
    <3>3. down1 = down /\ turn1 = 1
      BY <1>5, <1>7, <3>1, <3>2
    <3> QED
      BY <1>2, <2>2, <3>3
  <2>6. ~RecvClose(c)
    <3>1. ASSUME Segment("fin") \in Incoming(c) PROVE FALSE
      BY <1>1, <3>1, IncomingType DEF Connected, Segment, TypeOK
    <3> QED
      BY <3>1 DEF RecvClose
  <2> QED
    BY <1>12, <2>3, <2>4, <2>5, <2>6 DEF Receive
<1>13. CASE CryptoRequest \/ Reply
  <2>1. cpc' = cpc /\ toBoard' = toBoard /\ \E m : Write(c, m)
    BY <1>1, <1>13, TopType DEF CryptoRequest, Reply, Frames, clientVars
  <2>2. up1 = up /\ down1 = down + 1 /\ rest1 = rest
    BY <1>4, <1>5, <1>6, <2>1
  <2> QED
    BY <1>2, <1>3, <2>2
<1>14. CASE CryptoResponse \/ GetCryptoChallenge \/ UpdateKey \/ CheckResponse
  <2>1. PICK to \in {"trap", "request", "answered", "done"} : stack # <<>> /\ Goto(to)
    BY <1>14 DEF CryptoResponse, GetCryptoChallenge, UpdateKey, CheckResponse
  <2>2. ~Polling'
    BY <2>1, GotoType DEF Polling
  <2>3. cpc' = cpc /\ UNCHANGED <<toBoard, toClient>>
    BY <1>14 DEF CryptoResponse, GetCryptoChallenge, UpdateKey, CheckResponse,
       clientVars, netVars
  <2>4. up1 = up /\ down1 = down /\ rest1 = rest /\ turn1 = 1
    BY <1>4, <1>5, <1>6, <1>7, <2>2, <2>3
  <2> QED
    BY <1>2, <1>3, <2>4
<1>15. CASE UNCHANGED vars
  <2>1. UNCHANGED <<cpc, toBoard, toClient, stack, response>>
    BY <1>15 DEF vars, clientVars, netVars, normalVars
  <2>2. up1 = up /\ down1 = down /\ rest1 = rest /\ turn1 = turn
    BY <1>4, <1>5, <1>6, <1>7, <2>1
  <2> QED
    BY <1>2, <2>2
<1>16. ~Close(c)
  BY <1>1 DEF Close, TypeOK
<1> QED
  BY <1>9, <1>10, <1>11, <1>12, <1>13, <1>14, <1>15, <1>16
  DEF Next, ClientStep, BoardStep

LEMMA AlwaysConnected ==
  ASSUME NEW c \in Clients
  PROVE  Spec => []Connected(c)
<1>1. Init => Connected(c)
  BY DEF Init, Connected
<1>2. TypeOK /\ Connected(c) /\ [Next]_vars => Connected(c)'
  BY ConnectedStep
<1> QED
  BY <1>1, <1>2, Typing, PTL DEF Spec

LEMMA SurplusStays ==
  ASSUME NEW c, Clients = {c}, "full" \notin Events,
         TypeOK, Unnested(c), Connected(c), Surplus(c), [Next]_vars
  PROVE  cpc'[c] = "closed" \/ Surplus(c)'
<1> SUFFICES ASSUME cpc'[c] # "closed" PROVE Surplus(c)'
  OBVIOUS
<1> DEFINE n == InFlight(c)
           n1 == InFlight(c)'
<1>1. n1 >= n
  BY FlightKept
<1>2. n \in Nat /\ n1 \in Nat
  <2>1. TypeOK'
    BY TypeStep
  <2> QED
    BY <2>1 DEF TypeOK, InFlight, AtRest, BoardsTurn
<1>3. n >= 2
  BY DEF Surplus
<1> HIDE DEF n, n1
<1>4. n1 >= 2
  BY <1>1, <1>2, <1>3
<1> QED
  BY <1>4 DEF Surplus, n1
-----------------------------------------------------------------------------
(* Both together.                                                          *)

LEMMA StaysInStep ==
  ASSUME NEW c, Clients = {c}, Events \subseteq {"button", "close", "split"},
         TypeOK, InStep(c), [Next]_vars,
         Rekey(c) \/ Answer(c) => Len(toBoard'[c]) = 1
  PROVE  InStep(c)'
<1> c \in Clients
  OBVIOUS
<1>1. CASE cpc[c] = "closed"
  BY <1>1, Closed DEF InStep
<1>2. CASE Close(c)
  BY <1>2 DEF Close, TypeOK, InStep
<1>3. CASE UNCHANGED vars
  <2> UNCHANGED <<cpc, aes, approvals, toBoard, toClient, callback, response,
                  nsChallenge, stack, key, ctx, ready, updating, challenge, accesses>>
    BY <1>3 DEF vars, clientVars, netVars, normalVars, monitorVars
  <2>1. Settled(c)' = Settled(c) /\ Asks(c)' = Asks(c)
    BY DEF Settled, Chain, Asks, Performed, ChallengeOfTop, Top
  <2>2. \A m : Answers(c, m)' = Answers(c, m)
    BY DEF Answers, Performed, ChallengeOfTop, Top, Matches
  <2>3. /\ Resting(c)' = Resting(c) /\ Commanding(c)' = Commanding(c)
        /\ Trapping(c)' = Trapping(c) /\ Requesting(c)' = Requesting(c)
        /\ Asking(c)' = Asking(c) /\ Finishing(c)' = Finishing(c)
        /\ Replying(c)' = Replying(c)
    BY <2>1
    DEF Resting, Commanding, Trapping, Requesting, Asking, Finishing, Replying, Line, At,
        Top
  <2>4. Answers(c, nsChallenge)' = Answers(c, nsChallenge)
    BY DEF Answers, Performed, ChallengeOfTop, Top, Matches
  <2>5. Answers(c, Head(toBoard[c]))' = Answers(c, Head(toBoard[c]))
    BY DEF Answers, Performed, ChallengeOfTop, Top, Matches
  <2>6. Answering(c)' = Answering(c) /\ Answered(c)' = Answered(c)
    BY <2>4, <2>5 DEF Answering, Answered, Line, At, Top
  <2> QED
    BY <2>3, <2>6 DEF InStep
<1>4. CASE /\ cpc[c] # "closed"
           /\ \/ \E k \in Commands, w \in Wants : SendCommand(c, k, w)
              \/ GetResult(c) \/ Receive(c)
  BY <1>4, SendsInStep, ResultInStep, ReceiveInStep
<1>5. CASE Rekey(c) \/ Answer(c)
  BY <1>5, RekeyInStep, AnswerInStep
<1>6. CASE cpc[c] # "closed" /\ BoardStep
  BY <1>6, RequestInStep, ResponseInStep, ReplyInStep, ChallengeInStep, KeyInStep,
     CheckInStep
  DEF BoardStep
<1> QED
  BY <1>1, <1>2, <1>3, <1>4, <1>5, <1>6 DEF Next, ClientStep

LEMMA StepsInStep ==
  ASSUME NEW c, Clients = {c}, Events \subseteq {"button", "close", "split"},
         TypeOK, InStep(c), [Next]_vars
  PROVE  InStep(c)' \/ Surplus(c)'
<1> c \in Clients
  OBVIOUS
<1> SUFFICES ASSUME Rekey(c) \/ Answer(c), Len(toBoard'[c]) # 1
             PROVE  Surplus(c)'
  BY StaysInStep
<1>1. Len(toBoard'[c]) >= Len(toBoard[c]) + 1
  BY Lengths, SentBlock
<1>2. Len(toBoard'[c]) # 1
  OBVIOUS
<1>3. TypeOK'
  BY TypeStep
<1>4. Surplus(c)'
  <2>1. /\ Len(toBoard[c]) \in Nat
        /\ Len(toBoard'[c]) \in Nat /\ Len(toClient'[c]) \in Nat
    BY <1>3 DEF TypeOK
  <2>2. AtRest(c)' \in Nat /\ BoardsTurn' \in Nat
    BY DEF AtRest, BoardsTurn
  <2> DEFINE b0 == Len(toBoard[c])
             b == Len(toBoard'[c])
             t == Len(toClient'[c])
             q == AtRest(c)'
             w == BoardsTurn'
  <2>3. b # 1 /\ b >= b0 + 1
    BY <1>1, <1>2
  <2> HIDE DEF b0, b, t, q, w
  <2>4. /\ b0 \in Nat /\ b \in Nat /\ t \in Nat
        /\ q \in Nat /\ w \in Nat
    BY <2>1, <2>2 DEF b0, b, t, q, w
  <2>5. b >= 2
    BY <2>3, <2>4
  <2>6. b + t + q + w >= 2
    BY <2>4, <2>5
  <2> QED
    BY <2>6 DEF Surplus, InFlight, b, t, q, w
<1> QED
  BY <1>4

LEMMA StartsInStep ==
  ASSUME NEW c \in Clients, Init
  PROVE  InStep(c)
<1>1. Settled(c) /\ Line(c, <<>>, <<>>, "recv")
  BY DEF Init, Settled, Chain, Line
<1> QED
  BY <1>1 DEF Init, InStep, Resting

(* One client, that may leave, with answers in pieces and the button once  *)
(* there was a challenge: both ends go through each command, and each      *)
(* change of the key, in step.  When an answer came in pieces they do not; *)
(* but then a message is left over, whatever they do, until the connection *)
(* is closed.                                                              *)
THEOREM AlwaysInStep ==
  ASSUME NEW c, Clients = {c}, Events \subseteq {"button", "close", "split"}
  PROVE  Spec => [](InStep(c) \/ Surplus(c))
<1>1. Init => InStep(c)
  BY StartsInStep
<1>2. TypeOK /\ InStep(c) /\ [Next]_vars => InStep(c)' \/ Surplus(c)'
  BY StepsInStep
<1>3. TypeOK /\ Unnested(c) /\ Connected(c) /\ Surplus(c) /\ [Next]_vars =>
        InStep(c)' \/ Surplus(c)'
  BY SurplusStays DEF InStep
<1>4. (Spec => []Unnested(c)) /\ (Spec => []Connected(c))
  BY AlwaysUnnested, AlwaysConnected
<1> QED
  BY <1>1, <1>2, <1>3, <1>4, Typing, PTL DEF Spec

LEMMA QuietInStep ==
  ASSUME TypeOK, NEW c \in Clients, InStep(c) \/ Surplus(c), Quiet(c)
  PROVE  Resting(c)
<1>1. /\ Len(toBoard[c]) = 0 /\ Len(toClient[c]) = 0
      /\ AtRest(c) = 1 /\ BoardsTurn = 0
  BY DEF Quiet, AtRest, BoardsTurn, Polling
<1>2. ~Surplus(c)
  BY <1>1 DEF Surplus, InFlight
<1> QED
  BY <1>2, Phases DEF Quiet

(* So when nothing is going on they hold the same key and are at the same  *)
(* place of the chain, after any number of commands.                       *)
THEOREM ChainsStayTogether ==
  ASSUME NEW c, Clients = {c}, Events \subseteq {"button", "close", "split"}
  PROVE  Spec => []ChainsAgree
<1>1. TypeOK /\ (InStep(c) \/ Surplus(c)) => ChainsAgree
  <2> SUFFICES ASSUME TypeOK, InStep(c) \/ Surplus(c), Quiet(c)
               PROVE  aes[c] = Chain
    BY DEF ChainsAgree, Chain
  <2> QED
    BY QuietInStep DEF Resting, Settled
<1> QED
  BY <1>1, AlwaysInStep, Typing, PTL

(* ... and every access the client approved was performed: no answer is    *)
(* lost, taken for another one, or refused.                                *)
THEOREM ApprovedArePerformed ==
  ASSUME NEW c, Clients = {c}, Events \subseteq {"button", "close", "split"}
  PROVE  Spec => []ApprovalsTakeEffect
<1>1. TypeOK /\ (InStep(c) \/ Surplus(c)) => ApprovalsTakeEffect
  <2> SUFFICES ASSUME TypeOK, InStep(c) \/ Surplus(c), Quiet(c)
               PROVE  \A a \in approvals : Performed(a)
    BY DEF ApprovalsTakeEffect, Performed
  <2> QED
    BY QuietInStep DEF Resting, Settled
<1> QED
  BY <1>1, AlwaysInStep, Typing, PTL

(* The context that is set up is one of the monitor's key.                 *)
ContextOfKey == ready => ctx.key = key

LEMMA AlwaysContextOfKey == Spec => []ContextOfKey
<1>1. Init => ContextOfKey
  BY DEF Init, ContextOfKey
<1>2. TypeOK /\ ContextOfKey /\ [Next]_vars => ContextOfKey'
  <2> SUFFICES ASSUME TypeOK, ContextOfKey, [Next]_vars PROVE ContextOfKey'
    OBVIOUS
  <2>0. \A a \in Contexts : \A m : After(a, m).key = a.key
    BY DEF After, Contexts
  <2>1. CASE GetCryptoChallenge
    <3>1. CASE Challenge /\ key' = key
      <4> DEFINE a == IF ready THEN ctx ELSE [key |-> key, last |-> Vector]
      <4>1. a \in Contexts /\ a.key = key
        BY DEF TypeOK, Contexts, Vector, ContextOfKey
      <4>2. \E m : ctx' = After(a, m)
        BY <3>1 DEF Challenge
      <4> QED
        BY <2>0, <3>1, <4>1, <4>2 DEF ContextOfKey
    <3>2. CASE UNCHANGED <<ctx, ready, key>>
      BY <3>2 DEF ContextOfKey
    <3> QED
      BY <2>1, <3>1, <3>2 DEF GetCryptoChallenge
  <2>2. CASE UpdateKey
    BY <2>2 DEF UpdateKey, DropContext, ContextOfKey
  <2>3. CASE CheckResponse
    BY <2>0, <2>3 DEF CheckResponse, ContextOfKey, TypeOK
  <2>4. CASE UNCHANGED <<ctx, ready, key>>
    BY <2>4 DEF ContextOfKey
  <2> QED
    BY <2>1, <2>2, <2>3, <2>4
    DEF Next, SendCommand, ClientStep, Rekey, Answer, GetResult, Close, Receive,
        RecvCommand, RecvOther, RecvAnswer, RecvClose, BoardStep, CryptoRequest,
        CryptoResponse, Reply, vars, monitorVars
<1> QED
  BY <1>1, <1>2, Typing, PTL DEF Spec

(* "Key updated!" holds as long as the button is not pressed at the very   *)
(* first access, which is the finding of trustio_first.                    *)
THEOREM KeysStayEqual ==
  ASSUME NEW c, Clients = {c}, Events \subseteq {"button", "close", "split"}
  PROVE  Spec => []KeysAgree
<1>1. ChainsAgree /\ ContextOfKey => KeysAgree
  BY DEF ChainsAgree, ContextOfKey, KeysAgree
<1> QED
  BY <1>1, ChainsStayTogether, AlwaysContextOfKey, PTL
-----------------------------------------------------------------------------
(***************************************************************************)
(* Whose turn it is.                                                       *)
(***************************************************************************)

(* The board can go on: with its access, or by receiving a segment.        *)
BoardCanAct ==
  \/ stack # <<>> /\ (Top.at = "wait" => response # 0)
  \/ Polling /\ \E c \in Clients : toBoard[c] # <<>> /\ callback[c] # "none"

(* While the client waits for the board, the board can go on, or the       *)
(* client has something to read: the two never wait for each other.        *)
NeverBothWait ==
  \A c \in Clients : cpc[c] \notin {"idle", "closed"} =>
    BoardCanAct \/ toClient[c] # <<>>

LEMMA TurnInStep ==
  ASSUME TypeOK, NEW c \in Clients, InStep(c), cpc[c] \notin {"idle", "closed"},
         toClient[c] = <<>>
  PROVE  BoardCanAct
<1>0. \A w : At(w) => stack # <<>> /\ Top.at = w
  BY DEF At
<1>1. ~Resting(c) /\ ~Replying(c) /\ ~Asking(c)
  BY DEF Resting, Replying, Asking, Line
<1>2. CASE Commanding(c) \/ Answering(c)
  <2>1. \E m : toBoard[c] = <<m>>
    BY <1>2 DEF Commanding, Answering, Line
  <2>2. Polling /\ callback[c] # "none"
    BY <1>0, <1>2 DEF Commanding, Answering, Polling, Line
  <2> QED
    BY <2>1, <2>2 DEF BoardCanAct
<1>3. CASE Trapping(c) \/ Requesting(c) \/ Answered(c) \/ Finishing(c)
  <2>1. stack # <<>> /\ (Top.at = "wait" => response # 0)
    BY <1>0, <1>3 DEF Trapping, Requesting, Answered, Finishing
  <2> QED
    BY <2>1 DEF BoardCanAct
<1> QED
  BY <1>1, <1>2, <1>3 DEF InStep

LEMMA TurnInSurplus ==
  ASSUME TypeOK, NEW c \in Clients, Connected(c), Surplus(c),
         cpc[c] \notin {"idle", "closed"}, toClient[c] = <<>>
  PROVE  BoardCanAct
<1>1. CASE ~Polling
  BY <1>1 DEF Polling, BoardCanAct
<1>2. CASE Polling
  <2>1. Len(toClient[c]) = 0 /\ AtRest(c) = 0 /\ BoardsTurn = 0
    BY <1>2 DEF AtRest, BoardsTurn
  <2>2. toBoard[c] # <<>>
    BY <2>1 DEF Surplus, InFlight
  <2> QED
    BY <1>2, <2>2 DEF Connected, BoardCanAct
<1> QED
  BY <1>1, <1>2

(* With one client a command never ends in both waiting for each other,    *)
(* neither in the exchange of a key, nor when an answer comes in pieces,   *)
(* nor in the commands after that (crypto_request, send_cmd_trustio).      *)
THEOREM NoMutualWait ==
  ASSUME NEW c, Clients = {c}, Events \subseteq {"button", "close", "split"}
  PROVE  Spec => []NeverBothWait
<1>1. TypeOK /\ Connected(c) /\ (InStep(c) \/ Surplus(c)) => NeverBothWait
  BY TurnInStep, TurnInSurplus DEF NeverBothWait
<1>2. Spec => []Connected(c)
  BY AlwaysConnected
<1> QED
  BY <1>1, <1>2, AlwaysInStep, Typing, PTL
-----------------------------------------------------------------------------
(***************************************************************************)
(* How far a command has come.                                             *)
(***************************************************************************)

StepsLeft(c) ==
  IF stack = <<>>
  THEN IF toBoard[c] # <<>> THEN 10 ELSE IF toClient[c] # <<>> THEN 1 ELSE 0
  ELSE IF Top.at = "trap" THEN 9
  ELSE IF Top.at = "request" THEN 8
  ELSE IF Top.at = "answered" THEN 4
  ELSE IF Top.at = "done" THEN 2
  ELSE IF response # 0 THEN 5 ELSE IF toBoard[c] # <<>> THEN 6 ELSE 7

(* The monitor may still ask for a key first, or is being given one.       *)
KeyAhead(c) ==
  \/ updating = 1
  \/ updating = 0 /\ IF stack = <<>> THEN toBoard[c] # <<>> ELSE Top.at = "trap"

Rank(c) == StepsLeft(c) + IF KeyAhead(c) THEN 10 ELSE 0

(* The rank in each phase; the exchange of a key adds ten.                 *)
Extra == IF updating = 1 THEN 10 ELSE 0

LEMMA RankOfPhase ==
  ASSUME TypeOK, NEW c \in Clients
  PROVE  /\ Commanding(c) => Rank(c) = 20
         /\ Trapping(c) => Rank(c) = IF updating = 0 THEN 19 ELSE 9
         /\ Requesting(c) => Rank(c) = 8 + Extra
         /\ Asking(c) => Rank(c) = 7 + Extra
         /\ Answering(c) => Rank(c) = 6 + Extra
         /\ Answered(c) /\ At("wait") => Rank(c) = 5 + Extra
         /\ Answered(c) /\ At("answered") => Rank(c) = 4 + Extra
         /\ Finishing(c) => Rank(c) = 2
         /\ Replying(c) => Rank(c) = 1
<1>0. \A w : At(w) => stack # <<>> /\ Top.at = w
  BY DEF At
<1>1. updating \in {0, 1, 2} /\ Extra \in Nat
  BY DEF TypeOK, Extra
<1> USE DEF Rank, StepsLeft, KeyAhead, Extra, Line
<1>2. Commanding(c) => Rank(c) = 20
  BY DEF Commanding
<1>3. Trapping(c) => Rank(c) = IF updating = 0 THEN 19 ELSE 9
  BY <1>0 DEF Trapping
<1>4. Requesting(c) => Rank(c) = 8 + Extra
  BY <1>0, <1>1 DEF Requesting
<1>5. Asking(c) => Rank(c) = 7 + Extra
  BY <1>0, <1>1 DEF Asking
<1>6. Answering(c) => Rank(c) = 6 + Extra
  BY <1>0, <1>1 DEF Answering
<1>7. Answered(c) /\ At("wait") => Rank(c) = 5 + Extra
  <2>1. Answered(c) /\ At("wait") => response = 1 /\ Top.at = "wait" /\ stack # <<>>
    BY <1>0 DEF Answered
  <2> QED
    BY <1>1, <2>1
<1>8. Answered(c) /\ At("answered") => Rank(c) = 4 + Extra
  BY <1>0, <1>1
<1>9. Finishing(c) => Rank(c) = 2
  BY <1>0 DEF Finishing
<1>10. Replying(c) => Rank(c) = 1
  BY DEF Replying
<1> QED
  BY <1>2, <1>3, <1>4, <1>5, <1>6, <1>7, <1>8, <1>9, <1>10

(* The same after a step to another place of the access.                   *)
LEMMA RankThere ==
  ASSUME TypeOK, TypeOK', NEW c \in Clients,
         NEW where \in {"trap", "request", "wait", "answered", "done"},
         At(where)'
  PROVE  /\ where = "trap" => Rank(c)' = IF updating' = 2 THEN 9 ELSE 19
         /\ where = "request" => Rank(c)' = 8 + Extra'
         /\ where = "wait" => Rank(c)' <= 7 + Extra'
         /\ where = "wait" /\ toBoard'[c] # <<>> => Rank(c)' <= 6 + Extra'
         /\ where = "wait" /\ response' # 0 => Rank(c)' = 5 + Extra'
         /\ where = "answered" => Rank(c)' = 4 + Extra'
         /\ where = "done" => Rank(c)' = 2 + Extra'
<1>0. stack' # <<>> /\ Top'.at = where
  BY DEF At
<1>1. updating' \in {0, 1, 2} /\ Extra' \in {0, 10}
  BY DEF TypeOK, Extra
<1> QED
  BY <1>0, <1>1 DEF Rank, StepsLeft, KeyAhead, Extra

LEMMA ClientAdvances ==
  ASSUME TypeOK, TypeOK', NEW c \in Clients, InStep(c), ClientStep(c)
  PROVE  Rank(c)' < Rank(c)
<1>1. CASE GetResult(c)
  <2>1. /\ cpc[c] = "result" /\ toClient[c] # <<>> /\ Head(toClient[c]).kind # "block"
        /\ Received(c) /\ UNCHANGED <<toBoard, normalVars, stack, monitorVars>>
    BY <1>1 DEF GetResult
  <2>2. Replying(c)
    <3>1. CASE Asking(c)
      BY <2>1, <3>1, ReceivesOne DEF Asking, Asks, Line
    <3> QED
      BY <2>1, <3>1, Phases
  <2>3. toClient'[c] = <<>> /\ toBoard'[c] = <<>> /\ stack' = <<>> /\ updating' = 0
    BY <2>1, <2>2, ReceivesOne DEF Replying, Line, monitorVars
  <2>4. Rank(c)' = 0
    BY <2>3 DEF Rank, StepsLeft, KeyAhead
  <2> QED
    BY <2>2, <2>4, RankOfPhase
<1>2. CASE Rekey(c) \/ Answer(c)
  <2>1. /\ cpc[c] # "closed" /\ cpc[c] # "result" /\ toClient[c] # <<>>
        /\ UNCHANGED <<normalVars, stack, monitorVars>>
    BY <1>2 DEF Rekey, Answer
  <2>2. Asking(c)
    BY <2>1, Phases DEF Replying
  <2>3. At("wait")' /\ Extra' = Extra
    BY <2>1, <2>2 DEF Asking, At, Top, Extra, normalVars, monitorVars
  <2>4. toBoard'[c] # <<>>
    <3>1. Len(toBoard'[c]) >= Len(toBoard[c]) + 1 /\ Len(toBoard[c]) = 0
      BY <1>2, <2>2, Lengths, SentBlock DEF Asking, Line
    <3> QED
      BY <3>1
  <2>5. Extra \in Nat /\ Rank(c)' \in Int
    BY <2>3, <2>4 DEF Extra, Rank, StepsLeft, TypeOK, At
  <2>6. Rank(c)' <= 6 + Extra /\ Rank(c) = 7 + Extra
    BY <2>2, <2>3, <2>4, RankThere, RankOfPhase
  <2> QED
    BY <2>5, <2>6
<1> QED
  BY <1>1, <1>2 DEF ClientStep

LEMMA ReceiveAdvances ==
  ASSUME TypeOK, TypeOK', NEW c \in Clients, InStep(c), cpc[c] # "closed", Receive(c)
  PROVE  Rank(c)' < Rank(c)
<1>0. PICK m \in Incoming(c) : m = Head(toBoard[c]) /\ toBoard[c] # <<>>
  <2>1. Incoming(c) # {}
    BY DEF Receive, RecvCommand, RecvOther, RecvAnswer, RecvClose
  <2> QED
    BY <2>1 DEF Incoming
<1>1. Incoming(c) = {m}
  BY <1>0 DEF Incoming
<1>2. CASE Commanding(c)
  <2>1. PICK k \in Commands : Line(c, <<[kind |-> "cmd", cmd |-> k]>>, <<>>, "recv")
    BY <1>2 DEF Commanding
  <2>2. m = [kind |-> "cmd", cmd |-> k]
    BY <1>0, <2>1 DEF Line
  <2>3. stack' = Append(stack, Trapped(c, m.cmd)) /\ UNCHANGED monitorVars
    BY <1>1, <2>1, <2>2
    DEF Receive, RecvCommand, RecvOther, RecvAnswer, RecvClose, Line, Segment
  <2>4. At("trap")'
    <3>1. stack' = <<Trapped(c, m.cmd)>>
      BY <1>2, <2>3 DEF Commanding
    <3> QED
      BY <3>1 DEF At, Top, Trapped
  <2>5. updating' = 0
    BY <1>2, <2>3 DEF Commanding, monitorVars
  <2> QED
    BY <1>2, <2>4, <2>5, RankThere, RankOfPhase
<1>3. CASE Answering(c)
  <2>1. At("wait") /\ Line(c, <<m>>, <<>>, "crypto") /\ m.kind # "fin"
    BY <1>0, <1>3 DEF Answering, Answers, Blocks
  <2>2. response' # 0 /\ UNCHANGED <<stack, monitorVars>>
    BY <1>1, <2>1
    DEF Receive, RecvCommand, RecvOther, RecvAnswer, RecvClose, Line, Segment
  <2>3. At("wait")' /\ Extra' = Extra /\ Extra \in Nat
    BY <2>1, <2>2 DEF At, Top, Extra, monitorVars
  <2>4. Rank(c)' = 5 + Extra /\ Rank(c) = 6 + Extra
    BY <1>3, <2>2, <2>3, RankThere, RankOfPhase
  <2> QED
    BY <2>3, <2>4
<1> QED
  BY <1>0, <1>2, <1>3, Phases

LEMMA BoardAdvances ==
  ASSUME TypeOK, TypeOK', NEW c \in Clients, Clients = {c},
         "first" \notin Events, InStep(c), cpc[c] # "closed",
         BoardStep
  PROVE  Rank(c)' < Rank(c)
<1>0. /\ Extra \in {0, 10} /\ Extra' \in {0, 10}
      /\ updating' = updating => Extra' = Extra
  BY DEF Extra
<1>1. \A w : At(w) => stack # <<>> /\ Len(stack) = 1
  BY DEF At
<1>2. CASE CryptoRequest
  <2>1. /\ stack # <<>> /\ Top.at = "request" /\ Goto("wait")
        /\ UNCHANGED monitorVars
    BY <1>2 DEF CryptoRequest
  <2>2. Requesting(c) /\ Len(stack) = 1
    BY <1>1, <2>1, Phases DEF Requesting
  <2>3. At("wait")' /\ Extra' = Extra
    BY <1>0, <2>1, <2>2, GotoOne DEF monitorVars
  <2>4. Rank(c)' <= 7 + Extra /\ Rank(c) = 8 + Extra
    BY <2>2, <2>3, RankThere, RankOfPhase
  <2>5. Rank(c)' \in Int
    BY <2>3 DEF At, Rank, StepsLeft
  <2> QED
    BY <1>0, <2>4, <2>5
<1>3. CASE CryptoResponse
  <2>1. /\ stack # <<>> /\ Top.at = "wait" /\ response # 0 /\ Goto("answered")
        /\ UNCHANGED monitorVars
    BY <1>3 DEF CryptoResponse
  <2>2. Answered(c) /\ At("wait")
    BY <1>1, <2>1, Phases DEF Answered, At
  <2>3. At("answered")' /\ Extra' = Extra
    BY <1>0, <1>1, <2>1, <2>2, GotoOne DEF monitorVars
  <2>4. Rank(c)' = 4 + Extra /\ Rank(c) = 5 + Extra
    BY <2>2, <2>3, RankThere, RankOfPhase
  <2> QED
    BY <1>0, <2>4
<1>4. CASE Reply
  <2>1. /\ stack # <<>> /\ Top.at = "done"
        /\ stack' = SubSeq(stack, 1, Len(stack) - 1)
        /\ UNCHANGED <<toBoard, monitorVars>>
    BY <1>4 DEF Reply
  <2>2. Finishing(c) /\ Len(stack) = 1
    BY <1>1, <2>1, Phases DEF Finishing
  <2>3. stack' = <<>>
    BY <2>1, <2>2, EmptySeq DEF TypeOK
  <2>4. toBoard'[c] = <<>> /\ updating' = 0
    BY <2>1, <2>2 DEF Finishing, Line, monitorVars
  <2>5. Rank(c)' \in {0, 1}
    BY <2>3, <2>4 DEF Rank, StepsLeft, KeyAhead
  <2> QED
    BY <2>2, <2>5, RankOfPhase
<1>5. CASE GetCryptoChallenge
  <2>1. stack # <<>> /\ Top.at = "trap" /\ Goto("request")
    BY <1>5 DEF GetCryptoChallenge
  <2>2. Trapping(c) /\ Len(stack) = 1
    BY <1>1, <2>1, Phases DEF Trapping
  <2>3. At("request")'
    BY <2>1, <2>2, GotoOne
  <2>4. Rank(c)' = 8 + Extra'
    BY <2>3, RankThere
  <2>5. CASE updating = 2
    <3>1. updating' = 0 /\ Rank(c) = 9
      BY <1>5, <2>2, <2>5, RankOfPhase DEF GetCryptoChallenge
    <3> QED
      BY <2>4, <3>1 DEF Extra
  <2>6. CASE updating = 0
    <3>1. Rank(c) = 19
      BY <2>2, <2>6, RankOfPhase
    <3> DEFINE r1 == Rank(c)'
               e1 == Extra'
    <3>2. r1 = 8 + e1 /\ e1 \in {0, 10}
      BY <1>0, <2>4
    <3> HIDE DEF r1, e1
    <3>3. r1 < 19
      BY <3>2
    <3> QED
      BY <3>1, <3>3 DEF r1
  <2> QED
    BY <2>2, <2>5, <2>6 DEF Trapping
<1>6. CASE UpdateKey
  <2>1. /\ stack # <<>> /\ Top.at = "answered" /\ updating # 0 /\ Goto("trap")
        /\ updating' = 2
    BY <1>6 DEF UpdateKey
  <2>2. Answered(c) /\ At("answered")
    BY <1>1, <2>1, Phases DEF Answered, At
  <2>3. updating = 1
    BY <2>1, <2>2 DEF Answered, Answers
  <2>4. At("trap")'
    BY <1>1, <2>1, <2>2, GotoOne
  <2>5. Rank(c)' = 9 /\ Rank(c) = 14
    BY <2>1, <2>2, <2>3, <2>4, RankThere, RankOfPhase DEF Extra
  <2> QED
    BY <2>5
<1>7. CASE CheckResponse
  <2>1. /\ stack # <<>> /\ Top.at = "answered" /\ updating = 0 /\ Goto("done")
        /\ updating' = 0
    BY <1>7 DEF CheckResponse
  <2>2. Answered(c) /\ At("answered")
    BY <1>1, <2>1, Phases DEF Answered, At
  <2>3. At("done")'
    BY <1>1, <2>1, <2>2, GotoOne
  <2>4. Rank(c)' = 2 /\ Rank(c) = 4
    BY <2>1, <2>2, <2>3, RankThere, RankOfPhase DEF Extra
  <2> QED
    BY <2>4
<1> QED
  BY <1>2, <1>3, <1>4, <1>5, <1>6, <1>7 DEF BoardStep

(* An answer that is not divided is one segment.                           *)
LEMMA OneSegment ==
  ASSUME TypeOK, NEW c \in Clients, "split" \notin Events, InStep(c),
         Rekey(c) \/ Answer(c)
  PROVE  Len(toBoard'[c]) = 1
<1>1. PICK m : SendBlock(c, m)
  BY SentBlock
<1>2. toBoard[c] = <<>>
  <2>1. cpc[c] \notin {"closed", "result"} /\ toClient[c] # <<>>
    BY DEF Rekey, Answer
  <2> QED
    BY <2>1, Phases DEF Asking, Replying, Line
<1>3. toBoard' = [toBoard EXCEPT ![c] = @ \o <<m>>]
  BY <1>1 DEF SendBlock
<1>4. toBoard'[c] = <<m>>
  BY <1>2, <1>3 DEF TypeOK
<1> QED
  BY <1>4

Nearer ==
  \A c \in Clients :
    cpc[c] \notin {"idle", "closed"} /\ cpc'[c] # "closed" => Rank(c)' < Rank(c)

CommandAdvances == [][Nearer]_vars

(* While a command is under way every step brings it nearer to its end,    *)
(* through the exchange of a key and the second challenge too: after       *)
(* twenty steps, and fewer without the button, the client has its result   *)
(* (crypto_request, check_response, send_cmd_trustio).                     *)
THEOREM CommandsAdvance ==
  ASSUME NEW c, Clients = {c}, Events \subseteq {"button", "close"}
  PROVE  Spec => CommandAdvances /\ [](Rank(c) \in 0 .. 20)
<1>1. Init => InStep(c)
  BY StartsInStep
<1>2. TypeOK /\ InStep(c) /\ [Next]_vars => InStep(c)'
  BY StaysInStep, OneSegment
<1>3. TypeOK => Rank(c) \in 0 .. 20
  <2>1. StepsLeft(c) \in 0 .. 10
    BY DEF StepsLeft
  <2> QED
    BY <2>1 DEF Rank
<1>4. TypeOK /\ TypeOK' /\ InStep(c) /\ [Next]_vars => [Nearer]_vars
  <2> SUFFICES ASSUME TypeOK, TypeOK', InStep(c), Next,
                      cpc[c] \notin {"idle", "closed"}, cpc'[c] # "closed"
               PROVE  Rank(c)' < Rank(c)
    BY DEF Nearer
  <2>1. ~Close(c) /\ \A k \in Commands, w \in Wants : ~SendCommand(c, k, w)
    BY DEF Close, SendCommand, TypeOK
  <2> QED
    BY <2>1, ClientAdvances, ReceiveAdvances, BoardAdvances DEF Next
<1> QED
  BY <1>1, <1>2, <1>3, <1>4, Typing, PTL DEF Spec, CommandAdvances
-----------------------------------------------------------------------------
(***************************************************************************)
(* What the client's test of a challenge is good for.                      *)
(***************************************************************************)

OperationsChecked ==
  \A a \in approvals : a.access.op = a.wanted.op

LEMMA OperationsCheckedStep == OperationsChecked /\ [Next]_vars => OperationsChecked'
<1> SUFFICES ASSUME OperationsChecked, [Next]_vars PROVE OperationsChecked'
  OBVIOUS
<1>1. CASE UNCHANGED approvals
  BY <1>1 DEF OperationsChecked
<1>2. ASSUME NEW c \in Clients, Answer(c)
      PROVE  OperationsChecked'
  <2> DEFINE plain == Decrypted(aes[c], Head(toClient[c]))
             a == [access |-> plain, wanted |-> want[c]]
  <2>1. CASE UNCHANGED approvals
    BY <1>1, <2>1
  <2>2. CASE Valid(c, plain) /\ approvals' = approvals \cup {a}
    BY <2>2 DEF Valid, OperationsChecked
  <2> QED
    BY <1>2, <2>1, <2>2 DEF Answer
<1> QED
  BY <1>1, <1>2
  DEF Next, SendCommand, ClientStep, Rekey, GetResult, Close, Receive, RecvCommand,
    RecvOther, RecvAnswer, RecvClose, BoardStep, CryptoRequest, CryptoResponse, Reply,
    GetCryptoChallenge, UpdateKey, CheckResponse, clientVars, vars

OperationsPermitted ==
  \A i \in DOMAIN accesses :
    \E a \in approvals : a.access = accesses[i] /\ a.wanted.op = accesses[i].op

(* Of "let's make sure it's permitted" this much holds, for any number of  *)
(* clients: the monitor performs an access only if a client that wanted    *)
(* this operation approved it, so a read is never turned into a write.     *)
(* Only the value of a write is not compared: the else of the client's     *)
(* check approves any (trust_io.py:145, send_cmd_trustio).                 *)
THEOREM OnlyWantedOperations == Spec => []OperationsPermitted
<1>1. Init => OperationsChecked
  BY DEF Init, OperationsChecked
<1>2. OperationsChecked /\ AccessesApproved => OperationsPermitted
  BY DEF OperationsChecked, AccessesApproved, OperationsPermitted
<1> QED
  BY <1>1, <1>2, OperationsCheckedStep, Approval, PTL DEF Spec
=============================================================================
