-------------------------- MODULE OpteeRpc_proofs ---------------------------
(***************************************************************************)
(* Proofs about the driver in OpteeRpc, for any number of kernel threads,  *)
(* files and sessions.                                                     *)
(*                                                                         *)
(* DeviceInv: a session that is listed is open for the file that lists it, *)
(* one that is not is in the hands of one worker, and a worker on a file   *)
(* keeps it open.  What the driver does for tee-supplicant leaves all of   *)
(* that alone.                                                             *)
(***************************************************************************)
EXTENDS OpteeRpc, TLAPS

USE DeviceAssumption DEF Files, TrustioCtx

InHand(w) == pc[w] \in {"add", "closing"}

(* A worker on a file keeps it open.                                       *)
WorkersHaveFiles ==
  \A w \in Workers :
    /\ ctx[w] # None => ctx[w] \in Clients /\ file[ctx[w]] = "open"
    /\ pc[w] \in {"open", "add", "close", "closing", "use"} => ctx[w] # None
    /\ pc[w] \in {"idle", "access"} => ctx[w] = None
    /\ pc[w] \in {"add", "closing", "use"} => sess[w] \in Sessions

ListedAreOpen == \A f \in Clients : \A s \in sessList[f] : secure[s] = f

InHandAreOpen ==
  /\ \A w \in Workers :
       InHand(w) => secure[sess[w]] = ctx[w] /\ sess[w] \notin sessList[ctx[w]]
  /\ \A v, w \in Workers : InHand(v) /\ InHand(w) /\ sess[v] = sess[w] => v = w

UsedAreListed ==
  \A w \in Workers :
    pc[w] = "use" /\ w \notin overtaken => sess[w] \in sessList[ctx[w]]

DeviceInv ==
  /\ DeviceTypeOK /\ SupplicantKeepsPlace /\ WorkersHaveFiles
  /\ ListedAreOpen /\ InHandAreOpen /\ UsedAreListed /\ SessionsAccounted

-----------------------------------------------------------------------------
LEMMA DeviceUnchanged ==
  ASSUME DeviceInv, UNCHANGED deviceVars
  PROVE  DeviceInv'
  <1>1. DeviceTypeOK'
    BY DEF DeviceInv, DeviceTypeOK, deviceVars, fileVars, sessVars, workVars
  <1>2. SupplicantKeepsPlace'
    BY DEF DeviceInv, SupplicantKeepsPlace, deviceVars, fileVars, sessVars, workVars
  <1>3. WorkersHaveFiles'
    BY DEF DeviceInv, WorkersHaveFiles, deviceVars, fileVars, sessVars, workVars
  <1>4. ListedAreOpen'
    BY DEF DeviceInv, ListedAreOpen, deviceVars, fileVars, sessVars, workVars
  <1>5. InHandAreOpen'
    BY DEF DeviceInv, InHandAreOpen, InHand, deviceVars, fileVars, sessVars, workVars
  <1>6. UsedAreListed'
    BY DEF DeviceInv, UsedAreListed, deviceVars, fileVars, sessVars, workVars
  <1>7. SessionsAccounted'
    BY DEF DeviceInv, SessionsAccounted, deviceVars, fileVars, sessVars, workVars
  <1> QED BY <1>1, <1>2, <1>3, <1>4, <1>5, <1>6, <1>7 DEF DeviceInv

(* The steps of a file.                                                    *)
LEMMA OpenInv ==
  ASSUME DeviceInv, NEW f \in Files, Open(f)
  PROVE  DeviceInv'
  <1>1. DeviceTypeOK'
    BY DEF DeviceInv, DeviceTypeOK, Open, Vacant, MoveFile, sessVars, workVars
  <1>2. SupplicantKeepsPlace'
    BY DEF DeviceInv, SupplicantKeepsPlace, DeviceTypeOK, Open, Vacant, MoveFile,
           sessVars, workVars
  <1>3. WorkersHaveFiles'
    BY DEF DeviceInv, WorkersHaveFiles, DeviceTypeOK, Open, Vacant, MoveFile, sessVars,
           workVars
  <1>4. ListedAreOpen'
    BY DEF DeviceInv, ListedAreOpen, Open, Vacant, MoveFile, sessVars, workVars
  <1>5. InHandAreOpen'
    BY DEF DeviceInv, InHandAreOpen, InHand, Open, Vacant, MoveFile, sessVars, workVars
  <1>6. UsedAreListed'
    BY DEF DeviceInv, UsedAreListed, Open, Vacant, MoveFile, sessVars, workVars
  <1>7. SessionsAccounted'
    BY DEF DeviceInv, SessionsAccounted, Open, Vacant, MoveFile, sessVars, workVars
  <1> QED BY <1>1, <1>2, <1>3, <1>4, <1>5, <1>6, <1>7 DEF DeviceInv

LEMMA OpenTestsInv ==
  ASSUME DeviceInv, NEW f \in Files, OpenTests(f)
  PROVE  DeviceInv'
  <1>1. DeviceTypeOK'
    BY DEF DeviceInv, DeviceTypeOK, OpenTests, MoveFile, sessVars, workVars
  <1>2. SupplicantKeepsPlace'
    BY DEF DeviceInv, SupplicantKeepsPlace, DeviceTypeOK, OpenTests, MoveFile, sessVars,
           workVars
  <1>3. WorkersHaveFiles'
    BY DEF DeviceInv, WorkersHaveFiles, DeviceTypeOK, OpenTests, MoveFile, sessVars,
           workVars
  <1>4. ListedAreOpen'
    BY DEF DeviceInv, ListedAreOpen, OpenTests, MoveFile, sessVars, workVars
  <1>5. InHandAreOpen'
    BY DEF DeviceInv, InHandAreOpen, InHand, OpenTests, MoveFile, sessVars, workVars
  <1>6. UsedAreListed'
    BY DEF DeviceInv, UsedAreListed, OpenTests, MoveFile, sessVars, workVars
  <1>7. SessionsAccounted'
    BY DEF DeviceInv, SessionsAccounted, OpenTests, MoveFile, sessVars, workVars
  <1> QED BY <1>1, <1>2, <1>3, <1>4, <1>5, <1>6, <1>7 DEF DeviceInv

LEMMA OpenMarksInv ==
  ASSUME DeviceInv, NEW f \in Files, OpenMarks(f)
  PROVE  DeviceInv'
  <1>1. DeviceTypeOK'
    BY DEF DeviceInv, DeviceTypeOK, OpenMarks, MoveFile, sessVars, workVars
  <1>2. SupplicantKeepsPlace'
    BY DEF DeviceInv, SupplicantKeepsPlace, DeviceTypeOK, OpenMarks, MoveFile, sessVars,
           workVars
  <1>3. WorkersHaveFiles'
    BY DEF DeviceInv, WorkersHaveFiles, DeviceTypeOK, OpenMarks, MoveFile, sessVars,
           workVars
  <1>4. ListedAreOpen'
    BY DEF DeviceInv, ListedAreOpen, OpenMarks, MoveFile, sessVars, workVars
  <1>5. InHandAreOpen'
    BY DEF DeviceInv, InHandAreOpen, InHand, OpenMarks, MoveFile, sessVars, workVars
  <1>6. UsedAreListed'
    BY DEF DeviceInv, UsedAreListed, OpenMarks, MoveFile, sessVars, workVars
  <1>7. SessionsAccounted'
    BY DEF DeviceInv, SessionsAccounted, OpenMarks, MoveFile, sessVars, workVars
  <1> QED BY <1>1, <1>2, <1>3, <1>4, <1>5, <1>6, <1>7 DEF DeviceInv

LEMMA OpenNestedInv ==
  ASSUME DeviceInv, NEW f \in Files, OpenNested(f)
  PROVE  DeviceInv'
  <1>1. DeviceTypeOK'
    BY DEF DeviceInv, DeviceTypeOK, OpenNested, Vacant, MoveFile, sessVars, workVars
  <1>2. SupplicantKeepsPlace'
    BY DEF DeviceInv, SupplicantKeepsPlace, DeviceTypeOK, OpenNested, Vacant, MoveFile,
           sessVars, workVars
  <1>3. WorkersHaveFiles'
    BY DEF DeviceInv, WorkersHaveFiles, DeviceTypeOK, OpenNested, Vacant, MoveFile,
           sessVars, workVars
  <1>4. ListedAreOpen'
    BY DEF DeviceInv, ListedAreOpen, OpenNested, Vacant, MoveFile, sessVars, workVars
  <1>5. InHandAreOpen'
    BY DEF DeviceInv, InHandAreOpen, InHand, OpenNested, Vacant, MoveFile, sessVars,
           workVars
  <1>6. UsedAreListed'
    BY DEF DeviceInv, UsedAreListed, OpenNested, Vacant, MoveFile, sessVars, workVars
  <1>7. SessionsAccounted'
    BY DEF DeviceInv, SessionsAccounted, OpenNested, Vacant, MoveFile, sessVars,
           workVars
  <1> QED BY <1>1, <1>2, <1>3, <1>4, <1>5, <1>6, <1>7 DEF DeviceInv

LEMMA ReleaseInv ==
  ASSUME DeviceInv, NEW f \in Files, Release(f)
  PROVE  DeviceInv'
  <1>1. DeviceTypeOK'
    BY DEF DeviceInv, DeviceTypeOK, Release, MoveFile, sessVars, workVars
  <1>2. SupplicantKeepsPlace'
    BY DEF DeviceInv, SupplicantKeepsPlace, DeviceTypeOK, Release, MoveFile, sessVars,
           workVars
  <1>3. WorkersHaveFiles'
    BY DEF DeviceInv, WorkersHaveFiles, DeviceTypeOK, Release, MoveFile, sessVars,
           workVars
  <1>4. ListedAreOpen'
    BY DEF DeviceInv, ListedAreOpen, Release, MoveFile, sessVars, workVars
  <1>5. InHandAreOpen'
    BY DEF DeviceInv, InHandAreOpen, InHand, Release, MoveFile, sessVars, workVars
  <1>6. UsedAreListed'
    BY DEF DeviceInv, UsedAreListed, Release, MoveFile, sessVars, workVars
  <1>7. SessionsAccounted'
    BY DEF DeviceInv, SessionsAccounted, Release, MoveFile, sessVars, workVars
  <1> QED BY <1>1, <1>2, <1>3, <1>4, <1>5, <1>6, <1>7 DEF DeviceInv

LEMMA ReleasedInv ==
  ASSUME DeviceInv, NEW f \in Files, Released(f)
  PROVE  DeviceInv'
  <1>1. DeviceTypeOK'
    BY DEF DeviceInv, DeviceTypeOK, Released, Leaves, MoveFile, sessVars, workVars
  <1>2. SupplicantKeepsPlace'
    BY DEF DeviceInv, SupplicantKeepsPlace, DeviceTypeOK, Released, Leaves, MoveFile,
           sessVars, workVars
  <1>3. WorkersHaveFiles'
    BY DEF DeviceInv, WorkersHaveFiles, DeviceTypeOK, Released, Leaves, MoveFile,
           sessVars, workVars
  <1>4. ListedAreOpen'
    BY DEF DeviceInv, ListedAreOpen, Released, Leaves, MoveFile, sessVars, workVars
  <1>5. InHandAreOpen'
    BY DEF DeviceInv, InHandAreOpen, InHand, Released, Leaves, MoveFile, sessVars,
           workVars
  <1>6. UsedAreListed'
    BY DEF DeviceInv, UsedAreListed, Released, Leaves, MoveFile, sessVars, workVars
  <1>7. SessionsAccounted'
    BY DEF DeviceInv, SessionsAccounted, Released, Leaves, MoveFile, sessVars, workVars
  <1> QED BY <1>1, <1>2, <1>3, <1>4, <1>5, <1>6, <1>7 DEF DeviceInv

-----------------------------------------------------------------------------
(* The steps of a worker.                                                  *)
LEMMA OpenSessionInv ==
  ASSUME DeviceInv, NEW w \in Workers, NEW f \in Clients, 
         OpenSession(w, f)
  PROVE  DeviceInv'
  <1>1. DeviceTypeOK'
    BY DEF DeviceInv, DeviceTypeOK, OpenSession, Move, Begin, fileVars, sessVars
  <1>2. SupplicantKeepsPlace'
    BY DEF DeviceInv, SupplicantKeepsPlace, OpenSession, Move, Begin, fileVars, sessVars
  <1>3. WorkersHaveFiles'
    BY DEF DeviceInv, WorkersHaveFiles, DeviceTypeOK, OpenSession, Move, Begin,
           fileVars, sessVars
  <1>4. ListedAreOpen'
    BY DEF DeviceInv, ListedAreOpen, DeviceTypeOK, OpenSession, Move, Begin, fileVars,
           sessVars
  <1>5. InHandAreOpen'
    BY DEF DeviceInv, InHandAreOpen, InHand, DeviceTypeOK, OpenSession, Move, Begin,
           fileVars, sessVars
  <1>6. UsedAreListed'
    BY DEF DeviceInv, UsedAreListed, DeviceTypeOK, OpenSession, Move, Begin, fileVars,
           sessVars
  <1>7. SessionsAccounted'
    BY DEF DeviceInv, SessionsAccounted, DeviceTypeOK, OpenSession, Move, Begin,
           fileVars, sessVars
  <1> QED BY <1>1, <1>2, <1>3, <1>4, <1>5, <1>6, <1>7 DEF DeviceInv

LEMMA CloseSessionInv ==
  ASSUME DeviceInv, NEW w \in Workers, NEW f \in Clients, NEW s \in Sessions, 
         CloseSession(w, f, s)
  PROVE  DeviceInv'
  <1>1. DeviceTypeOK'
    BY DEF DeviceInv, DeviceTypeOK, CloseSession, Move, Begin, fileVars, sessVars
  <1>2. SupplicantKeepsPlace'
    BY DEF DeviceInv, SupplicantKeepsPlace, CloseSession, Move, Begin, fileVars,
           sessVars
  <1>3. WorkersHaveFiles'
    BY DEF DeviceInv, WorkersHaveFiles, DeviceTypeOK, CloseSession, Move, Begin,
           fileVars, sessVars
  <1>4. ListedAreOpen'
    BY DEF DeviceInv, ListedAreOpen, DeviceTypeOK, CloseSession, Move, Begin, fileVars,
           sessVars
  <1>5. InHandAreOpen'
    BY DEF DeviceInv, InHandAreOpen, InHand, DeviceTypeOK, CloseSession, Move, Begin,
           fileVars, sessVars
  <1>6. UsedAreListed'
    BY DEF DeviceInv, UsedAreListed, DeviceTypeOK, CloseSession, Move, Begin, fileVars,
           sessVars
  <1>7. SessionsAccounted'
    BY DEF DeviceInv, SessionsAccounted, DeviceTypeOK, CloseSession, Move, Begin,
           fileVars, sessVars
  <1> QED BY <1>1, <1>2, <1>3, <1>4, <1>5, <1>6, <1>7 DEF DeviceInv

LEMMA UseSessionInv ==
  ASSUME DeviceInv, NEW w \in Workers, NEW f \in Clients, NEW s \in Sessions, 
         UseSession(w, f, s)
  PROVE  DeviceInv'
  <1>1. DeviceTypeOK'
    BY DEF DeviceInv, DeviceTypeOK, UseSession, Move, Begin, fileVars, sessVars, Listed
  <1>2. SupplicantKeepsPlace'
    BY DEF DeviceInv, SupplicantKeepsPlace, UseSession, Move, Begin, fileVars, sessVars,
           Listed
  <1>3. WorkersHaveFiles'
    BY DEF DeviceInv, WorkersHaveFiles, DeviceTypeOK, UseSession, Move, Begin, fileVars,
           sessVars, Listed
  <1>4. ListedAreOpen'
    BY DEF DeviceInv, ListedAreOpen, DeviceTypeOK, UseSession, Move, Begin, fileVars,
           sessVars, Listed
  <1>5. InHandAreOpen'
    BY DEF DeviceInv, InHandAreOpen, InHand, DeviceTypeOK, UseSession, Move, Begin,
           fileVars, sessVars, Listed
  <1>6. UsedAreListed'
    BY DEF DeviceInv, UsedAreListed, DeviceTypeOK, UseSession, Move, Begin, fileVars,
           sessVars, Listed
  <1>7. SessionsAccounted'
    BY DEF DeviceInv, SessionsAccounted, DeviceTypeOK, UseSession, Move, Begin,
           fileVars, sessVars, Listed
  <1> QED BY <1>1, <1>2, <1>3, <1>4, <1>5, <1>6, <1>7 DEF DeviceInv

LEMMA SessionUsedInv ==
  ASSUME DeviceInv, NEW w \in Workers, 
         SessionUsed(w)
  PROVE  DeviceInv'
  <1>1. DeviceTypeOK'
    BY DEF DeviceInv, DeviceTypeOK, SessionUsed, Move, fileVars, sessVars
  <1>2. SupplicantKeepsPlace'
    BY DEF DeviceInv, SupplicantKeepsPlace, SessionUsed, Move, fileVars, sessVars
  <1>3. WorkersHaveFiles'
    BY DEF DeviceInv, WorkersHaveFiles, DeviceTypeOK, SessionUsed, Move, fileVars,
           sessVars
  <1>4. ListedAreOpen'
    BY DEF DeviceInv, ListedAreOpen, DeviceTypeOK, SessionUsed, Move, fileVars, sessVars
  <1>5. InHandAreOpen'
    BY DEF DeviceInv, InHandAreOpen, InHand, DeviceTypeOK, SessionUsed, Move, fileVars,
           sessVars
  <1>6. UsedAreListed'
    BY DEF DeviceInv, UsedAreListed, DeviceTypeOK, SessionUsed, Move, fileVars, sessVars
  <1>7. SessionsAccounted'
    BY DEF DeviceInv, SessionsAccounted, DeviceTypeOK, SessionUsed, Move, fileVars,
           sessVars
  <1> QED BY <1>1, <1>2, <1>3, <1>4, <1>5, <1>6, <1>7 DEF DeviceInv

LEMMA EndInv ==
  ASSUME DeviceInv, NEW w \in Workers, 
         End(w)
  PROVE  DeviceInv'
  <1>1. DeviceTypeOK'
    BY DEF DeviceInv, DeviceTypeOK, End, Move, fileVars, sessVars
  <1>2. SupplicantKeepsPlace'
    BY DEF DeviceInv, SupplicantKeepsPlace, End, Move, fileVars, sessVars
  <1>3. WorkersHaveFiles'
    BY DEF DeviceInv, WorkersHaveFiles, DeviceTypeOK, End, Move, fileVars, sessVars
  <1>4. ListedAreOpen'
    BY DEF DeviceInv, ListedAreOpen, DeviceTypeOK, End, Move, fileVars, sessVars
  <1>5. InHandAreOpen'
    BY DEF DeviceInv, InHandAreOpen, InHand, DeviceTypeOK, End, Move, fileVars, sessVars
  <1>6. UsedAreListed'
    BY DEF DeviceInv, UsedAreListed, DeviceTypeOK, End, Move, fileVars, sessVars
  <1>7. SessionsAccounted'
    BY DEF DeviceInv, SessionsAccounted, DeviceTypeOK, End, Move, fileVars, sessVars
  <1> QED BY <1>1, <1>2, <1>3, <1>4, <1>5, <1>6, <1>7 DEF DeviceInv

LEMMA AccessInv ==
  ASSUME DeviceInv, NEW w \in Workers,
         Move(w, "idle", "access") \/ Move(w, "access", "end"),
         UNCHANGED <<fileVars, sessVars, ctx, sess, overtaken>>
  PROVE  DeviceInv'
  <1>0. /\ UNCHANGED <<file, globInit, suppCtx, hasArg, sessList, secure, lost>>
        /\ UNCHANGED <<ctx, sess, overtaken>>
        /\ pc'[w] \in {"access", "end"}
        /\ pc[w] \in {"idle", "access"} /\ ctx[w] = None
        /\ \A v \in Workers : v # w => pc'[v] = pc[v]
    BY DEF DeviceInv, DeviceTypeOK, WorkersHaveFiles, Move, fileVars, sessVars
  <1>1. DeviceTypeOK'
    BY DEF DeviceInv, DeviceTypeOK, Move, fileVars, sessVars
  <1>2. SupplicantKeepsPlace' /\ ListedAreOpen'
    BY <1>0 DEF DeviceInv, SupplicantKeepsPlace, ListedAreOpen
  <1>3. WorkersHaveFiles'
    <2> SUFFICES ASSUME NEW v \in Workers PROVE WorkersHaveFiles!(v)'
      BY DEF WorkersHaveFiles
    <2>1. CASE v = w
      BY <1>0, <2>1
    <2>2. CASE v # w
      BY <1>0, <2>2 DEF DeviceInv, WorkersHaveFiles
    <2> QED BY <2>1, <2>2
  <1>4. \A v \in Workers : InHand(v)' => InHand(v)
    BY <1>0 DEF InHand
  <1>5. InHandAreOpen'
    BY <1>0, <1>4 DEF DeviceInv, InHandAreOpen
  <1>6. UsedAreListed'
    BY <1>0 DEF DeviceInv, UsedAreListed
  <1>7. SessionsAccounted'
    BY <1>0 DEF DeviceInv, SessionsAccounted
  <1> QED BY <1>1, <1>2, <1>3, <1>5, <1>6, <1>7 DEF DeviceInv

LEMMA SessionOpenedInv ==
  ASSUME DeviceInv, NEW w \in Workers, SessionOpened(w)
  PROVE  DeviceInv'
  <1>0. /\ UNCHANGED <<file, globInit, suppCtx, hasArg, sessList, lost, ctx, overtaken>>
        /\ ctx[w] \in Clients /\ pc[w] = "open" /\ ctx[w] # None
        /\ file[ctx[w]] = "open"
    BY DEF DeviceInv, DeviceTypeOK, WorkersHaveFiles, Move, SessionOpened, fileVars
  <1>1. SupplicantKeepsPlace'
    BY <1>0 DEF DeviceInv, SupplicantKeepsPlace
  <1>2. CASE /\ \E next \in {"end", "close"} : Move(w, "open", next)
             /\ UNCHANGED <<secure, sess>>
    <2>0. /\ \A v \in Workers : v # w => pc'[v] = pc[v]
          /\ pc'[w] \in {"end", "close"}
          /\ UNCHANGED <<secure, sess>>
      BY <1>2 DEF DeviceInv, DeviceTypeOK, Move
    <2>1. DeviceTypeOK'
      BY <1>0, <1>2 DEF DeviceInv, DeviceTypeOK, Move
    <2>2. ListedAreOpen'
      BY <1>0, <2>0 DEF DeviceInv, ListedAreOpen
    <2>3. WorkersHaveFiles'
      BY <1>0, <2>0 DEF DeviceInv, WorkersHaveFiles
    <2>4. \A v \in Workers : InHand(v)' => InHand(v)
      BY <2>0 DEF InHand
    <2>5. InHandAreOpen'
      BY <1>0, <2>0, <2>4 DEF DeviceInv, InHandAreOpen
    <2>6. UsedAreListed'
      BY <1>0, <2>0 DEF DeviceInv, UsedAreListed
    <2>7. SessionsAccounted'
      BY <1>0, <2>0 DEF DeviceInv, SessionsAccounted
    <2> QED BY <1>1, <2>1, <2>2, <2>3, <2>5, <2>6, <2>7 DEF DeviceInv
  <1>3. ASSUME NEW s \in Sessions, secure[s] = None, Move(w, "open", "add"),
               secure' = [secure EXCEPT ![s] = ctx[w]],
               sess' = [sess EXCEPT ![w] = s]
        PROVE  DeviceInv'
    <2>0. /\ \A v \in Workers : v # w => pc'[v] = pc[v] /\ sess'[v] = sess[v]
          /\ pc'[w] = "add" /\ sess'[w] = s
          /\ \A t \in Sessions : t # s => secure'[t] = secure[t]
          /\ secure'[s] = ctx[w]
      BY <1>3 DEF DeviceInv, DeviceTypeOK, Move
    <2>1. DeviceTypeOK'
      BY <1>0, <1>3 DEF DeviceInv, DeviceTypeOK, Move
    <2>2. \A f \in Clients : sessList[f] \subseteq Sessions /\ s \notin sessList[f]
      BY <1>3 DEF DeviceInv, DeviceTypeOK, ListedAreOpen
    <2>3. ListedAreOpen'
      BY <1>0, <2>0, <2>2 DEF DeviceInv, ListedAreOpen
    <2>4. WorkersHaveFiles'
      <3> SUFFICES ASSUME NEW v \in Workers PROVE WorkersHaveFiles!(v)'
        BY DEF WorkersHaveFiles
      <3>1. CASE v = w
        BY <1>0, <2>0, <3>1
      <3>2. CASE v # w
        BY <1>0, <2>0, <3>2 DEF DeviceInv, WorkersHaveFiles
      <3> QED BY <3>1, <3>2
    <2>5. \A v \in Workers : InHand(v) =>
            v # w /\ sess[v] \in Sessions /\ sess[v] # s
      BY <1>0, <1>3 DEF DeviceInv, WorkersHaveFiles, InHandAreOpen, InHand
    <2>6. \A v \in Workers : v # w => (InHand(v)' <=> InHand(v))
      BY <2>0 DEF InHand
    <2>7. InHandAreOpen'
      BY <1>0, <2>0, <2>2, <2>5, <2>6 DEF DeviceInv, InHandAreOpen
    <2>8. UsedAreListed'
      BY <1>0, <2>0 DEF DeviceInv, UsedAreListed
    <2>9. SessionsAccounted'
      <3> SUFFICES ASSUME NEW t \in Sessions PROVE SessionsAccounted!(t)'
        BY DEF SessionsAccounted
      <3>1. CASE t = s
        BY <1>0, <2>0, <3>1
      <3>2. CASE t # s
        BY <1>0, <2>0, <3>2 DEF DeviceInv, SessionsAccounted
      <3> QED BY <3>1, <3>2
    <2> QED BY <1>1, <2>1, <2>3, <2>4, <2>7, <2>8, <2>9 DEF DeviceInv
  <1> QED BY <1>2, <1>3 DEF SessionOpened

LEMMA AddSessionInv ==
  ASSUME DeviceInv, NEW w \in Workers, AddSession(w)
  PROVE  DeviceInv'
  <1> DEFINE f == ctx[w]
             s == sess[w]
  <1>0. /\ UNCHANGED <<file, globInit, suppCtx, hasArg, secure, lost, ctx, sess, overtaken>>
        /\ f \in Clients /\ s \in Sessions /\ secure[s] = f
        /\ f # None /\ pc[w] = "add"
        /\ s \notin sessList[f]
    BY DEF DeviceInv, DeviceTypeOK, WorkersHaveFiles, InHandAreOpen, InHand, Move,
           AddSession, fileVars
  <1>1. /\ \A v \in Workers : v # w => pc'[v] = pc[v]
        /\ pc'[w] \in {"end", "close"}
        /\ \A g \in Clients : g # f => sessList'[g] = sessList[g]
        /\ sessList'[f] = sessList[f] \cup {s}
    BY <1>0 DEF DeviceInv, DeviceTypeOK, Move, AddSession
  <1>2. DeviceTypeOK'
    BY <1>0 DEF DeviceInv, DeviceTypeOK, Move, AddSession
  <1>3. SupplicantKeepsPlace'
    BY <1>0 DEF DeviceInv, SupplicantKeepsPlace
  <1> HIDE DEF f, s
  <1>4. WorkersHaveFiles'
    <2> SUFFICES ASSUME NEW v \in Workers PROVE WorkersHaveFiles!(v)'
      BY DEF WorkersHaveFiles
    <2>1. CASE v = w
      BY <1>0, <1>1, <2>1 DEF f, s, DeviceInv, WorkersHaveFiles
    <2>2. CASE v # w
      BY <1>0, <1>1, <2>2 DEF DeviceInv, WorkersHaveFiles
    <2> QED BY <2>1, <2>2
  <1>5. ListedAreOpen'
    BY <1>0, <1>1 DEF DeviceInv, ListedAreOpen
  <1>6. \A v \in Workers : InHand(v)' =>
          v # w /\ InHand(v) /\ sess[v] # s /\ ctx[v] \in Clients
    BY <1>0, <1>1 DEF s, DeviceInv, DeviceTypeOK, WorkersHaveFiles, InHandAreOpen, InHand
  <1>7. InHandAreOpen'
    BY <1>0, <1>1, <1>6 DEF DeviceInv, InHandAreOpen
  <1>8. UsedAreListed'
    <2> SUFFICES ASSUME NEW v \in Workers, pc[v] = "use", v # w, v \notin overtaken
                 PROVE  sess[v] \in sessList'[ctx[v]]
      BY <1>0, <1>1 DEF UsedAreListed
    <2>1. ctx[v] \in Clients /\ sess[v] \in sessList[ctx[v]]
      BY DEF DeviceInv, WorkersHaveFiles, UsedAreListed
    <2> QED BY <1>1, <2>1
  <1>9. SessionsAccounted'
    <2> SUFFICES ASSUME NEW t \in Sessions, secure[t] # None, t \notin lost
                 PROVE  SessionsAccounted!(t)'
      BY <1>0 DEF SessionsAccounted
    <2>1. secure[t] \in Clients
      BY DEF DeviceInv, DeviceTypeOK
    <2>2. CASE t = s
      BY <1>0, <1>1, <2>2
    <2>3. CASE t # s /\ t \in sessList[secure[t]]
      BY <1>0, <1>1, <2>1, <2>3
    <2>4. CASE t # s /\ t \notin sessList[secure[t]]
      <3>1. PICK v \in Workers :
              pc[v] \in {"add", "closing"} /\ sess[v] = t /\ ctx[v] = secure[t]
        BY <2>4 DEF DeviceInv, SessionsAccounted
      <3> QED BY <1>0, <1>1, <2>4, <3>1 DEF s
    <2> QED BY <2>2, <2>3, <2>4
  <1> QED BY <1>2, <1>3, <1>4, <1>5, <1>7, <1>8, <1>9 DEF DeviceInv

LEMMA RemoveSessionInv ==
  ASSUME DeviceInv, NEW w \in Workers, RemoveSession(w)
  PROVE  DeviceInv'
  <1> DEFINE f == ctx[w]
             s == sess[w]
  <1>0. /\ UNCHANGED <<file, globInit, suppCtx, hasArg, secure, ctx, sess>>
        /\ f \in Clients /\ f # None /\ pc[w] = "close" /\ s \in Sessions \cup {None}
    BY DEF DeviceInv, DeviceTypeOK, WorkersHaveFiles, Move, RemoveSession, fileVars
  <1>1. SupplicantKeepsPlace'
    BY <1>0 DEF DeviceInv, SupplicantKeepsPlace
  <1>2. CASE ~(s # None /\ s \in sessList[f])
    <2>0. /\ UNCHANGED <<sessList, overtaken, lost>>
          /\ \A v \in Workers : v # w => pc'[v] = pc[v]
          /\ pc'[w] = "end"
      BY <1>2 DEF DeviceInv, DeviceTypeOK, Move, RemoveSession, Listed
    <2>1. DeviceTypeOK'
      BY <1>0, <1>2 DEF DeviceInv, DeviceTypeOK, Move, RemoveSession, Listed
    <2>2. ListedAreOpen'
      BY <1>0, <2>0 DEF DeviceInv, ListedAreOpen
    <2>3. WorkersHaveFiles'
      BY <1>0, <2>0 DEF DeviceInv, WorkersHaveFiles
    <2>4. \A v \in Workers : InHand(v)' => InHand(v)
      BY <2>0 DEF InHand
    <2>5. InHandAreOpen'
      BY <1>0, <2>0, <2>4 DEF DeviceInv, InHandAreOpen
    <2>6. UsedAreListed'
      BY <1>0, <2>0 DEF DeviceInv, UsedAreListed
    <2>7. SessionsAccounted'
      BY <1>0, <2>0 DEF DeviceInv, SessionsAccounted
    <2> QED BY <1>1, <2>1, <2>2, <2>3, <2>5, <2>6, <2>7 DEF DeviceInv
  <1>3. CASE s # None /\ s \in sessList[f]
    <2>0. /\ sessList' = [sessList EXCEPT ![f] = @ \ {s}]
          /\ overtaken' = overtaken \cup
               {v \in Workers : pc[v] = "use" /\ ctx[v] = f /\ sess[v] = s}
          /\ \/ Move(w, "close", "closing") /\ UNCHANGED lost
             \/ Move(w, "close", "end") /\ lost' = lost \cup {s}
          /\ s \in Sessions /\ secure[s] = f
      BY <1>0, <1>3 DEF RemoveSession, Listed, Unlist, DeviceInv, ListedAreOpen
    <2>1. /\ \A v \in Workers : v # w => pc'[v] = pc[v]
          /\ \/ pc'[w] = "closing" /\ UNCHANGED lost
             \/ pc'[w] = "end" /\ lost' = lost \cup {s}
          /\ \A g \in Clients : g # f => sessList'[g] = sessList[g]
          /\ sessList'[f] = sessList[f] \ {s}
      BY <1>0, <2>0 DEF DeviceInv, DeviceTypeOK, Move
    <2>2. DeviceTypeOK'
      <3>1. sessList' \in [Clients -> SUBSET Sessions] /\ overtaken' \subseteq Workers
        BY <1>0, <2>0 DEF DeviceInv, DeviceTypeOK
      <3>2. /\ lost' \subseteq Sessions
            /\ pc' \in [Workers -> {"idle", "open", "add", "close", "closing", "use",
                                    "end", "access"}]
        BY <2>0 DEF DeviceInv, DeviceTypeOK, Move
      <3> QED BY <1>0, <3>1, <3>2 DEF DeviceInv, DeviceTypeOK
    <2> HIDE DEF f, s
    <2>3. ListedAreOpen'
      BY <1>0, <2>1 DEF DeviceInv, ListedAreOpen
    <2>4. WorkersHaveFiles'
      <3> SUFFICES ASSUME NEW v \in Workers PROVE WorkersHaveFiles!(v)'
        BY DEF WorkersHaveFiles
      <3>1. CASE v = w
        BY <1>0, <2>0, <2>1, <3>1 DEF f, s, DeviceInv, WorkersHaveFiles
      <3>2. CASE v # w
        BY <1>0, <2>1, <3>2 DEF DeviceInv, WorkersHaveFiles
      <3> QED BY <3>1, <3>2
    <2>5. \A v \in Workers : InHand(v) => v # w /\ sess[v] # s /\ ctx[v] \in Clients
      BY <1>0, <1>3, <2>0 DEF DeviceInv, WorkersHaveFiles, InHandAreOpen, InHand
    <2>6. \A v \in Workers : v # w => (InHand(v)' <=> InHand(v))
      BY <2>1 DEF InHand
    <2>7. InHandAreOpen'
      <3>1. \A v \in Workers : InHand(v)' =>
              secure[sess[v]] = ctx[v] /\ sess[v] \notin sessList'[ctx[v]]
        <4> SUFFICES ASSUME NEW v \in Workers, InHand(v)'
                     PROVE  secure[sess[v]] = ctx[v] /\ sess[v] \notin sessList'[ctx[v]]
          OBVIOUS
        <4>1. CASE v = w
          BY <2>0, <2>1, <4>1 DEF f, s
        <4>2. CASE v # w
          BY <2>1, <2>5, <2>6, <4>2 DEF DeviceInv, InHandAreOpen
        <4> QED BY <4>1, <4>2
      <3>2. \A u, v \in Workers : InHand(u)' /\ InHand(v)' /\ sess[u] = sess[v] => u = v
        BY <2>5, <2>6 DEF s, DeviceInv, InHandAreOpen
      <3> QED BY <1>0, <3>1, <3>2 DEF InHandAreOpen
    <2>8. UsedAreListed'
      <3> SUFFICES ASSUME NEW v \in Workers, pc[v] = "use", v # w, v \notin overtaken'
                   PROVE  sess[v] \in sessList'[ctx[v]]
        BY <1>0, <2>1 DEF UsedAreListed
      <3>1. v \notin overtaken /\ ~(ctx[v] = f /\ sess[v] = s)
        BY <2>0
      <3>2. ctx[v] \in Clients /\ sess[v] \in sessList[ctx[v]]
        BY <3>1 DEF DeviceInv, WorkersHaveFiles, UsedAreListed
      <3> QED BY <2>1, <3>1, <3>2
    <2>9. SessionsAccounted'
      <3> SUFFICES ASSUME NEW t \in Sessions, secure[t] # None, t \notin lost'
                   PROVE  SessionsAccounted!(t)'
        BY <1>0 DEF SessionsAccounted
      <3>1. secure[t] \in Clients /\ t \notin lost
        BY <2>1 DEF DeviceInv, DeviceTypeOK
      <3>2. CASE t = s
        BY <1>0, <2>0, <2>1, <3>2 DEF f, s
      <3>3. CASE t # s /\ t \in sessList[secure[t]]
        BY <1>0, <2>1, <3>1, <3>3
      <3>4. CASE t # s /\ t \notin sessList[secure[t]]
        <4>1. PICK v \in Workers :
                pc[v] \in {"add", "closing"} /\ sess[v] = t /\ ctx[v] = secure[t]
          BY <3>1, <3>4 DEF DeviceInv, SessionsAccounted
        <4>2. v # w
          BY <1>0, <4>1
        <4> QED BY <1>0, <2>1, <4>1, <4>2
      <3> QED BY <3>2, <3>3, <3>4
    <2> QED BY <1>1, <2>2, <2>3, <2>4, <2>7, <2>8, <2>9 DEF DeviceInv
  <1> QED BY <1>2, <1>3

LEMMA SessionClosedInv ==
  ASSUME DeviceInv, NEW w \in Workers, SessionClosed(w)
  PROVE  DeviceInv'
  <1> DEFINE s == sess[w]
  <1>0. /\ UNCHANGED <<file, globInit, suppCtx, hasArg, sessList, lost, ctx, sess, overtaken>>
        /\ s \in Sessions /\ secure[s] = ctx[w] /\ InHand(w)
        /\ pc[w] = "closing" /\ s \notin sessList[ctx[w]]
    BY DEF DeviceInv, WorkersHaveFiles, InHandAreOpen, InHand, Move, SessionClosed, fileVars
  <1>1. /\ \A v \in Workers : v # w => pc'[v] = pc[v]
        /\ pc'[w] = "end"
        /\ \A t \in Sessions : t # s => secure'[t] = secure[t]
        /\ secure'[s] = None
    BY <1>0 DEF DeviceInv, DeviceTypeOK, Move, SessionClosed, CloseCall
  <1>2. DeviceTypeOK'
    BY <1>0 DEF DeviceInv, DeviceTypeOK, Move, SessionClosed, CloseCall
  <1>3. SupplicantKeepsPlace'
    BY <1>0 DEF DeviceInv, SupplicantKeepsPlace
  <1>4. \A f \in Clients : s \notin sessList[f] /\ sessList[f] \subseteq Sessions
    BY <1>0 DEF DeviceInv, DeviceTypeOK, ListedAreOpen
  <1> HIDE DEF s
  <1>5. WorkersHaveFiles'
    BY <1>0, <1>1 DEF DeviceInv, WorkersHaveFiles
  <1>6. ListedAreOpen'
    BY <1>0, <1>1, <1>4 DEF DeviceInv, ListedAreOpen
  <1>7. \A v \in Workers : InHand(v)' =>
          v # w /\ InHand(v) /\ sess[v] # s /\ sess[v] \in Sessions
    BY <1>0, <1>1 DEF s, DeviceInv, WorkersHaveFiles, InHandAreOpen, InHand
  <1>8. InHandAreOpen'
    BY <1>0, <1>1, <1>7 DEF DeviceInv, InHandAreOpen
  <1>9. UsedAreListed'
    BY <1>0, <1>1 DEF DeviceInv, UsedAreListed
  <1>10. SessionsAccounted'
    <2> SUFFICES ASSUME NEW t \in Sessions, secure'[t] # None, t \notin lost
                 PROVE  SessionsAccounted!(t)'
      BY <1>0 DEF SessionsAccounted
    <2>1. t # s /\ secure'[t] = secure[t] /\ sess[w] # t
      BY <1>1 DEF s
    <2>2. CASE t \in sessList[secure[t]]
      BY <1>0, <2>1, <2>2
    <2>3. CASE t \notin sessList[secure[t]]
      <3>1. PICK v \in Workers :
              pc[v] \in {"add", "closing"} /\ sess[v] = t /\ ctx[v] = secure[t]
        BY <2>1, <2>3 DEF DeviceInv, SessionsAccounted
      <3> QED BY <1>0, <1>1, <2>1, <3>1
    <2> QED BY <2>2, <2>3
  <1> QED BY <1>2, <1>3, <1>5, <1>6, <1>8, <1>9, <1>10 DEF DeviceInv

LEMMA ReleaseSessionInv ==
  ASSUME DeviceInv, NEW f \in Files, NEW s \in Sessions, ReleaseSession(f, s)
  PROVE  DeviceInv'
  <1>0. /\ UNCHANGED <<file, globInit, suppCtx, hasArg, pc, ctx, sess, overtaken>>
        /\ f \in Clients /\ s \in sessList[f] /\ secure[s] = f
        /\ \A w \in Workers : ctx[w] # f
    BY DEF DeviceInv, WorkersHaveFiles, ListedAreOpen, ReleaseSession, fileVars, workVars
  <1>1. /\ \A g \in Clients : g # f => sessList'[g] = sessList[g]
        /\ sessList'[f] = sessList[f] \ {s}
        /\ \A t \in Sessions : t # s => secure'[t] = secure[t]
        /\ \/ secure'[s] = None /\ UNCHANGED lost
           \/ UNCHANGED secure /\ lost' = lost \cup {s}
    BY <1>0 DEF DeviceInv, DeviceTypeOK, ReleaseSession, CloseCall
  <1>2. DeviceTypeOK'
    <2>1. sessList' \in [Clients -> SUBSET Sessions]
      BY DEF DeviceInv, DeviceTypeOK, ReleaseSession
    <2>2. secure' \in [Sessions -> Clients \cup {None}] /\ lost' \subseteq Sessions
      BY DEF DeviceInv, DeviceTypeOK, ReleaseSession, CloseCall
    <2> QED BY <1>0, <2>1, <2>2 DEF DeviceInv, DeviceTypeOK
  <1>3. SupplicantKeepsPlace' /\ WorkersHaveFiles'
    BY <1>0 DEF DeviceInv, SupplicantKeepsPlace, WorkersHaveFiles
  <1>4. ListedAreOpen'
    <2> SUFFICES ASSUME NEW g \in Clients, NEW t \in sessList'[g] PROVE secure'[t] = g
      BY DEF ListedAreOpen
    <2>1. t \in sessList[g] /\ t \in Sessions /\ secure[t] = g
      BY <1>1 DEF DeviceInv, DeviceTypeOK, ListedAreOpen
    <2> QED BY <1>0, <1>1, <2>1
  <1>5. \A w \in Workers : InHand(w) => sess[w] # s /\ sess[w] \in Sessions /\ ctx[w] \in Clients
    BY <1>0 DEF DeviceInv, WorkersHaveFiles, InHandAreOpen, InHand
  <1>6. InHandAreOpen'
    <2>1. \A w \in Workers : InHand(w)' <=> InHand(w)
      BY <1>0 DEF InHand
    <2> QED BY <1>0, <1>1, <1>5, <2>1 DEF DeviceInv, InHandAreOpen
  <1>7. UsedAreListed'
    BY <1>0, <1>1 DEF DeviceInv, WorkersHaveFiles, UsedAreListed
  <1>8. SessionsAccounted'
    <2> SUFFICES ASSUME NEW t \in Sessions, secure'[t] # None, t \notin lost'
                 PROVE  SessionsAccounted!(t)'
      BY DEF SessionsAccounted
    <2>1. t # s /\ secure'[t] = secure[t] /\ secure[t] \in Clients /\ t \notin lost
      BY <1>1 DEF DeviceInv, DeviceTypeOK
    <2>2. CASE t \in sessList[secure[t]]
      BY <1>1, <2>1, <2>2
    <2>3. CASE t \notin sessList[secure[t]]
      BY <1>0, <2>1, <2>3 DEF DeviceInv, SessionsAccounted
    <2> QED BY <2>2, <2>3
  <1> QED BY <1>2, <1>3, <1>4, <1>6, <1>7, <1>8 DEF DeviceInv

-----------------------------------------------------------------------------
LEMMA DeviceInitInv == DeviceInit => DeviceInv
  <1> SUFFICES ASSUME DeviceInit PROVE DeviceInv
    OBVIOUS
  <1>1. DeviceTypeOK
    BY DEF DeviceInit, DeviceTypeOK
  <1>2. SupplicantKeepsPlace /\ WorkersHaveFiles /\ ListedAreOpen
    BY DEF DeviceInit, SupplicantKeepsPlace, WorkersHaveFiles, ListedAreOpen
  <1>3. InHandAreOpen /\ UsedAreListed
    BY DEF DeviceInit, InHandAreOpen, InHand, UsedAreListed
  <1>4. SessionsAccounted
    BY DEF DeviceInit, SessionsAccounted
  <1> QED BY <1>1, <1>2, <1>3, <1>4 DEF DeviceInv

LEMMA DeviceStepInv == DeviceInv /\ [Next]_vars => DeviceInv'
  <1> SUFFICES ASSUME DeviceInv, [Next]_vars PROVE DeviceInv'
    OBVIOUS
  <1>1. ASSUME NEW w \in Workers, BeginCall(w) PROVE DeviceInv'
    BY <1>1, OpenSessionInv, CloseSessionInv, UseSessionInv DEF BeginCall
  <1>2. ASSUME NEW w \in Workers, InDriver(w) PROVE DeviceInv'
    BY <1>2, AddSessionInv, RemoveSessionInv, EndInv DEF InDriver
  <1>3. ASSUME NEW w \in Workers, Access(w) \/ AccessOver(w) PROVE DeviceInv'
    BY <1>3, AccessInv DEF Access, AccessOver
  <1>4. ASSUME NEW w \in Workers, SecureReturns(w) PROVE DeviceInv'
    BY <1>4, SessionOpenedInv, SessionClosedInv, SessionUsedInv DEF SecureReturns
  <1>5. ASSUME NEW w \in Workers, WorkerStep(w) PROVE DeviceInv'
    BY <1>1, <1>2, <1>3, <1>4, <1>5, DeviceUnchanged DEF WorkerStep, Return, Rpc, Serve
  <1>6. ASSUME NEW f \in Files, FileStep(f) PROVE DeviceInv'
    BY <1>6, OpenInv, OpenTestsInv, OpenMarksInv, OpenNestedInv, ReleaseInv,
       ReleasedInv, ReleaseSessionInv DEF FileStep, ClientStep
  <1>7. CASE UNCHANGED vars
    BY <1>7, DeviceUnchanged DEF vars
  <1> QED BY <1>5, <1>6, <1>7 DEF Next

LEMMA DeviceInvHolds == Spec => []DeviceInv
  <1>1. Init => DeviceInv
    BY DeviceInitInv DEF Init
  <1> QED BY <1>1, DeviceStepInv, PTL DEF Spec

(* A file that is open on the device of tee-supplicant has its place: the  *)
(* opening of another file never takes it away, and its release gives it   *)
(* back (optee_open, optee_release).                                       *)
THEOREM PlaceKept == Spec => []SupplicantKeepsPlace
  <1>1. DeviceInv => SupplicantKeepsPlace
    BY DEF DeviceInv
  <1> QED BY <1>1, DeviceInvHolds, PTL

(* A session that is open in the secure world is listed, or in the hands   *)
(* of a worker of its file: none is forgotten when a call fails or when a  *)
(* file is released (call.c).                                              *)
THEOREM NoSessionForgotten == Spec => []SessionsAccounted
  <1>1. DeviceInv => SessionsAccounted
    BY DEF DeviceInv
  <1> QED BY <1>1, DeviceInvHolds, PTL

(* Of the closes of a session one makes the call, while the session is     *)
(* open for its file, for any number of files, sessions and calls that     *)
(* close: the check of find_session under the mutex is enough for that,    *)
(* although the call is made without it and numbers are given again.       *)
THEOREM SessionsClosedOnce == Spec => []ClosesOwn
  <1>1. DeviceInv => ClosesOwn
    BY DEF DeviceInv, InHandAreOpen, InHand, ClosesOwn
  <1> QED BY <1>1, DeviceInvHolds, PTL

(* An invocation reaches a session of its own file, unless that session    *)
(* was closed after the check.                                             *)
THEOREM InvocationsReachOwn == Spec => []ReachesOwn
  <1>1. DeviceInv => ReachesOwn
    BY DEF DeviceInv, WorkersHaveFiles, UsedAreListed, ListedAreOpen, ReachesOwn
  <1> QED BY <1>1, DeviceInvHolds, PTL
=============================================================================
