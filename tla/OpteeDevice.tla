---------------------------- MODULE OpteeDevice -----------------------------
(***************************************************************************)
(* The two devices of the OP-TEE driver (core.c): open files and their     *)
(* contexts, and the sessions that hang on the contexts of clients         *)
(* (call.c).  One file at a time may be open on the device of              *)
(* tee-supplicant; Trust.IO adds a context of the kernel's own, which the  *)
(* first open of whatever device opens as if it were tee-supplicant's.     *)
(*                                                                         *)
(* The TEE core of Linux is external: it releases a file when nobody is    *)
(* in a call on it.  So is the secure world, which numbers its sessions    *)
(* and uses the number of a closed one again.  The devices are opened      *)
(* after optee_probe: the driver is built into the kernel.                 *)
(***************************************************************************)
EXTENDS Integers, FiniteSets

CONSTANTS
  Workers,   (* the kernel threads that make calls                         *)
  Clients,   (* files on the device of clients                             *)
  Supps,     (* files on the device of tee-supplicant                      *)
  Sessions,  (* bound: the numbers of sessions                             *)
  None

TrustioCtx == "trustio_glob_ctx"

ASSUME DeviceAssumption ==
  /\ Clients \cap Supps = {} /\ TrustioCtx \notin Supps
  /\ None \notin Clients \cup Supps \cup Sessions \cup {TrustioCtx}

VARIABLES
  file,      (* where the open or the release of a file is                 *)
  globInit,  (* is_trustio_glob_init                                       *)
  suppCtx,   (* supp.ctx                                                   *)
  sessList,  (* of a file: sess_list                                       *)
  hasArg,    (* the releases that have memory for their calls              *)
  secure,    (* of a session: the file it was opened for, None if it is    *)
             (* not open in the secure world                               *)
  pc,        (* where a worker is                                          *)
  ctx, sess, (* the file and the session it works for                      *)
  lost,      (* history: the sessions given up for want of memory          *)
  overtaken  (* history: whose session was closed while it was using it    *)

fileVars == <<file, globInit, suppCtx, hasArg>>
sessVars == <<sessList, secure, lost>>
workVars == <<pc, ctx, sess, overtaken>>
deviceVars == <<fileVars, sessVars, workVars>>

Files == Clients \cup Supps

DeviceInit ==
  /\ file = [f \in Files |-> "closed"]
  /\ globInit = FALSE
  /\ suppCtx = None
  /\ sessList = [f \in Clients |-> {}]
  /\ hasArg = {}
  /\ secure = [s \in Sessions |-> None]
  /\ pc = [w \in Workers |-> "idle"]
  /\ ctx = [w \in Workers |-> None]
  /\ sess = [w \in Workers |-> None]
  /\ lost = {}
  /\ overtaken = {}

MoveFile(f, from, to) == file[f] = from /\ file' = [file EXCEPT ![f] = to]
Move(w, from, to) == pc[w] = from /\ pc' = [pc EXCEPT ![w] = to]
-----------------------------------------------------------------------------
(* optee_open.  Fault: the place is not looked at.                         *)
AlwaysVacant == TRUE

Vacant == suppCtx = None

(* There is a context, and the place of tee-supplicant is taken; if not,   *)
(* the open fails and nothing changes.                                     *)
Open(f) ==
  /\ MoveFile(f, "closed", "set up")
  /\ IF f \in Supps THEN Vacant /\ suppCtx' = f ELSE UNCHANGED suppCtx
  /\ UNCHANGED <<globInit, hasArg, sessVars, workVars>>

(* if (!is_trustio_glob_init), which nothing protects.                     *)
OpenTests(f) ==
  /\ MoveFile(f, "set up", IF globInit THEN "open" ELSE "first")
  /\ UNCHANGED <<globInit, suppCtx, hasArg, sessVars, workVars>>

OpenMarks(f) ==
  /\ MoveFile(f, "first", "nested")
  /\ globInit' = TRUE
  /\ UNCHANGED <<suppCtx, hasArg, sessVars, workVars>>

(* optee_open(trustio_glob_ctx): it takes the place, or fails for want of  *)
(* memory or because the place is taken.  Its result is not looked at.     *)
OpenNested(f) ==
  /\ MoveFile(f, "nested", "open")
  /\ (Vacant /\ suppCtx' = TrustioCtx) \/ UNCHANGED suppCtx
  /\ UNCHANGED <<globInit, hasArg, sessVars, workVars>>
-----------------------------------------------------------------------------
(* optee_release, which has memory for the calls it will make or not.      *)
Release(f) ==
  /\ MoveFile(f, "open", "releasing")
  /\ \A w \in Workers : ctx[w] # f
  /\ \/ f \in Clients /\ sessList[f] # {} /\ hasArg' = hasArg \cup {f}
     \/ UNCHANGED hasArg
  /\ UNCHANGED <<globInit, suppCtx, sessVars, workVars>>

(* Fault: the call is not made.                                            *)
NoCall(s) == secure

CloseCall(s) == [secure EXCEPT ![s] = None]

ReleaseSession(f, s) ==
  /\ file[f] = "releasing" /\ f \in Clients
  /\ s \in sessList[f]
  /\ sessList' = [sessList EXCEPT ![f] = @ \ {s}]
  /\ IF f \in hasArg
     THEN secure' = CloseCall(s) /\ UNCHANGED lost
     ELSE lost' = lost \cup {s} /\ UNCHANGED secure
  /\ UNCHANGED <<fileVars, workVars>>

(* Fault: whatever file is released, the place becomes vacant.             *)
AlwaysLeaves(f) == TRUE

Leaves(f) == f \in Supps

Released(f) ==
  /\ MoveFile(f, "releasing", "closed")
  /\ f \in Clients => sessList[f] = {}
  /\ suppCtx' = IF Leaves(f) THEN None ELSE suppCtx
  /\ hasArg' = hasArg \ {f}
  /\ UNCHANGED <<globInit, sessVars, workVars>>
-----------------------------------------------------------------------------
(* The calls on a file.  Fault: every number is taken for a session.       *)
AnySession(f, s) == TRUE

(* find_session.                                                           *)
Listed(f, s) == s \in sessList[f]

Begin(w, f, s) ==
  /\ file[f] = "open"
  /\ ctx' = [ctx EXCEPT ![w] = f]
  /\ sess' = [sess EXCEPT ![w] = s]
  /\ overtaken' = overtaken \ {w}

(* optee_open_session, once it has the memory it needs.                    *)
OpenSession(w, f) ==
  /\ Move(w, "idle", "open")
  /\ Begin(w, f, None)
  /\ UNCHANGED <<fileVars, sessVars>>

(* The secure world opens a session, or refuses; a refusal too is followed *)
(* by a close if its parameters are no good, of no session.                *)
SessionOpened(w) ==
  /\ \/ \E s \in Sessions :
          /\ secure[s] = None
          /\ secure' = [secure EXCEPT ![s] = ctx[w]]
          /\ sess' = [sess EXCEPT ![w] = s]
          /\ Move(w, "open", "add")
     \/ /\ \E next \in {"end", "close"} : Move(w, "open", next)
        /\ UNCHANGED <<secure, sess>>
  /\ UNCHANGED <<fileVars, sessList, lost, ctx, overtaken>>

(* The session is closed again if its parameters are no good.              *)
AddSession(w) ==
  /\ \E next \in {"end", "close"} : Move(w, "add", next)
  /\ sessList' = [sessList EXCEPT ![ctx[w]] = @ \cup {sess[w]}]
  /\ UNCHANGED <<fileVars, secure, lost, ctx, sess, overtaken>>

(* optee_close_session, of whatever number user space gives.               *)
CloseSession(w, f, s) ==
  /\ Move(w, "idle", "close")
  /\ Begin(w, f, s)
  /\ UNCHANGED <<fileVars, sessVars>>

(* Fault: the session stays in the list until it is closed.                *)
StaysListed(f, s) == sessList

Unlist(f, s) == [sessList EXCEPT ![f] = @ \ {s}]

(* Under the mutex; then get_msg_arg, which may find no memory.            *)
RemoveSession(w) ==
  LET s == sess[w] IN
  /\ IF s # None /\ Listed(ctx[w], s)
     THEN /\ sessList' = Unlist(ctx[w], s)
          /\ overtaken' = overtaken \cup
               {v \in Workers : pc[v] = "use" /\ ctx[v] = ctx[w] /\ sess[v] = s}
          /\ \/ Move(w, "close", "closing") /\ UNCHANGED lost
             \/ Move(w, "close", "end") /\ lost' = lost \cup {s}
     ELSE /\ Move(w, "close", "end")
          /\ UNCHANGED <<sessList, overtaken, lost>>
  /\ UNCHANGED <<fileVars, secure, ctx, sess>>

SessionClosed(w) ==
  /\ Move(w, "closing", "end")
  /\ secure' = CloseCall(sess[w])
  /\ UNCHANGED <<fileVars, sessList, lost, ctx, sess, overtaken>>

(* optee_invoke_func and optee_cancel_req; the number is not one of a      *)
(* session of this file, or the call is made after the mutex is released.  *)
UseSession(w, f, s) ==
  /\ Move(w, "idle", IF Listed(f, s) THEN "use" ELSE "end")
  /\ Begin(w, f, s)
  /\ UNCHANGED <<fileVars, sessVars>>

SessionUsed(w) ==
  /\ Move(w, "use", "end")
  /\ UNCHANGED <<fileVars, sessVars, ctx, sess, overtaken>>

End(w) ==
  /\ Move(w, "end", "idle")
  /\ ctx' = [ctx EXCEPT ![w] = None]
  /\ sess' = [sess EXCEPT ![w] = None]
  /\ overtaken' = overtaken \ {w}
  /\ UNCHANGED <<fileVars, sessVars>>
-----------------------------------------------------------------------------
(* The calls a worker may begin; their ends, when the secure world comes   *)
(* back; and what is between.                                              *)
BeginCall(w) ==
  \E f \in Clients :
    \/ OpenSession(w, f)
    \/ \E s \in Sessions : CloseSession(w, f, s) \/ UseSession(w, f, s)

InSecure(w) == pc[w] \in {"open", "closing", "use"}

SecureReturns(w) == SessionOpened(w) \/ SessionClosed(w) \/ SessionUsed(w)

InDriver(w) == AddSession(w) \/ RemoveSession(w) \/ End(w)

ClientStep(f) ==
  \/ Open(f) \/ OpenTests(f) \/ OpenMarks(f) \/ OpenNested(f)
  \/ Release(f) \/ Released(f) \/ (\E s \in Sessions : ReleaseSession(f, s))
-----------------------------------------------------------------------------
DeviceTypeOK ==
  /\ file \in [Files -> {"closed", "set up", "first", "nested", "open", "releasing"}]
  /\ globInit \in BOOLEAN
  /\ suppCtx \in Supps \cup {None, TrustioCtx}
  /\ sessList \in [Clients -> SUBSET Sessions]
  /\ hasArg \subseteq Files
  /\ secure \in [Sessions -> Clients \cup {None}]
  /\ pc \in [Workers -> {"idle", "open", "add", "close", "closing", "use", "end",
                         "access"}]
  /\ ctx \in [Workers -> Clients \cup {None}]
  /\ sess \in [Workers -> Sessions \cup {None}]
  /\ lost \subseteq Sessions
  /\ overtaken \subseteq Workers

(* The file that is open on the device of tee-supplicant, if there is one, *)
(* has its place: neither another open, nor Trust.IO's context, nor the    *)
(* release of another file takes it away (optee_open, optee_release).      *)
SupplicantKeepsPlace ==
  \A f \in Supps : file[f] # "closed" => suppCtx = f

(* A session that is open in the secure world is on the list of the file   *)
(* it was opened for, or a worker has it in hand, who will list or close   *)
(* it; unless there was no memory to close it ("Close session again to     *)
(* avoid leakage").                                                        *)
SessionsAccounted ==
  \A s \in Sessions : secure[s] # None /\ s \notin lost =>
    \/ s \in sessList[secure[s]]
    \/ \E w \in Workers :
         pc[w] \in {"add", "closing"} /\ sess[w] = s /\ ctx[w] = secure[s]

(* What a worker is to close in the secure world is still open, and was    *)
(* opened for its file: of two closes of a session, and the close that     *)
(* follows a bad answer, one takes it off the list and makes the call      *)
(* (optee_close_session, optee_open_session).                              *)
ClosesOwn ==
  \A w \in Workers : pc[w] = "closing" => secure[sess[w]] = ctx[w]

(* An invocation reaches a session of its file, unless another thread      *)
(* closed that after it was checked (find_session): then it reaches        *)
(* whatever session has got the number, which is not excluded here.        *)
ReachesOwn ==
  \A w \in Workers :
    pc[w] = "use" /\ w \notin overtaken => secure[sess[w]] = ctx[w]
=============================================================================
