----------------------- MODULE OpteeRpcTables_proofs -----------------------
(***************************************************************************)
(* Proofs about the tables of tee-supplicant in OpteeRpc, for any number   *)
(* of kernel threads, descriptors, pieces of memory, instances and handles.*)
(*                                                                         *)
(* TablesBase holds always: what a request is about fits its place, and    *)
(* the requests on one handle keep out of each other's way.  FdsOk: a      *)
(* descriptor that is open is in the list, behind a handle or in the hand  *)
(* of one thread, and no two have the same piece behind them.  PiecesOk:   *)
(* what the driver holds for a call is in the list for that call.  The     *)
(* last two hold until the descriptor of another was closed (spoilt), and  *)
(* PiecesOk says nothing of who has what belongs to a call (mixed).        *)
(***************************************************************************)
EXTENDS OpteeRpc_proofs

(* The provers do not see that these are constant.                         *)
LEMMA ConstOps ==
  Supp!Fds' = Supp!Fds /\ Supp!Slots' = Supp!Slots /\ Supp!Places' = Supp!Places
  /\ Supp!Socket' = Supp!Socket
  BY DEF Supp!Fds, Supp!Slots, Supp!Places, Supp!Asked, Supp!Socket
-----------------------------------------------------------------------------
Owning == {"map", "transfer", "get", "close"}
OnSlotPlaces == {"send", "shut", "use", "put"}
OnInstPlaces == {"shut all", "ending"}

(* What a request is about, by the place of the thread that serves it.     *)
ArgFits(p, a) ==
  /\ p \in {"none", "alloc", "close"} => a = None
  /\ p \in {"map", "answered", "free", "network"} => a \in Ids
  /\ p \in {"connect", "transfer"} => a \in Ids \cup {None}
  /\ p \in {"open", "get"} \cup OnInstPlaces => a \in Insts
  /\ p \in OnSlotPlaces => a \in Supp!Slots

HandFits(p, h) == h # None <=> p \in Owning \cup {"use", "put"}

(* What the secure world keeps to: a handle is there while a request is    *)
(* about it, and closed by one request alone.                              *)
OnSlot(w) == at[w] \in OnSlotPlaces

SlotThere(w) ==
  /\ OnSlot(w) => db[arg[w]] # None
  /\ at[w] = "put" => hand[w] = db[arg[w]]

Apart(v, w) ==
  /\ OnSlot(v) /\ at[w] \in {"shut", "put"} => arg[v] # arg[w]
  /\ OnSlot(v) /\ at[w] \in OnInstPlaces => arg[v].inst # arg[w]

TypesOk == Supp!TablesTypeOK /\ piece \in [Workers -> Ids \cup {None}]

RequestsOk ==
  /\ \A w \in Workers : ArgFits(at[w], arg[w]) /\ HandFits(at[w], hand[w]) /\ SlotThere(w)
  /\ \A v, w \in Workers : v # w => Apart(v, w)

TablesBase == TypesOk /\ RequestsOk

-----------------------------------------------------------------------------
(* A step of the thread that serves r.                                      *)
Becomes(r, p, a, h) ==
  /\ at' = [at EXCEPT ![r] = p]
  /\ arg' = [arg EXCEPT ![r] = a]
  /\ hand' = [hand EXCEPT ![r] = h]

LEMMA Pointwise ==
  ASSUME TypesOk, NEW r \in Workers, NEW p, NEW a, NEW h, Becomes(r, p, a, h)
  PROVE  /\ at'[r] = p /\ arg'[r] = a /\ hand'[r] = h
         /\ \A v \in Workers : v # r =>
              at'[v] = at[v] /\ arg'[v] = arg[v] /\ hand'[v] = hand[v]
  BY DEF TypesOk, Supp!TablesTypeOK, Becomes

(* The handles after a step of r to place p, about a, with h in hand.      *)
HandleFits(r, p, a, h) ==
  /\ p \in OnSlotPlaces => db'[a] # None
  /\ p = "put" => h = db'[a]
  /\ \A v \in Workers : v # r =>
       /\ OnSlot(v) => db'[arg[v]] = db[arg[v]]
       /\ p \in OnSlotPlaces /\ at[v] \in {"shut", "put"} => a # arg[v]
       /\ p \in OnSlotPlaces /\ at[v] \in OnInstPlaces => a.inst # arg[v]
       /\ OnSlot(v) /\ p \in {"shut", "put"} => arg[v] # a
       /\ OnSlot(v) /\ p \in OnInstPlaces => arg[v].inst # a

LEMMA BaseStep ==
  ASSUME TablesBase,
         NEW r \in Workers, NEW p \in Supp!Places, NEW a, NEW h \in Supp!Fds \cup {None},
         Becomes(r, p, a, h), ArgFits(p, a), HandFits(p, h),
         behind' \in [Supp!Fds -> Ids \cup {Supp!Socket, None}],
         shmList' \subseteq [id : Ids, fd : Supp!Fds, by : Workers],
         db' \in [Supp!Slots -> Supp!Fds \cup {None}],
         old' \subseteq Workers, mixed' \subseteq Workers, spoilt' \in BOOLEAN,
         piece' \in [Workers -> Ids \cup {None}],
         HandleFits(r, p, a, h)
  PROVE  TablesBase'
  <1>1. /\ at'[r] = p /\ arg'[r] = a /\ hand'[r] = h
        /\ \A v \in Workers : v # r =>
             at'[v] = at[v] /\ arg'[v] = arg[v] /\ hand'[v] = hand[v]
    BY Pointwise DEF TablesBase
  <1>2. TypesOk'
    <2>1. at' \in [Workers -> Supp!Places]
      BY DEF TablesBase, TypesOk, Supp!TablesTypeOK, Becomes
    <2>2. a \in Ids \cup Insts \cup Supp!Slots \cup {None}
      BY DEF ArgFits, OnSlotPlaces, OnInstPlaces, Supp!Places, Supp!Asked
    <2>3. arg' \in [Workers -> Ids \cup Insts \cup Supp!Slots \cup {None}]
      BY <2>2 DEF TablesBase, TypesOk, Supp!TablesTypeOK, Becomes
    <2>4. hand' \in [Workers -> Supp!Fds \cup {None}]
      BY DEF TablesBase, TypesOk, Supp!TablesTypeOK, Becomes
    <2> QED BY <2>1, <2>3, <2>4, ConstOps DEF TypesOk, Supp!TablesTypeOK
  <1>3. \A w \in Workers : ArgFits(at'[w], arg'[w]) /\ HandFits(at'[w], hand'[w])
    BY <1>1 DEF TablesBase, RequestsOk
  <1>4. \A w \in Workers : SlotThere(w)'
    <2> SUFFICES ASSUME NEW w \in Workers PROVE SlotThere(w)'
      OBVIOUS
    <2>1. CASE w = r
      BY <1>1, <2>1 DEF SlotThere, OnSlot, HandleFits
    <2>2. CASE w # r
      <3>1. SlotThere(w)
        BY DEF TablesBase, RequestsOk
      <3>2. CASE OnSlot(w)
        BY <1>1, <2>2, <3>1, <3>2 DEF SlotThere, OnSlot, HandleFits
      <3>3. CASE ~OnSlot(w)
        BY <1>1, <2>2, <3>3 DEF SlotThere, OnSlot, HandleFits, OnSlotPlaces, OnInstPlaces
      <3> QED BY <3>2, <3>3
    <2> QED BY <2>1, <2>2
  <1>5. \A v, w \in Workers : v # w => Apart(v, w)'
    <2> SUFFICES ASSUME NEW v \in Workers, NEW w \in Workers, v # w PROVE Apart(v, w)'
      OBVIOUS
    <2>1. CASE v = r
      BY <1>1, <2>1 DEF Apart, OnSlot, HandleFits
    <2>2. CASE w = r
      BY <1>1, <2>2 DEF Apart, OnSlot, HandleFits
    <2>3. CASE v # r /\ w # r
      <3>1. Apart(v, w)
        BY DEF TablesBase, RequestsOk
      <3> QED BY <1>1, <2>3, <3>1 DEF Apart, OnSlot, HandleFits
    <2> QED BY <2>1, <2>2, <2>3
  <1>6. RequestsOk'
    BY <1>3, <1>4, <1>5, ConstOps DEF RequestsOk, ArgFits, HandFits, Owning, OnSlotPlaces, OnInstPlaces
  <1> QED BY <1>2, <1>6 DEF TablesBase

-----------------------------------------------------------------------------
Own(w) == at[w] \in Owning

ListOk ==
  \A e \in shmList : behind[e.fd] = e.id /\ \A g \in shmList : g.fd = e.fd => g = e

SlotsOk ==
  \A s \in Supp!Slots : db[s] # None =>
    behind[db[s]] = Supp!Socket /\ \A t \in Supp!Slots : db[t] = db[s] => t = s

HandOk(w) ==
  /\ behind[hand[w]] # None
  /\ at[w] = "map" => behind[hand[w]] = arg[w]
  /\ at[w] \in {"transfer", "get"} => behind[hand[w]] = Supp!Socket
  /\ \A v \in Workers : Own(v) /\ hand[v] = hand[w] => v = w
  /\ \A e \in shmList : e.fd # hand[w]
  /\ \A s \in Supp!Slots : db[s] # hand[w]

HandsOk == \A w \in Workers : Own(w) => HandOk(w)

OwnedBy(f) ==
  \/ \E e \in shmList : e.fd = f
  \/ \E s \in Supp!Slots : db[s] = f
  \/ \E w \in Workers : Own(w) /\ hand[w] = f

AllOwned == \A f \in Supp!Fds : behind[f] # None => OwnedBy(f)

IdsUnique ==
  \A f, g \in Supp!Fds : behind[f] \in Ids /\ behind[g] = behind[f] => f = g

FdsOk == ListOk /\ SlotsOk /\ HandsOk /\ AllOwned /\ IdsUnique

LEMMA OwnHasFd ==
  ASSUME TablesBase, NEW v \in Workers, Own(v)
  PROVE  hand[v] \in Supp!Fds /\ hand[v] # None
  BY DEF TablesBase, TypesOk, Supp!TablesTypeOK, RequestsOk, HandFits, Own

(* No descriptor changes hands.                                            *)
LEMMA FdsFrame ==
  ASSUME TablesBase, FdsOk, UNCHANGED <<behind, shmList, db>>,
         NEW r \in Workers, NEW p, NEW a, NEW h, Becomes(r, p, a, h),
         \/ ~Own(r) /\ p \notin Owning
         \/ Own(r) /\ p = "close" /\ h = hand[r]
  PROVE  FdsOk'
  <1>1. /\ at'[r] = p /\ arg'[r] = a /\ hand'[r] = h
        /\ \A v \in Workers : v # r =>
             at'[v] = at[v] /\ arg'[v] = arg[v] /\ hand'[v] = hand[v]
    BY Pointwise DEF TablesBase
  <1>2. \A v \in Workers : (Own(v)' <=> Own(v)) /\ (Own(v) => hand'[v] = hand[v])
    BY <1>1 DEF Own, Owning
  <1>3. ListOk' /\ SlotsOk'
    BY ConstOps DEF FdsOk, ListOk, SlotsOk
  <1>4. HandsOk'
    <2> SUFFICES ASSUME NEW v \in Workers, Own(v) PROVE HandOk(v)'
      BY <1>2 DEF HandsOk
    <2>1. HandOk(v) /\ hand'[v] = hand[v]
      BY <1>2 DEF FdsOk, HandsOk
    <2>2. at'[v] = "close" \/ (at'[v] = at[v] /\ arg'[v] = arg[v])
      BY <1>1 DEF Own
    <2> QED BY <1>2, <2>1, <2>2, ConstOps DEF HandOk
  <1>5. AllOwned'
    BY <1>2, ConstOps DEF FdsOk, AllOwned, OwnedBy
  <1>6. IdsUnique'
    BY ConstOps DEF FdsOk, IdsUnique
  <1> QED BY <1>3, <1>4, <1>5, <1>6 DEF FdsOk

(* The kernel gives a descriptor that is not open.                         *)
LEMMA FdsOpen ==
  ASSUME TablesBase, FdsOk, UNCHANGED <<shmList, db>>,
         NEW r \in Workers, NEW p, NEW a, NEW h \in Supp!Fds, Becomes(r, p, a, h),
         NEW what \in Ids \cup {Supp!Socket},
         behind[h] = None, behind' = [behind EXCEPT ![h] = what], ~Own(r),
         \/ p = "map" /\ what = a /\ \A f \in Supp!Fds : behind[f] # what
         \/ p \in {"transfer", "get"} /\ what = Supp!Socket
  PROVE  FdsOk'
  <1>0. /\ what # None /\ h # None /\ Supp!Socket \notin Ids
        /\ behind \in [Supp!Fds -> Ids \cup {Supp!Socket, None}]
        /\ shmList \subseteq [id : Ids, fd : Supp!Fds, by : Workers]
        /\ db \in [Supp!Slots -> Supp!Fds \cup {None}]
        /\ hand \in [Workers -> Supp!Fds \cup {None}]
    BY RpcAssumption DEF TablesBase, TypesOk, Supp!TablesTypeOK
  <1>1. /\ at'[r] = p /\ arg'[r] = a /\ hand'[r] = h
        /\ \A v \in Workers : v # r =>
             at'[v] = at[v] /\ arg'[v] = arg[v] /\ hand'[v] = hand[v]
    BY Pointwise DEF TablesBase
  <1>2. behind'[h] = what /\ \A f \in Supp!Fds : f # h => behind'[f] = behind[f]
    BY <1>0
  <1>3. Own(r)' /\ \A v \in Workers : v # r => (Own(v)' <=> Own(v))
    BY <1>1 DEF Own, Owning
  <1>4. \A e \in shmList : e.fd \in Supp!Fds /\ e.id \in Ids /\ e.fd # h
    BY <1>0, RpcAssumption DEF FdsOk, ListOk
  <1>5. \A s \in Supp!Slots : db[s] # h
    BY <1>0, RpcAssumption DEF FdsOk, SlotsOk
  <1>6. \A v \in Workers : Own(v) => hand[v] # h /\ behind[hand[v]] # None
    BY DEF FdsOk, HandsOk, HandOk
  <1>7. ListOk'
    BY <1>2, <1>4 DEF FdsOk, ListOk
  <1>8. SlotsOk'
    <2> SUFFICES ASSUME NEW s \in Supp!Slots, db[s] # None PROVE SlotsOk!(s)'
      BY ConstOps DEF SlotsOk
    <2>1. db[s] \in Supp!Fds /\ db[s] # h
      BY <1>0, <1>5
    <2> QED BY <1>2, <2>1, ConstOps DEF FdsOk, SlotsOk
  <1>9. HandsOk'
    <2> SUFFICES ASSUME NEW v \in Workers, Own(v)' PROVE HandOk(v)'
      BY DEF HandsOk
    <2>1. CASE v = r
      BY <1>0, <1>1, <1>2, <1>3, <1>4, <1>5, <1>6, <2>1, ConstOps DEF HandOk
    <2>2. CASE v # r
      <3>1. Own(v) /\ HandOk(v) /\ hand[v] # h
        BY <1>3, <1>6, <2>2 DEF FdsOk, HandsOk
      <3>2. hand[v] \in Supp!Fds
        BY <3>1, OwnHasFd
      <3> QED BY <1>1, <1>2, <1>3, <2>2, <3>1, <3>2, ConstOps DEF HandOk
    <2> QED BY <2>1, <2>2
  <1>10. AllOwned'
    <2> SUFFICES ASSUME NEW f \in Supp!Fds, behind'[f] # None PROVE OwnedBy(f)'
      BY ConstOps DEF AllOwned
    <2>1. CASE f = h
      BY <1>1, <1>3, <2>1 DEF OwnedBy
    <2>2. CASE f # h
      <3>1. OwnedBy(f)
        BY <1>2, <2>2 DEF FdsOk, AllOwned
      <3>2. \A v \in Workers : Own(v) => v # r
        OBVIOUS
      <3> QED BY <1>1, <1>3, <3>1, <3>2, ConstOps DEF OwnedBy
    <2> QED BY <2>1, <2>2
  <1>11. IdsUnique'
    <2> SUFFICES ASSUME NEW f \in Supp!Fds, NEW g \in Supp!Fds,
                        behind'[f] \in Ids, behind'[g] = behind'[f]
                 PROVE  f = g
      BY ConstOps DEF IdsUnique
    <2>1. CASE f # h /\ g # h
      BY <1>2, <2>1 DEF FdsOk, IdsUnique
    <2>2. CASE f = h \/ g = h
      BY <1>0, <1>2, <2>2
    <2> QED BY <2>1, <2>2
  <1> QED BY <1>7, <1>8, <1>9, <1>10, <1>11 DEF FdsOk

(* A thread closes the descriptor that it has.                             *)
LEMMA FdsClose ==
  ASSUME TablesBase, FdsOk, UNCHANGED <<shmList, db>>,
         NEW r \in Workers, NEW p, NEW a, Becomes(r, p, a, None),
         Own(r), p \notin Owning, Supp!CloseFds({hand[r]})
  PROVE  FdsOk'
  <1> DEFINE h == hand[r]
  <1>0. /\ h \in Supp!Fds /\ h # None
        /\ behind \in [Supp!Fds -> Ids \cup {Supp!Socket, None}]
        /\ shmList \subseteq [id : Ids, fd : Supp!Fds, by : Workers]
        /\ db \in [Supp!Slots -> Supp!Fds \cup {None}]
    BY OwnHasFd DEF TablesBase, TypesOk, Supp!TablesTypeOK
  <1>1. /\ at'[r] = p
        /\ \A v \in Workers : v # r =>
             at'[v] = at[v] /\ arg'[v] = arg[v] /\ hand'[v] = hand[v]
    BY Pointwise DEF TablesBase
  <1>2. behind'[h] = None /\ \A f \in Supp!Fds : f # h => behind'[f] = behind[f]
    BY <1>0 DEF Supp!CloseFds
  <1>3. ~Own(r)' /\ \A v \in Workers : v # r => (Own(v)' <=> Own(v))
    BY <1>1 DEF Own
  <1>4. HandOk(r)
    BY DEF FdsOk, HandsOk
  <1> HIDE DEF h
  <1>5. ListOk'
    BY <1>0, <1>2, <1>4 DEF h, FdsOk, ListOk, HandOk
  <1>6. SlotsOk'
    <2> SUFFICES ASSUME NEW s \in Supp!Slots, db[s] # None PROVE SlotsOk!(s)'
      BY ConstOps DEF SlotsOk
    <2>1. db[s] \in Supp!Fds /\ db[s] # h
      BY <1>0, <1>4 DEF h, HandOk
    <2> QED BY <1>2, <2>1, ConstOps DEF FdsOk, SlotsOk
  <1>7. HandsOk'
    <2> SUFFICES ASSUME NEW v \in Workers, Own(v)' PROVE HandOk(v)'
      BY DEF HandsOk
    <2>1. v # r /\ Own(v) /\ HandOk(v) /\ hand[v] \in Supp!Fds
      BY <1>3, OwnHasFd DEF FdsOk, HandsOk
    <2>2. hand[v] # h
      BY <1>4, <2>1 DEF h, HandOk
    <2> QED BY <1>1, <1>2, <1>3, <2>1, <2>2, ConstOps DEF HandOk
  <1>8. AllOwned'
    <2> SUFFICES ASSUME NEW f \in Supp!Fds, behind'[f] # None PROVE OwnedBy(f)'
      BY ConstOps DEF AllOwned
    <2>1. f # h /\ OwnedBy(f)
      BY <1>2 DEF FdsOk, AllOwned
    <2> QED BY <1>1, <1>3, <2>1, ConstOps DEF h, OwnedBy
  <1>9. IdsUnique'
    <2> SUFFICES ASSUME NEW f \in Supp!Fds, NEW g \in Supp!Fds,
                        behind'[f] \in Ids, behind'[g] = behind'[f]
                 PROVE  f = g
      BY ConstOps DEF IdsUnique
    <2>1. f # h /\ g # h
      BY <1>2, RpcAssumption
    <2> QED BY <1>2, <2>1 DEF FdsOk, IdsUnique
  <1> QED BY <1>5, <1>6, <1>7, <1>8, <1>9 DEF FdsOk

(* Memory gets into the list, and out of it.                               *)
LEMMA FdsPush ==
  ASSUME TablesBase, FdsOk, UNCHANGED <<behind, db>>,
         NEW r \in Workers, NEW p, NEW a, Becomes(r, p, a, None),
         at[r] = "map", p \notin Owning,
         shmList' = shmList \cup {[id |-> arg[r], fd |-> hand[r], by |-> r]}
  PROVE  FdsOk'
  <1> DEFINE new == [id |-> arg[r], fd |-> hand[r], by |-> r]
  <1>0. Own(r)
    BY DEF Own, Owning
  <1>1. /\ at'[r] = p
        /\ \A v \in Workers : v # r =>
             at'[v] = at[v] /\ arg'[v] = arg[v] /\ hand'[v] = hand[v]
    BY Pointwise DEF TablesBase
  <1>2. HandOk(r) /\ hand[r] \in Supp!Fds /\ arg[r] \in Ids
    BY <1>0, OwnHasFd DEF FdsOk, HandsOk, TablesBase, RequestsOk, ArgFits
  <1>3. new.fd = hand[r] /\ new.id = arg[r]
    OBVIOUS
  <1>4. shmList' = shmList \cup {new}
    OBVIOUS
  <1> HIDE DEF new
  <1>5. ~Own(r)' /\ \A v \in Workers : v # r => (Own(v)' <=> Own(v))
    BY <1>1 DEF Own
  <1>6. ListOk'
    <2>1. \A e \in shmList : e.fd # new.fd /\ behind[e.fd] = e.id
      BY <1>2, <1>3 DEF HandOk, FdsOk, ListOk
    <2>2. behind[new.fd] = new.id
      BY <1>2, <1>3 DEF HandOk
    <2> QED BY <1>4, <2>1, <2>2 DEF FdsOk, ListOk
  <1>7. SlotsOk' /\ IdsUnique'
    BY ConstOps DEF FdsOk, SlotsOk, IdsUnique
  <1>8. HandsOk'
    <2> SUFFICES ASSUME NEW v \in Workers, Own(v)' PROVE HandOk(v)'
      BY DEF HandsOk
    <2>1. v # r /\ Own(v) /\ HandOk(v) /\ hand[v] # hand[r]
      BY <1>0, <1>2, <1>5 DEF FdsOk, HandsOk, HandOk
    <2>2. \A e \in shmList' : e.fd # hand[v]
      BY <1>3, <1>4, <2>1 DEF HandOk
    <2> QED BY <1>1, <1>5, <2>1, <2>2, ConstOps DEF HandOk
  <1>9. AllOwned'
    <2> SUFFICES ASSUME NEW f \in Supp!Fds, behind[f] # None PROVE OwnedBy(f)'
      BY ConstOps DEF AllOwned
    <2>1. OwnedBy(f)
      BY DEF FdsOk, AllOwned
    <2>2. CASE f = hand[r]
      BY <1>3, <1>4, <2>2 DEF OwnedBy
    <2>3. CASE f # hand[r]
      BY <1>1, <1>4, <1>5, <2>1, <2>3, ConstOps DEF OwnedBy
    <2> QED BY <2>2, <2>3
  <1> QED BY <1>6, <1>7, <1>8, <1>9 DEF FdsOk

LEMMA FdsPop ==
  ASSUME TablesBase, FdsOk, UNCHANGED <<behind, db>>,
         NEW r \in Workers, NEW a, NEW e \in shmList, Becomes(r, "close", a, e.fd),
         ~Own(r), shmList' = shmList \ {e}
  PROVE  FdsOk'
  <1>1. /\ at'[r] = "close" /\ hand'[r] = e.fd
        /\ \A v \in Workers : v # r =>
             at'[v] = at[v] /\ arg'[v] = arg[v] /\ hand'[v] = hand[v]
    BY Pointwise DEF TablesBase
  <1>2. e.fd \in Supp!Fds /\ e.id \in Ids /\ behind[e.fd] = e.id
    BY DEF TablesBase, TypesOk, Supp!TablesTypeOK, FdsOk, ListOk
  <1>3. Own(r)' /\ \A v \in Workers : v # r => (Own(v)' <=> Own(v))
    BY <1>1 DEF Own, Owning
  <1>4. ListOk'
    BY DEF FdsOk, ListOk
  <1>5. SlotsOk' /\ IdsUnique'
    BY ConstOps DEF FdsOk, SlotsOk, IdsUnique
  <1>6. \A v \in Workers : Own(v) => HandOk(v) /\ v # r /\ hand[v] # e.fd
    BY DEF FdsOk, HandsOk, HandOk
  <1>7. HandsOk'
    <2> SUFFICES ASSUME NEW v \in Workers, Own(v)' PROVE HandOk(v)'
      BY DEF HandsOk
    <2>1. CASE v = r
      <3>1. behind[e.fd] # None
        BY <1>2, RpcAssumption
      <3>2. \A g \in shmList' : g.fd # e.fd
        BY DEF FdsOk, ListOk
      <3>3. \A s \in Supp!Slots : db[s] # e.fd
        <4> SUFFICES ASSUME NEW s \in Supp!Slots, db[s] = e.fd PROVE FALSE
          OBVIOUS
        <4>1. db[s] # None
          BY <1>2, RpcAssumption
        <4> QED BY <1>2, <4>1, RpcAssumption DEF FdsOk, SlotsOk
      <3> QED BY <1>1, <1>3, <1>6, <2>1, <3>1, <3>2, <3>3, ConstOps DEF HandOk
    <2>2. CASE v # r
      BY <1>1, <1>3, <1>6, <2>2, ConstOps DEF HandOk
    <2> QED BY <2>1, <2>2
  <1>8. AllOwned'
    <2> SUFFICES ASSUME NEW f \in Supp!Fds, behind[f] # None PROVE OwnedBy(f)'
      BY ConstOps DEF AllOwned
    <2>1. OwnedBy(f)
      BY DEF FdsOk, AllOwned
    <2>2. CASE f = e.fd
      BY <1>1, <1>3, <2>2 DEF OwnedBy
    <2>3. CASE f # e.fd
      BY <1>1, <1>3, <1>6, <2>1, <2>3, ConstOps DEF OwnedBy
    <2> QED BY <2>2, <2>3
  <1> QED BY <1>4, <1>5, <1>7, <1>8 DEF FdsOk

(* A socket gets a handle, and loses it.                                   *)
LEMMA FdsGet ==
  ASSUME TablesBase, FdsOk, UNCHANGED <<behind, shmList>>,
         NEW r \in Workers, NEW p, NEW a, Becomes(r, p, a, None),
         at[r] = "get", p \notin Owning,
         NEW s \in Supp!Slots, db[s] = None, db' = [db EXCEPT ![s] = hand[r]]
  PROVE  FdsOk'
  <1>0. Own(r)
    BY DEF Own, Owning
  <1>1. /\ at'[r] = p
        /\ \A v \in Workers : v # r =>
             at'[v] = at[v] /\ arg'[v] = arg[v] /\ hand'[v] = hand[v]
    BY Pointwise DEF TablesBase
  <1>2. HandOk(r) /\ hand[r] \in Supp!Fds /\ hand[r] # None
    BY <1>0, OwnHasFd DEF FdsOk, HandsOk
  <1>3. db'[s] = hand[r] /\ \A t \in Supp!Slots : t # s => db'[t] = db[t]
    BY DEF TablesBase, TypesOk, Supp!TablesTypeOK
  <1>4. ~Own(r)' /\ \A v \in Workers : v # r => (Own(v)' <=> Own(v))
    BY <1>1 DEF Own
  <1>5. ListOk' /\ IdsUnique'
    BY ConstOps DEF FdsOk, ListOk, IdsUnique
  <1>6. SlotsOk'
    <2>1. behind[hand[r]] = Supp!Socket /\ \A t \in Supp!Slots : db[t] # hand[r]
      BY <1>2 DEF HandOk
    <2> SUFFICES ASSUME NEW t \in Supp!Slots, db'[t] # None PROVE SlotsOk!(t)'
      BY ConstOps DEF SlotsOk
    <2>2. CASE t = s
      BY <1>3, <2>1, <2>2, ConstOps
    <2>3. CASE t # s
      BY <1>3, <2>1, <2>3, ConstOps DEF FdsOk, SlotsOk
    <2> QED BY <2>2, <2>3
  <1>7. HandsOk'
    <2> SUFFICES ASSUME NEW v \in Workers, Own(v)' PROVE HandOk(v)'
      BY DEF HandsOk
    <2>1. v # r /\ Own(v) /\ HandOk(v) /\ hand[v] # hand[r]
      BY <1>0, <1>2, <1>4 DEF FdsOk, HandsOk, HandOk
    <2>2. \A t \in Supp!Slots : db'[t] # hand[v]
      BY <1>3, <2>1 DEF HandOk
    <2> QED BY <1>1, <1>4, <2>1, <2>2, ConstOps DEF HandOk
  <1>8. AllOwned'
    <2> SUFFICES ASSUME NEW f \in Supp!Fds, behind[f] # None PROVE OwnedBy(f)'
      BY ConstOps DEF AllOwned
    <2>1. OwnedBy(f)
      BY DEF FdsOk, AllOwned
    <2>2. CASE f = hand[r]
      BY <1>3, <2>2, ConstOps DEF OwnedBy
    <2>3. CASE \E e \in shmList : e.fd = f
      BY <2>3 DEF OwnedBy
    <2>4. CASE \E t \in Supp!Slots : db[t] = f
      <3>1. PICK t \in Supp!Slots : db[t] = f
        BY <2>4
      <3>2. t # s
        BY <3>1, RpcAssumption
      <3> QED BY <1>3, <3>1, <3>2, ConstOps DEF OwnedBy
    <2>5. CASE f # hand[r] /\ \E v \in Workers : Own(v) /\ hand[v] = f
      BY <1>1, <1>4, <2>5 DEF OwnedBy
    <2> QED BY <2>1, <2>2, <2>3, <2>4, <2>5 DEF OwnedBy
  <1> QED BY <1>5, <1>6, <1>7, <1>8 DEF FdsOk

LEMMA FdsPut ==
  ASSUME TablesBase, FdsOk, UNCHANGED <<behind, shmList>>,
         NEW r \in Workers, NEW a, NEW s \in Supp!Slots, db[s] # None,
         Becomes(r, "close", a, db[s]), ~Own(r), db' = [db EXCEPT ![s] = None]
  PROVE  FdsOk'
  <1> DEFINE h == db[s]
  <1>1. /\ at'[r] = "close" /\ hand'[r] = h
        /\ \A v \in Workers : v # r =>
             at'[v] = at[v] /\ arg'[v] = arg[v] /\ hand'[v] = hand[v]
    BY Pointwise DEF TablesBase
  <1>2. h \in Supp!Fds /\ h # None /\ behind[h] = Supp!Socket
    BY DEF TablesBase, TypesOk, Supp!TablesTypeOK, FdsOk, SlotsOk
  <1>3. db'[s] = None /\ \A t \in Supp!Slots : t # s => db'[t] = db[t] /\ db[t] # h
    BY DEF TablesBase, TypesOk, Supp!TablesTypeOK, FdsOk, SlotsOk
  <1>4. Own(r)' /\ \A v \in Workers : v # r => (Own(v)' <=> Own(v))
    BY <1>1 DEF Own, Owning
  <1>5. \A v \in Workers : Own(v) => HandOk(v) /\ v # r /\ hand[v] # h
    BY DEF FdsOk, HandsOk, HandOk
  <1>6. \A v \in Workers : Own(v) => hand[v] # None
    BY OwnHasFd
  <1> HIDE DEF h
  <1>7. ListOk' /\ IdsUnique'
    BY ConstOps DEF FdsOk, ListOk, IdsUnique
  <1>8. SlotsOk'
    <2> SUFFICES ASSUME NEW t \in Supp!Slots, db'[t] # None PROVE SlotsOk!(t)'
      BY ConstOps DEF SlotsOk
    <2> QED BY <1>3, ConstOps DEF FdsOk, SlotsOk
  <1>9. HandsOk'
    <2> SUFFICES ASSUME NEW v \in Workers, Own(v)' PROVE HandOk(v)'
      BY DEF HandsOk
    <2>1. CASE v = r
      <3>1. behind[h] # None
        BY <1>2, RpcAssumption
      <3>2. \A e \in shmList : e.fd # h
        BY <1>2, RpcAssumption DEF FdsOk, ListOk, TablesBase, TypesOk, Supp!TablesTypeOK
      <3>3. \A t \in Supp!Slots : db'[t] # h
        BY <1>2, <1>3
      <3> QED BY <1>1, <1>4, <1>5, <2>1, <3>1, <3>2, <3>3, ConstOps DEF HandOk
    <2>2. CASE v # r
      <3>1. Own(v) /\ HandOk(v) /\ hand[v] # h /\ hand[v] # None
        BY <1>4, <1>5, <1>6, <2>2
      <3>2. \A t \in Supp!Slots : db'[t] # hand[v]
        BY <1>3, <3>1 DEF HandOk
      <3> QED BY <1>1, <1>4, <2>2, <3>1, <3>2, ConstOps DEF HandOk
    <2> QED BY <2>1, <2>2
  <1>10. AllOwned'
    <2> SUFFICES ASSUME NEW f \in Supp!Fds, behind[f] # None PROVE OwnedBy(f)'
      BY ConstOps DEF AllOwned
    <2>1. OwnedBy(f)
      BY DEF FdsOk, AllOwned
    <2>2. CASE f = h
      BY <1>1, <1>4, <2>2 DEF OwnedBy
    <2>3. CASE f # h
      BY <1>1, <1>3, <1>4, <1>5, <2>1, <2>3, ConstOps DEF h, OwnedBy
    <2> QED BY <2>2, <2>3
  <1> QED BY <1>7, <1>8, <1>9, <1>10 DEF FdsOk

(* tee_socket_close_all.                                                   *)
LEMMA FdsCloseAll ==
  ASSUME TablesBase, FdsOk, UNCHANGED shmList,
         NEW r \in Workers, NEW p, NEW a, NEW h, Becomes(r, p, a, h),
         ~Own(r), p \notin Owning, NEW S \in SUBSET Supp!Slots,
         Supp!CloseFds({db[s] : s \in S}),
         db' = [s \in Supp!Slots |-> IF s \in S THEN None ELSE db[s]]
  PROVE  FdsOk'
  <1> DEFINE C == {db[s] : s \in S}
  <1>1. /\ at'[r] = p
        /\ \A v \in Workers : v # r =>
             at'[v] = at[v] /\ arg'[v] = arg[v] /\ hand'[v] = hand[v]
    BY Pointwise DEF TablesBase
  <1>2. ~Own(r)' /\ \A v \in Workers : v # r => (Own(v)' <=> Own(v))
    BY <1>1 DEF Own
  <1>3. \A f \in Supp!Fds : behind'[f] = IF f \in C THEN None ELSE behind[f]
    BY DEF Supp!CloseFds
  <1>4. \A s \in Supp!Slots : db'[s] = IF s \in S THEN None ELSE db[s]
    OBVIOUS
  <1>5. /\ \A e \in shmList : e.fd \in Supp!Fds /\ e.id \in Ids
        /\ \A s \in Supp!Slots : db[s] \in Supp!Fds \cup {None}
    BY DEF TablesBase, TypesOk, Supp!TablesTypeOK
  <1>6. \A f \in C : f = None \/ behind[f] = Supp!Socket
    BY DEF FdsOk, SlotsOk
  <1>7. \A s \in Supp!Slots : s \notin S /\ db[s] # None => db[s] \notin C
    BY DEF FdsOk, SlotsOk
  <1>8. \A v \in Workers : Own(v) =>
          HandOk(v) /\ v # r /\ hand[v] \notin C /\ hand[v] \in Supp!Fds /\ hand[v] # None
    BY OwnHasFd DEF FdsOk, HandsOk, HandOk
  <1>9. None \notin Supp!Fds /\ Supp!Socket \notin Ids
    BY RpcAssumption
  <1> HIDE DEF C
  <1>10. ListOk'
    <2>1. \A e \in shmList : e.fd \notin C
      BY <1>5, <1>6, <1>9 DEF FdsOk, ListOk
    <2> QED BY <1>3, <1>5, <2>1 DEF FdsOk, ListOk
  <1>11. SlotsOk'
    <2> SUFFICES ASSUME NEW t \in Supp!Slots, db'[t] # None PROVE SlotsOk!(t)'
      BY ConstOps DEF SlotsOk
    <2>1. t \notin S /\ db'[t] = db[t] /\ db[t] \notin C /\ db[t] \in Supp!Fds
      BY <1>4, <1>5, <1>7
    <2> QED BY <1>3, <1>4, <2>1, ConstOps DEF FdsOk, SlotsOk
  <1>12. HandsOk'
    <2> SUFFICES ASSUME NEW v \in Workers, Own(v)' PROVE HandOk(v)'
      BY DEF HandsOk
    <2>1. v # r /\ Own(v)
      BY <1>2
    <2>2. \A s \in Supp!Slots : db'[s] # hand[v]
      BY <1>4, <1>8, <2>1 DEF HandOk
    <2> QED BY <1>1, <1>2, <1>3, <1>8, <2>1, <2>2, ConstOps DEF HandOk
  <1>13. AllOwned'
    <2> SUFFICES ASSUME NEW f \in Supp!Fds, behind'[f] # None PROVE OwnedBy(f)'
      BY ConstOps DEF AllOwned
    <2>1. f \notin C /\ OwnedBy(f)
      BY <1>3 DEF FdsOk, AllOwned
    <2>2. \A s \in Supp!Slots : db[s] = f => db'[s] = f
      BY <1>4, <2>1 DEF C
    <2> QED BY <1>1, <1>2, <2>1, <2>2, ConstOps DEF OwnedBy
  <1>14. IdsUnique'
    <2> SUFFICES ASSUME NEW f \in Supp!Fds, NEW g \in Supp!Fds,
                        behind'[f] \in Ids, behind'[g] = behind'[f]
                 PROVE  f = g
      BY ConstOps DEF IdsUnique
    <2>1. behind'[f] = behind[f] /\ behind'[g] = behind[g]
      BY <1>3, RpcAssumption
    <2> QED BY <2>1 DEF FdsOk, IdsUnique
  <1> QED BY <1>10, <1>11, <1>12, <1>13, <1>14 DEF FdsOk

(* Nothing is left when the process has ended.                             *)
LEMMA FdsEnd ==
  ASSUME NEW H, Supp!ProcessEnds(H), TablesBase
  PROVE  FdsOk'
  <1>1. /\ shmList' = {}
        /\ \A s \in Supp!Slots : db'[s] = None
        /\ \A f \in Supp!Fds : behind'[f] = None
        /\ \A w \in Workers : at'[w] \in {"none", "answered"}
    BY DEF Supp!ProcessEnds, Supp!CloseFds
  <1>2. \A w \in Workers : ~Own(w)'
    BY <1>1 DEF Own, Owning
  <1> QED BY <1>1, <1>2, ConstOps, RpcAssumption DEF FdsOk, ListOk, SlotsOk,
      HandsOk, AllOwned, IdsUnique

-----------------------------------------------------------------------------
HasEntry(w, id) == \E e \in shmList : e.id = id /\ e.by = w

NothingBehind(id) == \A f \in Supp!Fds : behind[f] # id

(* The memory that the driver holds for a call, or is about to, or has     *)
(* just asked to be freed, is in the list of tee-supplicant for that call; *)
(* or it is of a process that ended, and then it has no descriptor.        *)
OwnPiece(w) ==
  /\ piece[w] # None /\ w \notin old => HasEntry(w, piece[w])
  /\ at[w] \in {"answered", "free"} /\ w \notin old => HasEntry(w, arg[w])
  /\ w \in old /\ piece[w] # None => NothingBehind(piece[w])
  /\ at[w] \in {"connect", "transfer"} /\ arg[w] # None => w \notin old

PieceOk(w) ==
  /\ w \in old => piece[w] # None \/ at[w] \in {"answered", "free"}
  /\ at[w] \in {"alloc", "map", "answered", "free"} => piece[w] = None
  /\ at[w] = "network" => arg[w] = piece[w]
  /\ at[w] \in {"connect", "transfer"} /\ arg[w] # None => arg[w] = piece[w]
  /\ w \notin mixed => OwnPiece(w)

(* The identifiers of a call, which the driver holds for no other.         *)
Claims(w, id) ==
  \/ piece[w] = id
  \/ at[w] \in {"map", "answered"} /\ w \notin old /\ arg[w] = id

Alone(w) == \A v \in Workers : v # w /\ piece[v] # None => ~Claims(w, piece[v])

PiecesOnce == \A w \in Workers : w \notin mixed => Alone(w)

PiecesOk == (\A w \in Workers : PieceOk(w)) /\ PiecesOnce

LEMMA PiecesStep ==
  ASSUME TablesBase, PiecesOk,
         NEW r \in Workers, NEW p, NEW a, NEW h, Becomes(r, p, a, h),
         \A v \in Workers : v # r =>
           /\ piece'[v] = piece[v] /\ (v \in old' <=> v \in old)
           /\ v \notin mixed' => v \notin mixed,
         \A v \in Workers : v # r /\ v \notin mixed' =>
           \A e \in shmList : e.by = v => e \in shmList',
         \A v \in Workers : v # r /\ v \in old /\ piece[v] # None /\ NothingBehind(piece[v])
           => NothingBehind(piece[v])',
         \A v \in Workers : v # r /\ v \notin mixed' /\ piece'[r] # None =>
           ~Claims(v, piece'[r]),
         r \notin mixed' => Alone(r)',
         PieceOk(r)'
  PROVE  PiecesOk'
  <1>1. \A v \in Workers : v # r =>
          at'[v] = at[v] /\ arg'[v] = arg[v] /\ hand'[v] = hand[v]
    BY Pointwise DEF TablesBase
  <1>2. ASSUME NEW v \in Workers, v # r, v \notin mixed' PROVE Alone(v)'
    <2>1. Alone(v)
      BY <1>2 DEF PiecesOk, PiecesOnce
    <2>2. \A id : Claims(v, id)' <=> Claims(v, id)
      BY <1>1, <1>2 DEF Claims
    <2> SUFFICES ASSUME NEW u \in Workers, u # v, piece'[u] # None
                 PROVE  ~Claims(v, piece'[u])
      BY <2>2 DEF Alone, Claims
    <2>3. CASE u = r
      BY <1>2, <2>3
    <2>4. CASE u # r
      BY <2>1, <2>4 DEF Alone
    <2> QED BY <2>3, <2>4
  <1>3. ASSUME NEW v \in Workers, v # r PROVE PieceOk(v)'
    <2>1. PieceOk(v)
      BY DEF PiecesOk
    <2>2. \A id : v \notin mixed' => (HasEntry(v, id) => HasEntry(v, id)')
      BY <1>3 DEF HasEntry
    <2>3. v \notin mixed' /\ v \in old /\ piece[v] # None => NothingBehind(piece[v])'
      BY <1>3, <2>1 DEF PieceOk, OwnPiece, NothingBehind
    <2>4. /\ at'[v] = at[v] /\ arg'[v] = arg[v] /\ piece'[v] = piece[v]
          /\ (v \in old' <=> v \in old) /\ (v \notin mixed' => v \notin mixed)
      BY <1>1, <1>3
    <2> QED BY <2>1, <2>2, <2>3, <2>4 DEF PieceOk, OwnPiece
  <1> QED BY <1>2, <1>3 DEF PiecesOk, PiecesOnce

(* A step that gets no memory.                                             *)
LEMMA PiecesKeep ==
  ASSUME TablesBase, PiecesOk,
         NEW r \in Workers, NEW p, NEW a, NEW h, Becomes(r, p, a, h),
         \A v \in Workers : v # r =>
           /\ piece'[v] = piece[v] /\ (v \in old' <=> v \in old)
           /\ v \notin mixed' => v \notin mixed,
         \A v \in Workers : v # r /\ v \notin mixed' =>
           \A e \in shmList : e.by = v => e \in shmList',
         \A v \in Workers : v # r /\ v \in old /\ piece[v] # None /\ NothingBehind(piece[v])
           => NothingBehind(piece[v])',
         piece'[r] \in {piece[r], None},
         \/ piece'[r] = None /\ p \notin {"map", "answered"}
         \/ /\ r \notin mixed' => r \notin mixed
            /\ \A id : Claims(r, id)' => Claims(r, id),
         PieceOk(r)'
  PROVE  PiecesOk'
  <1>1. \A v \in Workers : v # r /\ v \notin mixed' /\ piece'[r] # None =>
          ~Claims(v, piece'[r])
    BY DEF PiecesOk, PiecesOnce, Alone
  <1>2. ASSUME r \notin mixed' PROVE Alone(r)'
    <2> SUFFICES ASSUME NEW v \in Workers, v # r, piece'[v] # None
                 PROVE  ~Claims(r, piece[v])'
      BY DEF Alone
    <2>0. piece'[v] = piece[v] /\ at'[r] = p
      BY Pointwise DEF TablesBase
    <2>1. CASE piece'[r] = None /\ p \notin {"map", "answered"}
      BY <2>0, <2>1 DEF Claims
    <2>2. CASE /\ r \notin mixed' => r \notin mixed
               /\ \A id : Claims(r, id)' => Claims(r, id)
      <3>1. Alone(r)
        BY <1>2, <2>2 DEF PiecesOk, PiecesOnce
      <3> QED BY <2>0, <2>2, <3>1 DEF Alone, Claims
    <2> QED BY <2>1, <2>2
  <1> QED BY <1>1, <1>2, PiecesStep

(* The memory of the others is not concerned.                              *)
LEMMA PiecesFrame ==
  ASSUME TablesBase, PiecesOk,
         NEW r \in Workers, NEW p, NEW a, NEW h, Becomes(r, p, a, h),
         UNCHANGED <<shmList, piece, old, mixed>>,
         \A f \in Supp!Fds : behind'[f] \in {behind[f], Supp!Socket, None},
         p \notin {"alloc", "answered", "free", "map", "network"},
         at[r] = "free" => r \notin old, at[r] # "answered",
         p \in {"connect", "transfer"} /\ a # None =>
           a = piece[r] /\ (r \in mixed \/ r \notin old)
  PROVE  PiecesOk'
  <1>1. at'[r] = p /\ arg'[r] = a
    BY Pointwise DEF TablesBase
  <1>2. \A v \in Workers : piece[v] \in Ids \cup {None}
    BY DEF TablesBase, TypesOk
  <1>3. \A v \in Workers : piece[v] # None /\ NothingBehind(piece[v]) =>
                             NothingBehind(piece[v])'
    BY <1>2, ConstOps, RpcAssumption DEF NothingBehind
  <1>4. PieceOk(r)
    BY DEF PiecesOk
  <1>5. PieceOk(r)'
    BY <1>1, <1>3, <1>4 DEF PieceOk, OwnPiece, HasEntry
  <1>6. \A id : Claims(r, id)' => Claims(r, id)
    BY <1>1 DEF Claims
  <1> QED BY <1>3, <1>5, <1>6, PiecesKeep

-----------------------------------------------------------------------------
TablesInv == TablesBase /\ (spoilt \/ (FdsOk /\ PiecesOk))

LEMMA Same ==
  ASSUME TablesBase, NEW r \in Workers
  PROVE  hand = [hand EXCEPT ![r] = hand[r]] /\ arg = [arg EXCEPT ![r] = arg[r]]
  BY DEF TablesBase, TypesOk, Supp!TablesTypeOK

LEMMA HandNone ==
  ASSUME TablesBase, NEW r \in Workers, at[r] \notin Owning \cup {"use", "put"}
  PROVE  hand[r] = None /\ ~Own(r)
  BY DEF TablesBase, RequestsOk, HandFits, Own

(* The steps to a place that is not about a handle.                        *)
LEMMA BasePlain ==
  ASSUME TablesBase,
         NEW r \in Workers, NEW p \in Supp!Places, NEW a, NEW h \in Supp!Fds \cup {None},
         Becomes(r, p, a, h), ArgFits(p, a), HandFits(p, h),
         p \notin OnSlotPlaces \cup OnInstPlaces,
         behind' \in [Supp!Fds -> Ids \cup {Supp!Socket, None}],
         shmList' \subseteq [id : Ids, fd : Supp!Fds, by : Workers],
         db' \in [Supp!Slots -> Supp!Fds \cup {None}],
         old' \subseteq Workers, mixed' \subseteq Workers, spoilt' \in BOOLEAN,
         piece' \in [Workers -> Ids \cup {None}],
         \A v \in Workers : v # r /\ OnSlot(v) => db'[arg[v]] = db[arg[v]]
  PROVE  TablesBase'
  <1>1. HandleFits(r, p, a, h)
    BY DEF HandleFits, OnSlotPlaces, OnInstPlaces
  <1> QED BY <1>1, BaseStep

(* A step that leaves the tables and the memory alone.                     *)
LEMMA QuietInv ==
  ASSUME TablesInv, UNCHANGED <<behind, shmList, db, old, mixed, spoilt, piece>>,
         NEW r \in Workers, NEW p \in Supp!Places, NEW a, Becomes(r, p, a, None),
         ArgFits(p, a), at[r] \notin Owning, p \notin Owning \cup OnSlotPlaces,
         p \notin {"alloc", "answered", "free", "network"} \cup OnInstPlaces,
         at[r] = "free" => r \notin old, at[r] # "answered",
         ~spoilt /\ p = "connect" /\ a # None =>
           a = piece[r] /\ (r \in mixed \/ r \notin old)
  PROVE  TablesInv'
  <1>1. TablesBase'
    <2>1. HandFits(p, None)
      BY DEF HandFits, OnSlotPlaces, OnInstPlaces, Owning
    <2> QED BY <2>1, BasePlain DEF TablesInv, TablesBase, TypesOk, Supp!TablesTypeOK
  <1>2. ASSUME ~spoilt PROVE FdsOk' /\ PiecesOk'
    <2>1. FdsOk'
      BY <1>2, FdsFrame DEF TablesInv, Own, Owning
    <2>2. PiecesOk'
      BY <1>2, PiecesFrame DEF TablesInv, Owning
    <2> QED BY <2>1, <2>2
  <1> QED BY <1>1, <1>2 DEF TablesInv

(* A new descriptor.                                                       *)
LEMMA AllocInv ==
  ASSUME TablesInv, NEW r \in Workers, Supp!Alloc(r, InUse), UNCHANGED piece
  PROVE  TablesInv'
  <1>0. at[r] = "alloc" /\ hand[r] = None /\ ~Own(r)
    BY HandNone DEF TablesInv, Supp!Alloc, Supp!Goto, Supp!Finish, Owning
  <1>1. CASE Supp!Finish(r, "alloc") /\ UNCHANGED <<behind, hand>>
    <2>1. Becomes(r, "none", None, None)
      BY <1>0, <1>1, Same DEF TablesInv, Becomes, Supp!Finish, Supp!Goto, Supp!About
    <2>2. ArgFits("none", None) /\ "none" \in Supp!Places
      BY DEF ArgFits, OnSlotPlaces, OnInstPlaces, Supp!Places
    <2> QED BY <1>0, <1>1, <2>1, <2>2, QuietInv DEF Supp!Alloc, Owning, OnSlotPlaces, OnInstPlaces
  <1>2. ASSUME NEW f \in Supp!Fds, NEW id \in Ids \ InUse, Supp!Goto(r, "alloc", "map"),
               Supp!OpenAs(r, f, id), Supp!About(r, id)
        PROVE  TablesInv'
    <2>0. /\ behind[f] = None /\ behind' = [behind EXCEPT ![f] = id]
          /\ UNCHANGED <<shmList, db, old, mixed, spoilt, piece>>
          /\ \A g \in Supp!Fds : behind[g] # id
          /\ \A v \in Workers : piece[v] # id
      BY <1>2, RpcAssumption DEF Supp!OpenAs, Supp!Alloc, InUse, Held
    <2>1. Becomes(r, "map", id, f)
      BY <1>2 DEF Becomes, Supp!Goto, Supp!About, Supp!OpenAs, Supp!Hold
    <2>2. ArgFits("map", id) /\ HandFits("map", f) /\ "map" \in Supp!Places
      BY RpcAssumption DEF ArgFits, HandFits, Owning, OnSlotPlaces, OnInstPlaces, Supp!Places
    <2>3. TablesBase'
      <3>1. behind' \in [Supp!Fds -> Ids \cup {Supp!Socket, None}]
        BY <2>0 DEF TablesInv, TablesBase, TypesOk, Supp!TablesTypeOK
      <3> QED BY <2>0, <2>1, <2>2, <3>1, BasePlain
              DEF TablesInv, TablesBase, TypesOk, Supp!TablesTypeOK, OnSlotPlaces, OnInstPlaces
    <2>4. ASSUME ~spoilt PROVE FdsOk' /\ PiecesOk'
      <3>1. FdsOk'
        BY <1>0, <2>0, <2>1, <2>4, FdsOpen DEF TablesInv
      <3>2. \A g \in Supp!Fds : behind'[g] \in {behind[g], id}
        BY <2>0 DEF TablesInv, TablesBase, TypesOk, Supp!TablesTypeOK
      <3>3. \A v \in Workers : NothingBehind(piece[v]) => NothingBehind(piece[v])'
        BY <2>0, <3>2, ConstOps DEF NothingBehind
      <3>4. PieceOk(r) /\ at'[r] = "map" /\ arg'[r] = id /\ piece[r] = None /\ r \notin old
        BY <1>0, <2>1, <2>4, Pointwise DEF TablesInv, TablesBase, PiecesOk, PieceOk
      <3>5. PieceOk(r)'
        BY <2>0, <3>4 DEF PieceOk, OwnPiece
      <3>6. Alone(r)'
        <4> SUFFICES ASSUME NEW v \in Workers, piece[v] # None
                     PROVE  ~Claims(r, piece[v])'
          BY <2>0 DEF Alone
        <4> QED BY <2>0, <3>4 DEF Claims
      <3>7. PiecesOk'
        BY <2>0, <2>1, <2>4, <3>3, <3>4, <3>5, <3>6, PiecesStep DEF TablesInv
      <3> QED BY <3>1, <3>7
    <2> QED BY <2>0, <2>3, <2>4 DEF TablesInv
  <1> QED BY <1>1, <1>2 DEF Supp!Alloc

LEMMA ConnectInv ==
  ASSUME TablesInv, NEW r \in Workers, Supp!Connect(r), UNCHANGED piece
  PROVE  TablesInv'
  <1>0. at[r] \in {"connect", "open"} /\ hand[r] = None /\ ~Own(r)
    BY HandNone DEF TablesInv, Supp!Connect, Supp!Goto, Supp!Finish, Owning
  <1>1. CASE /\ Supp!Finish(r, "connect") \/ Supp!Finish(r, "open")
             /\ UNCHANGED <<behind, hand>>
    <2>1. Becomes(r, "none", None, None)
      BY <1>0, <1>1, Same DEF TablesInv, Becomes, Supp!Finish, Supp!Goto, Supp!About
    <2>2. ArgFits("none", None) /\ "none" \in Supp!Places
      BY DEF ArgFits, OnSlotPlaces, OnInstPlaces, Supp!Places
    <2> QED BY <1>0, <1>1, <2>1, <2>2, QuietInv DEF Supp!Connect, Owning, OnSlotPlaces, OnInstPlaces
  <1>2. ASSUME NEW f \in Supp!Fds, Supp!OpenAs(r, f, Supp!Socket), UNCHANGED arg,
               Supp!Goto(r, "connect", "transfer") \/ Supp!Goto(r, "open", "get")
        PROVE  TablesInv'
    <2> DEFINE p == at'[r]
               a == arg[r]
    <2>0. /\ behind[f] = None /\ behind' = [behind EXCEPT ![f] = Supp!Socket]
          /\ UNCHANGED <<shmList, db, old, mixed, spoilt, piece>>
      BY <1>2 DEF Supp!OpenAs, Supp!Connect
    <2>1. /\ \/ at[r] = "connect" /\ p = "transfer"
             \/ at[r] = "open" /\ p = "get"
          /\ at' = [at EXCEPT ![r] = p]
      BY <1>2 DEF Supp!Goto, TablesInv, TablesBase, TypesOk, Supp!TablesTypeOK
    <2>2. Becomes(r, p, a, f)
      BY <1>2, <2>1, Same DEF Becomes, Supp!OpenAs, Supp!Hold, TablesInv
    <2>3. ArgFits(p, a)
      BY <2>1 DEF TablesInv, TablesBase, RequestsOk, ArgFits, OnSlotPlaces, OnInstPlaces
    <2>4. HandFits(p, f) /\ p \in Supp!Places /\ p \notin OnSlotPlaces \cup OnInstPlaces
      BY <2>1, RpcAssumption DEF HandFits, Owning, OnSlotPlaces, OnInstPlaces, Supp!Places
    <2> HIDE DEF p, a
    <2>5. TablesBase'
      <3>1. behind' \in [Supp!Fds -> Ids \cup {Supp!Socket, None}]
        BY <2>0 DEF TablesInv, TablesBase, TypesOk, Supp!TablesTypeOK
      <3> QED BY <2>0, <2>1, <2>2, <2>3, <2>4, <3>1, BasePlain
              DEF TablesInv, TablesBase, TypesOk, Supp!TablesTypeOK
    <2>6. ASSUME ~spoilt PROVE FdsOk' /\ PiecesOk'
      <3>1. FdsOk'
        BY <1>0, <2>0, <2>1, <2>2, <2>6, FdsOpen DEF TablesInv
      <3>2. \A g \in Supp!Fds : behind'[g] \in {behind[g], Supp!Socket, None}
        BY <2>0 DEF TablesInv, TablesBase, TypesOk, Supp!TablesTypeOK
      <3>3. p = "transfer" /\ a # None => a = piece[r] /\ (r \in mixed \/ r \notin old)
        BY <2>1, <2>6 DEF a, TablesInv, PiecesOk, PieceOk, OwnPiece
      <3>4. PiecesOk'
        BY <1>0, <2>0, <2>1, <2>2, <2>6, <3>2, <3>3, PiecesFrame DEF TablesInv
      <3> QED BY <3>1, <3>4
    <2> QED BY <2>0, <2>5, <2>6 DEF TablesInv
  <1> QED BY <1>1, <1>2 DEF Supp!Connect

(* A descriptor is closed.                                                 *)
LEMMA CloseInv ==
  ASSUME TablesInv, NEW r \in Workers, Own(r), Becomes(r, "none", None, None),
         NEW f \in Supp!Fds, Supp!CloseFds({f}), spoilt' = (spoilt \/ f # hand[r]),
         UNCHANGED <<shmList, db, old, mixed, piece>>
  PROVE  TablesInv'
  <1>1. TablesBase'
    <2>1. ArgFits("none", None) /\ HandFits("none", None) /\ "none" \in Supp!Places
      BY DEF ArgFits, HandFits, Owning, OnSlotPlaces, OnInstPlaces, Supp!Places
    <2>2. behind' \in [Supp!Fds -> Ids \cup {Supp!Socket, None}] /\ spoilt' \in BOOLEAN
      BY DEF Supp!CloseFds, TablesInv, TablesBase, TypesOk, Supp!TablesTypeOK
    <2> QED BY <2>1, <2>2, BasePlain
            DEF TablesInv, TablesBase, TypesOk, Supp!TablesTypeOK, OnSlotPlaces, OnInstPlaces
  <1>2. ASSUME ~spoilt' PROVE FdsOk' /\ PiecesOk'
    <2>0. ~spoilt /\ f = hand[r]
      BY <1>2 DEF TablesInv, TablesBase, TypesOk, Supp!TablesTypeOK
    <2>1. FdsOk'
      BY <2>0, FdsClose DEF TablesInv, Owning
    <2>2. \A g \in Supp!Fds : behind'[g] \in {behind[g], None}
      BY DEF Supp!CloseFds
    <2>3. PiecesOk'
      BY <2>0, <2>2, PiecesFrame DEF TablesInv, Own, Owning
    <2> QED BY <2>1, <2>3
  <1>3. spoilt' \in BOOLEAN
    BY <1>1 DEF TablesBase, TypesOk, Supp!TablesTypeOK
  <1> QED BY <1>1, <1>2 DEF TablesInv

LEMMA MapFailsInv ==
  ASSUME TablesInv, NEW r \in Workers, Supp!MapFails(r), UNCHANGED piece
  PROVE  TablesInv'
  <1>1. Own(r) /\ Becomes(r, "none", None, None)
    BY DEF Supp!MapFails, Own, Owning, Becomes, Supp!Finish, Supp!Goto,
        Supp!About, Supp!Hold
  <1> QED BY <1>1, CloseInv DEF Supp!MapFails

LEMMA CloseFdInv ==
  ASSUME TablesInv, NEW r \in Workers, Supp!CloseFd(r), UNCHANGED piece
  PROVE  TablesInv'
  <1>1. Own(r) /\ Becomes(r, "none", None, None)
    BY DEF Supp!CloseFd, Own, Owning, Becomes, Supp!Finish, Supp!Goto, Supp!About, Supp!Hold
  <1>2. hand[r] \in Supp!Fds /\ spoilt' = (spoilt \/ hand[r] # hand[r])
    BY <1>1, OwnHasFd DEF Supp!CloseFd, TablesInv, TablesBase, TypesOk, Supp!TablesTypeOK
  <1> QED BY <1>1, <1>2, CloseInv DEF Supp!CloseFd

(* The list of memory.                                                     *)
LEMMA PushInv ==
  ASSUME TablesInv, NEW r \in Workers, Supp!Push(r), UNCHANGED piece
  PROVE  TablesInv'
  <1> DEFINE new == [id |-> arg[r], fd |-> hand[r], by |-> r]
  <1>0. /\ at[r] = "map" /\ shmList' = shmList \cup {new}
        /\ UNCHANGED <<behind, db, old, mixed, spoilt, piece>>
        /\ Own(r) /\ hand[r] \in Supp!Fds /\ arg[r] \in Ids
    BY OwnHasFd DEF Supp!Push, Supp!Goto, Own, Owning, TablesInv, TablesBase,
        RequestsOk, ArgFits
  <1>1. Becomes(r, "answered", arg[r], None)
    BY Same DEF TablesInv, Becomes, Supp!Push, Supp!Goto, Supp!Hold
  <1>2. ArgFits("answered", arg[r]) /\ HandFits("answered", None) /\ "answered" \in Supp!Places
    BY <1>0 DEF ArgFits, HandFits, Owning, OnSlotPlaces, OnInstPlaces, Supp!Places
  <1>3. TablesBase'
    <2>1. shmList' \subseteq [id : Ids, fd : Supp!Fds, by : Workers]
      BY <1>0 DEF TablesInv, TablesBase, TypesOk, Supp!TablesTypeOK
    <2> QED BY <1>0, <1>1, <1>2, <2>1, BasePlain
            DEF TablesInv, TablesBase, TypesOk, Supp!TablesTypeOK, OnSlotPlaces, OnInstPlaces
  <1>4. ASSUME ~spoilt PROVE FdsOk' /\ PiecesOk'
    <2>1. FdsOk'
      BY <1>0, <1>1, <1>4, FdsPush DEF TablesInv, Owning
    <2>2. PieceOk(r)'
      <3>1. PieceOk(r) /\ at'[r] = "answered" /\ arg'[r] = arg[r]
        BY <1>1, <1>4, Pointwise DEF TablesInv, TablesBase, PiecesOk
      <3>2. new \in shmList' /\ new.id = arg[r] /\ new.by = r
        BY <1>0
      <3>3. HasEntry(r, arg[r])'
        BY <3>1, <3>2 DEF HasEntry
      <3> QED BY <1>0, <3>1, <3>3 DEF PieceOk, OwnPiece
    <2>3. \A v \in Workers : NothingBehind(piece[v]) => NothingBehind(piece[v])'
      BY <1>0, ConstOps DEF NothingBehind
    <2>4. PiecesOk'
      <3>1. \A id : Claims(r, id)' => Claims(r, id)
        <4>1. arg'[r] = arg[r]
          BY <1>1, Pointwise DEF TablesInv, TablesBase
        <4> QED BY <1>0, <4>1 DEF Claims
      <3> QED BY <1>0, <1>1, <1>4, <2>2, <2>3, <3>1, PiecesKeep DEF TablesInv
    <2> QED BY <2>1, <2>4
  <1> QED BY <1>0, <1>3, <1>4 DEF TablesInv

(* Two threads never look for memory of one identifier.                    *)
LEMMA EntryOnce ==
  ASSUME TablesBase, FdsOk, NEW e \in shmList, NEW g \in shmList, e.id = g.id
  PROVE  e = g
  <1>1. e.fd \in Supp!Fds /\ g.fd \in Supp!Fds /\ e.id \in Ids
    BY DEF TablesBase, TypesOk, Supp!TablesTypeOK
  <1> QED BY <1>1 DEF FdsOk, ListOk, IdsUnique

(* A request to free memory that is not there, or is refused.              *)
LEMMA FreeNoneInv ==
  ASSUME TablesInv, NEW r \in Workers, Supp!Finish(r, "free"),
         old' = old \ {r}, mixed' = mixed \ {r},
         UNCHANGED <<behind, shmList, db, hand, spoilt, piece>>
  PROVE  TablesInv'
  <1>0. at[r] = "free" /\ hand[r] = None /\ ~Own(r)
    BY HandNone DEF TablesInv, Supp!Goto, Supp!Finish, Owning
  <1>1. Becomes(r, "none", None, None)
    BY <1>0, Same DEF TablesInv, Becomes, Supp!Finish, Supp!Goto, Supp!About
  <1>2. ArgFits("none", None) /\ HandFits("none", None) /\ "none" \in Supp!Places
    BY DEF ArgFits, HandFits, Owning, OnSlotPlaces, OnInstPlaces, Supp!Places
  <1>3. TablesBase'
    BY <1>0, <1>1, <1>2, BasePlain
       DEF TablesInv, TablesBase, TypesOk, Supp!TablesTypeOK, OnSlotPlaces, OnInstPlaces
  <1>4. ASSUME ~spoilt PROVE FdsOk' /\ PiecesOk'
    <2>1. FdsOk'
      BY <1>0, <1>1, <1>4, FdsFrame DEF TablesInv, Owning
    <2>2. PieceOk(r)'
      <3>1. piece[r] = None
        BY <1>0, <1>4 DEF TablesInv, PiecesOk, PieceOk
      <3>2. at'[r] = "none" /\ r \notin old'
        BY <1>1, Pointwise DEF TablesInv, TablesBase
      <3> QED BY <3>1, <3>2 DEF PieceOk, OwnPiece
    <2>3. \A v \in Workers : NothingBehind(piece[v]) => NothingBehind(piece[v])'
      BY ConstOps DEF NothingBehind
    <2>4. PiecesOk'
      <3>1. piece[r] = None
        BY <1>0, <1>4 DEF TablesInv, PiecesOk, PieceOk
      <3> QED BY <1>0, <1>1, <1>4, <2>2, <2>3, <3>1, PiecesKeep DEF TablesInv
    <2> QED BY <2>1, <2>4
  <1> QED BY <1>3, <1>4 DEF TablesInv

LEMMA PopInv ==
  ASSUME TablesInv, NEW r \in Workers, Supp!Pop(r), UNCHANGED piece
  PROVE  TablesInv'
  <1>0. /\ at[r] = "free" /\ hand[r] = None /\ ~Own(r)
        /\ UNCHANGED <<behind, db, piece, spoilt>> /\ old' = old \ {r}
    BY HandNone DEF TablesInv, Supp!Pop, Supp!Goto, Supp!Finish, Owning
  <1>1. ASSUME ~spoilt
        PROVE  /\ piece[r] = None
               /\ r \notin old \cup mixed => HasEntry(r, arg[r])
               /\ \A v \in Workers : NothingBehind(piece[v]) => NothingBehind(piece[v])'
    BY <1>0, <1>1, ConstOps DEF TablesInv, PiecesOk, PieceOk, OwnPiece, NothingBehind
  <1>2. CASE /\ Supp!Finish(r, "free") /\ UNCHANGED <<shmList, hand>>
             /\ mixed' = mixed \ {r}
    BY <1>0, <1>2, FreeNoneInv
  <1>3. ASSUME NEW e \in Supp!Entries(arg[r]), Supp!Goto(r, "free", "close"),
               Supp!About(r, None), shmList' = Supp!Unlinked(e), Supp!Hold(r, e.fd),
               mixed' = (IF r \in old \cup mixed THEN mixed \cup {e.by} ELSE mixed) \ {r}
        PROVE  TablesInv'
    <2>0. /\ e \in shmList /\ e.id = arg[r] /\ e.fd \in Supp!Fds /\ e.by \in Workers
          /\ shmList' = shmList \ {e}
      BY <1>3 DEF Supp!Entries, Supp!Unlinked, TablesInv, TablesBase, TypesOk,
                  Supp!TablesTypeOK
    <2>1. Becomes(r, "close", None, e.fd)
      BY <1>3 DEF Becomes, Supp!Goto, Supp!About, Supp!Hold
    <2>2. ArgFits("close", None) /\ HandFits("close", e.fd) /\ "close" \in Supp!Places
      BY <2>0, RpcAssumption DEF ArgFits, HandFits, Owning, OnSlotPlaces, OnInstPlaces,
                                 Supp!Places
    <2>3. TablesBase'
      <3>1. mixed' \subseteq Workers
        BY <1>3, <2>0 DEF TablesInv, TablesBase, TypesOk, Supp!TablesTypeOK
      <3> QED BY <1>0, <2>0, <2>1, <2>2, <3>1, BasePlain
              DEF TablesInv, TablesBase, TypesOk, Supp!TablesTypeOK, OnSlotPlaces, OnInstPlaces
    <2>4. ASSUME ~spoilt PROVE FdsOk' /\ PiecesOk'
      <3>1. FdsOk'
        BY <1>0, <2>0, <2>1, <2>4, FdsPop DEF TablesInv
      <3>2. e.by = r \/ e.by \in mixed'
        <4>1. CASE r \in old \cup mixed
          BY <1>3, <4>1
        <4>2. CASE r \notin old \cup mixed
          <5>1. PICK g \in shmList : g.id = arg[r] /\ g.by = r
            BY <1>1, <2>4, <4>2 DEF HasEntry
          <5> QED BY <2>0, <2>4, <5>1, EntryOnce DEF TablesInv
        <4> QED BY <4>1, <4>2
      <3>3. PieceOk(r)'
        <4>1. at'[r] = "close" /\ piece'[r] = None /\ r \notin old'
          BY <1>0, <1>1, <2>1, <2>4, Pointwise DEF TablesInv, TablesBase
        <4> QED BY <4>1 DEF PieceOk, OwnPiece
      <3>4. \A v \in Workers : v # r => (v \in old' <=> v \in old)
                                        /\ (v \notin mixed' => v \notin mixed)
        BY <1>0, <1>3
      <3>5. \A v \in Workers : v # r /\ v \notin mixed' =>
              \A g \in shmList : g.by = v => g \in shmList'
        BY <2>0, <3>2
      <3>6. PiecesOk'
        BY <1>0, <1>1, <2>1, <2>4, <3>3, <3>4, <3>5, PiecesKeep DEF TablesInv
      <3> QED BY <3>1, <3>6
    <2> QED BY <1>0, <2>3, <2>4 DEF TablesInv
  <1> QED BY <1>2, <1>3 DEF Supp!Pop

(* Steps with a descriptor in hand that stays there.                       *)
LEMMA ToCloseInv ==
  ASSUME TablesInv, NEW r \in Workers, at[r] \in {"transfer", "get"},
         at' = [at EXCEPT ![r] = "close"], Supp!About(r, None),
         UNCHANGED <<behind, shmList, db, hand, old, mixed, spoilt, piece>>
  PROVE  TablesInv'
  <1>0. Own(r) /\ hand[r] \in Supp!Fds /\ hand[r] # None
    BY OwnHasFd DEF Own, Owning, TablesInv
  <1>1. Becomes(r, "close", None, hand[r])
    BY Same DEF TablesInv, Becomes, Supp!About
  <1>2. ArgFits("close", None) /\ HandFits("close", hand[r]) /\ "close" \in Supp!Places
    BY <1>0 DEF ArgFits, HandFits, Owning, OnSlotPlaces, OnInstPlaces, Supp!Places
  <1>3. TablesBase'
    BY <1>0, <1>1, <1>2, BasePlain
       DEF TablesInv, TablesBase, TypesOk, Supp!TablesTypeOK, OnSlotPlaces, OnInstPlaces
  <1>4. ASSUME ~spoilt PROVE FdsOk' /\ PiecesOk'
    <2>1. FdsOk'
      BY <1>0, <1>1, <1>4, FdsFrame DEF TablesInv
    <2>2. PiecesOk'
      BY <1>1, <1>4, PiecesFrame DEF TablesInv
    <2> QED BY <2>1, <2>2
  <1> QED BY <1>3, <1>4 DEF TablesInv

LEMMA TransferInv ==
  ASSUME TablesInv, NEW r \in Workers, Supp!Transfer(r), UNCHANGED piece
  PROVE  TablesInv'
  BY ToCloseInv DEF Supp!Transfer, Supp!Goto, Supp!tables

(* The buffer of a network call.                                           *)
LEMMA FindBufferInv ==
  ASSUME TablesInv, NEW r \in Workers, Supp!FindBuffer(r), UNCHANGED piece
  PROVE  TablesInv'
  <1> DEFINE a == arg'[r]
  <1>0. /\ at[r] = "network" /\ hand[r] = None /\ arg[r] \in Ids
        /\ UNCHANGED <<behind, shmList, db, old, mixed, spoilt, piece, hand>>
        /\ at' = [at EXCEPT ![r] = "connect"]
    BY HandNone DEF TablesInv, TablesBase, RequestsOk, ArgFits, Supp!FindBuffer, Supp!Goto,
                    Supp!tables, Owning
  <1>1. /\ arg' = [arg EXCEPT ![r] = a]
        /\ a = None \/ (a = arg[r] /\ Supp!Entries(arg[r]) # {})
    BY DEF Supp!FindBuffer, Supp!About, TablesInv, TablesBase, TypesOk, Supp!TablesTypeOK
  <1> HIDE DEF a
  <1>2. Becomes(r, "connect", a, None)
    BY <1>0, <1>1, Same DEF TablesInv, Becomes
  <1>3. ArgFits("connect", a) /\ "connect" \in Supp!Places
    BY <1>0, <1>1 DEF ArgFits, OnSlotPlaces, OnInstPlaces, Supp!Places
  <1>4. ~spoilt /\ a # None => a = piece[r] /\ (r \in mixed \/ r \notin old)
    <2> SUFFICES ASSUME ~spoilt, a # None
                 PROVE  a = piece[r] /\ (r \in mixed \/ r \notin old)
      OBVIOUS
    <2>1. PICK e \in shmList : e.id = arg[r]
      BY <1>1 DEF Supp!Entries
    <2>2. behind[e.fd] = arg[r] /\ e.fd \in Supp!Fds
      BY <2>1 DEF TablesInv, TablesBase, TypesOk, Supp!TablesTypeOK, FdsOk, ListOk
    <2>3. PieceOk(r)
      BY DEF TablesInv, PiecesOk
    <2>4. arg[r] # None
      BY <1>0, RpcAssumption
    <2> QED BY <1>0, <1>1, <2>2, <2>3, <2>4 DEF PieceOk, OwnPiece, NothingBehind
  <1> QED BY <1>0, <1>2, <1>3, <1>4, QuietInv DEF Owning, OnSlotPlaces, OnInstPlaces

LEMMA UseInv ==
  ASSUME TablesInv, NEW r \in Workers, Supp!Use(r), UNCHANGED piece
  PROVE  TablesInv'
  <1>1. Becomes(r, "none", None, None) /\ at[r] = "use"
    BY DEF Supp!Use, Becomes, Supp!Finish, Supp!Goto, Supp!About, Supp!Hold
  <1>2. ArgFits("none", None) /\ "none" \in Supp!Places
    BY DEF ArgFits, OnSlotPlaces, OnInstPlaces, Supp!Places
  <1> QED BY <1>1, <1>2, QuietInv DEF Supp!Use, Supp!tables, Owning, OnSlotPlaces, OnInstPlaces

(* The handles.                                                            *)
LEMMA GetHandleInv ==
  ASSUME TablesInv, NEW r \in Workers, Supp!GetHandle(r), UNCHANGED piece
  PROVE  TablesInv'
  <1>1. CASE Supp!Goto(r, "get", "close") /\ Supp!About(r, None) /\ UNCHANGED <<db, hand>>
    BY <1>1, ToCloseInv DEF Supp!GetHandle, Supp!Goto
  <1>2. ASSUME NEW s \in Supp!FreeHandle(arg[r]), Supp!Finish(r, "get"),
               db' = [db EXCEPT ![s] = hand[r]], Supp!Hold(r, None)
        PROVE  TablesInv'
    <2>0. /\ s \in Supp!Slots /\ db[s] = None /\ at[r] = "get"
          /\ UNCHANGED <<behind, shmList, old, mixed, spoilt, piece>>
          /\ Own(r) /\ hand[r] \in Supp!Fds
      BY <1>2, OwnHasFd DEF Supp!FreeHandle, Supp!GetHandle, Own, Owning, TablesInv
    <2>1. Becomes(r, "none", None, None)
      BY <1>2 DEF Becomes, Supp!Finish, Supp!Goto, Supp!About, Supp!Hold
    <2>2. ArgFits("none", None) /\ HandFits("none", None) /\ "none" \in Supp!Places
      BY DEF ArgFits, HandFits, Owning, OnSlotPlaces, OnInstPlaces, Supp!Places
    <2>3. TablesBase'
      <3>1. db' \in [Supp!Slots -> Supp!Fds \cup {None}]
        BY <1>2, <2>0 DEF TablesInv, TablesBase, TypesOk, Supp!TablesTypeOK
      <3>2. \A v \in Workers : OnSlot(v) => db'[arg[v]] = db[arg[v]]
        <4> SUFFICES ASSUME NEW v \in Workers, OnSlot(v) PROVE db'[arg[v]] = db[arg[v]]
          OBVIOUS
        <4>1. db[arg[v]] # None /\ arg[v] \in Supp!Slots
          BY DEF TablesInv, TablesBase, RequestsOk, SlotThere, ArgFits, OnSlot
        <4> QED BY <1>2, <2>0, <4>1 DEF TablesInv, TablesBase, TypesOk, Supp!TablesTypeOK
      <3> QED BY <2>0, <2>1, <2>2, <3>1, <3>2, BasePlain
              DEF TablesInv, TablesBase, TypesOk, Supp!TablesTypeOK, OnSlotPlaces, OnInstPlaces
    <2>4. ASSUME ~spoilt PROVE FdsOk' /\ PiecesOk'
      <3>1. FdsOk'
        BY <1>2, <2>0, <2>1, <2>4, FdsGet DEF TablesInv, Owning
      <3>2. PiecesOk'
        BY <2>0, <2>1, <2>4, PiecesFrame DEF TablesInv
      <3> QED BY <3>1, <3>2
    <2> QED BY <2>0, <2>3, <2>4 DEF TablesInv
  <1> QED BY <1>1, <1>2 DEF Supp!GetHandle

LEMMA LookUpInv ==
  ASSUME TablesInv, NEW r \in Workers, Supp!LookUp(r), UNCHANGED piece
  PROVE  TablesInv'
  <1> DEFINE p == at'[r]
             s == arg[r]
             h == db[s]
  <1>0. /\ \/ at[r] = "send" /\ p = "use"
           \/ at[r] = "shut" /\ p = "put"
        /\ at' = [at EXCEPT ![r] = p]
    BY DEF Supp!LookUp, Supp!Goto, TablesInv, TablesBase, TypesOk, Supp!TablesTypeOK
  <1>1. OnSlot(r) /\ s \in Supp!Slots /\ h # None /\ h \in Supp!Fds
    BY <1>0 DEF OnSlot, OnSlotPlaces, OnInstPlaces, TablesInv, TablesBase, RequestsOk, SlotThere, ArgFits,
                TypesOk, Supp!TablesTypeOK
  <1>2. UNCHANGED <<behind, shmList, db, old, mixed, spoilt, piece>>
    BY DEF Supp!LookUp, Supp!tables
  <1>3. Becomes(r, p, s, h)
    BY <1>0, Same DEF Supp!LookUp, Supp!Hold, Becomes, TablesInv
  <1> HIDE DEF p, s, h
  <1>4. ArgFits(p, s) /\ HandFits(p, h) /\ p \in Supp!Places
    BY <1>0, <1>1 DEF ArgFits, HandFits, Owning, OnSlotPlaces, OnInstPlaces, Supp!Places
  <1>5. \A v \in Workers : v # r =>
          /\ at[v] \in {"shut", "put"} => s # arg[v]
          /\ at[v] \in OnInstPlaces => s.inst # arg[v]
          /\ OnSlot(v) /\ p = "put" => arg[v] # s
    BY <1>0, <1>1 DEF s, TablesInv, TablesBase, RequestsOk, Apart
  <1>6. TablesBase'
    <2>1. p \notin {"shut"} \cup OnInstPlaces
      BY <1>0 DEF OnInstPlaces
    <2>2. HandleFits(r, p, s, h)
      <3>1. h = db'[s] /\ db'[s] # None
        BY <1>1, <1>2 DEF h
      <3> QED BY <1>2, <1>5, <2>1, <3>1 DEF HandleFits
    <2>3. /\ behind' \in [Supp!Fds -> Ids \cup {Supp!Socket, None}]
          /\ shmList' \subseteq [id : Ids, fd : Supp!Fds, by : Workers]
          /\ db' \in [Supp!Slots -> Supp!Fds \cup {None}]
          /\ old' \subseteq Workers /\ mixed' \subseteq Workers /\ spoilt' \in BOOLEAN
          /\ piece' \in [Workers -> Ids \cup {None}]
      BY <1>2 DEF TablesInv, TablesBase, TypesOk, Supp!TablesTypeOK
    <2> QED BY <1>1, <1>3, <1>4, <2>2, <2>3, BaseStep DEF TablesInv
  <1>7. ASSUME ~spoilt PROVE FdsOk' /\ PiecesOk'
    <2>1. FdsOk'
      BY <1>0, <1>2, <1>3, <1>7, FdsFrame DEF TablesInv, Own, Owning
    <2>2. PiecesOk'
      BY <1>0, <1>2, <1>3, <1>7, PiecesFrame DEF TablesInv
    <2> QED BY <2>1, <2>2
  <1> QED BY <1>2, <1>6, <1>7 DEF TablesInv

LEMMA PutInv ==
  ASSUME TablesInv, NEW r \in Workers, Supp!Put(r), UNCHANGED piece
  PROVE  TablesInv'
  <1> DEFINE s == arg[r]
  <1>0. /\ at[r] = "put" /\ ~Own(r) /\ OnSlot(r)
        /\ UNCHANGED <<behind, shmList, hand, old, mixed, spoilt, piece>>
    BY DEF Supp!Put, Supp!Goto, Own, Owning, OnSlot, OnSlotPlaces, OnInstPlaces
  <1>1. /\ s \in Supp!Slots /\ db[s] # None /\ hand[r] = db[s] /\ db[s] \in Supp!Fds
        /\ db' = [db EXCEPT ![s] = None]
    BY <1>0 DEF Supp!Put, Supp!WithoutHandle, TablesInv, TablesBase, RequestsOk, SlotThere,
                ArgFits, OnSlot, TypesOk, Supp!TablesTypeOK
  <1>2. Becomes(r, "close", None, db[s])
    BY <1>0, <1>1, Same DEF Supp!Put, Supp!Goto, Supp!About, Becomes, TablesInv
  <1>3. ArgFits("close", None) /\ HandFits("close", db[s]) /\ "close" \in Supp!Places
    BY <1>1 DEF ArgFits, HandFits, Owning, OnSlotPlaces, OnInstPlaces, Supp!Places
  <1>4. TablesBase'
    <2>1. db' \in [Supp!Slots -> Supp!Fds \cup {None}]
      BY <1>1 DEF TablesInv, TablesBase, TypesOk, Supp!TablesTypeOK
    <2>2. \A v \in Workers : v # r /\ OnSlot(v) => db'[arg[v]] = db[arg[v]]
      <3> SUFFICES ASSUME NEW v \in Workers, v # r, OnSlot(v) PROVE db'[arg[v]] = db[arg[v]]
        OBVIOUS
      <3>1. arg[v] # s /\ arg[v] \in Supp!Slots
        BY <1>0 DEF TablesInv, TablesBase, RequestsOk, Apart, ArgFits, OnSlot
      <3> QED BY <1>1, <3>1 DEF TablesInv, TablesBase, TypesOk, Supp!TablesTypeOK
    <2> QED BY <1>0, <1>1, <1>2, <1>3, <2>1, <2>2, BasePlain
            DEF TablesInv, TablesBase, TypesOk, Supp!TablesTypeOK, OnSlotPlaces, OnInstPlaces
  <1>5. ASSUME ~spoilt PROVE FdsOk' /\ PiecesOk'
    <2>1. FdsOk'
      BY <1>0, <1>1, <1>2, <1>5, FdsPut DEF TablesInv
    <2>2. PiecesOk'
      BY <1>0, <1>2, <1>5, PiecesFrame DEF TablesInv
    <2> QED BY <2>1, <2>2
  <1> QED BY <1>0, <1>4, <1>5 DEF TablesInv

LEMMA CloseAllInv ==
  ASSUME TablesInv, NEW r \in Workers, Supp!CloseAll(r), UNCHANGED piece
  PROVE  TablesInv'
  <1>0. /\ at[r] \in OnInstPlaces /\ ~Own(r) /\ hand[r] = None /\ arg[r] \in Insts
        /\ UNCHANGED <<shmList, hand, old, mixed, spoilt, piece>>
    BY HandNone DEF Supp!CloseAll, OnInstPlaces, TablesInv, TablesBase, RequestsOk, ArgFits,
                    Owning
  <1>1. CASE Supp!Finish(r, at[r]) /\ UNCHANGED <<behind, db>>
    <2>1. Becomes(r, "none", None, None)
      BY <1>0, <1>1, Same DEF Supp!Finish, Supp!Goto, Supp!About, Becomes, TablesInv
    <2>2. ArgFits("none", None) /\ "none" \in Supp!Places
      BY DEF ArgFits, OnSlotPlaces, OnInstPlaces, Supp!Places
    <2> QED BY <1>0, <1>1, <2>1, <2>2, QuietInv DEF Owning, OnSlotPlaces, OnInstPlaces
  <1>2. ASSUME NEW s \in Supp!Slots, s.inst = arg[r], db[s] # None,
               Supp!CloseFds({db[s]}), db' = [db EXCEPT ![s] = None],
               at' = [at EXCEPT ![r] = "ending"], UNCHANGED arg
        PROVE  TablesInv'
    <2>1. Becomes(r, "ending", arg[r], None)
      BY <1>0, <1>2, Same DEF Becomes, TablesInv
    <2>2. ArgFits("ending", arg[r]) /\ HandFits("ending", None) /\ "ending" \in Supp!Places
      BY <1>0 DEF ArgFits, HandFits, Owning, OnSlotPlaces, OnInstPlaces, Supp!Places
    <2>3. \A v \in Workers : v # r /\ OnSlot(v) =>
            arg[v] \in Supp!Slots /\ arg[v].inst # arg[r]
      BY <1>0 DEF TablesInv, TablesBase, RequestsOk, Apart, ArgFits, OnSlot
    <2>4. TablesBase'
      <3>1. behind' \in [Supp!Fds -> Ids \cup {Supp!Socket, None}]
        BY <1>2 DEF Supp!CloseFds, TablesInv, TablesBase, TypesOk, Supp!TablesTypeOK
      <3>2. db' \in [Supp!Slots -> Supp!Fds \cup {None}]
        BY <1>2 DEF TablesInv, TablesBase, TypesOk, Supp!TablesTypeOK
      <3>3. \A v \in Workers : v # r /\ OnSlot(v) => db'[arg[v]] = db[arg[v]]
        BY <1>2, <2>3 DEF TablesInv, TablesBase, TypesOk, Supp!TablesTypeOK
      <3>4. HandleFits(r, "ending", arg[r], None)
        BY <2>3, <3>3 DEF HandleFits, OnSlotPlaces
      <3> QED BY <1>0, <2>1, <2>2, <3>1, <3>2, <3>4, BaseStep
              DEF TablesInv, TablesBase, TypesOk, Supp!TablesTypeOK
    <2>5. ASSUME ~spoilt PROVE FdsOk' /\ PiecesOk'
      <3>1. FdsOk'
        <4>1. {db[t] : t \in {s}} = {db[s]} /\ {s} \in SUBSET Supp!Slots
          OBVIOUS
        <4>2. db' = [t \in Supp!Slots |-> IF t \in {s} THEN None ELSE db[t]]
          BY <1>2 DEF TablesInv, TablesBase, TypesOk, Supp!TablesTypeOK
        <4>3. Supp!CloseFds({db[t] : t \in {s}})
          BY <1>2, <4>1
        <4> QED BY <1>0, <2>1, <2>5, <4>1, <4>2, <4>3, FdsCloseAll DEF TablesInv, Owning
      <3>2. \A f \in Supp!Fds : behind'[f] \in {behind[f], None}
        BY <1>2 DEF Supp!CloseFds
      <3>3. PiecesOk'
        BY <1>0, <2>1, <2>5, <3>2, PiecesFrame DEF TablesInv, OnInstPlaces
      <3> QED BY <3>1, <3>3
    <2> QED BY <1>0, <2>4, <2>5 DEF TablesInv
  <1> QED BY <1>1, <1>2 DEF Supp!CloseAll

LEMMA RefuseInv ==
  ASSUME TablesInv, NEW r \in Workers, Supp!Refuse(r), UNCHANGED piece
  PROVE  TablesInv'
  <1>0. /\ at[r] \in Supp!Asked /\ Supp!Finish(r, at[r])
        /\ old' = IF at[r] = "free" THEN old \ {r} ELSE old
        /\ mixed' = IF at[r] = "free" THEN mixed \ {r} ELSE mixed
        /\ UNCHANGED <<behind, shmList, db, hand, spoilt, piece>>
    BY DEF Supp!Refuse, Supp!Finish, Supp!Goto, Supp!tables
  <1>1. CASE at[r] = "free"
    BY <1>0, <1>1, FreeNoneInv
  <1>2. CASE at[r] # "free"
    <2>1. at[r] \notin Owning \cup {"use", "put", "answered"}
      BY <1>0 DEF Supp!Asked, Owning
    <2>2. Becomes(r, "none", None, None)
      BY <1>0, <2>1, HandNone, Same DEF TablesInv, Becomes, Supp!Finish,
          Supp!Goto, Supp!About
    <2>3. ArgFits("none", None) /\ "none" \in Supp!Places
      BY DEF ArgFits, OnSlotPlaces, OnInstPlaces, Supp!Places
    <2> QED BY <1>0, <1>2, <2>1, <2>2, <2>3, QuietInv DEF Owning, OnSlotPlaces, OnInstPlaces
  <1> QED BY <1>1, <1>2

LEMMA ProcessEndsInv ==
  ASSUME TablesInv, Supp!ProcessEnds({w \in Workers : piece[w] # None}), UNCHANGED piece
  PROVE  TablesInv'
  <1>1. \A w \in Workers :
          /\ at'[w] = IF at[w] = "answered" THEN "answered" ELSE "none"
          /\ arg'[w] = IF at[w] = "answered" THEN arg[w] ELSE None
          /\ hand'[w] = None
          /\ w \in old' <=> piece[w] # None \/ at[w] = "answered"
          /\ w \in mixed' <=> w \in mixed /\ (piece[w] # None \/ at[w] = "answered")
    BY DEF Supp!ProcessEnds
  <1>2. \A f \in Supp!Fds : behind'[f] = None
    BY DEF Supp!ProcessEnds, Supp!CloseFds
  <1>3. TypesOk'
    <2>1. at' \in [Workers -> Supp!Places]
      BY DEF Supp!ProcessEnds, Supp!Places, TablesInv, TablesBase, TypesOk,
          Supp!TablesTypeOK
    <2>2. arg' \in [Workers -> Ids \cup Insts \cup Supp!Slots \cup {None}]
      BY DEF Supp!ProcessEnds, TablesInv, TablesBase, TypesOk, Supp!TablesTypeOK
    <2>3. /\ hand' \in [Workers -> Supp!Fds \cup {None}] /\ old' \subseteq Workers
          /\ mixed' \subseteq Workers
      BY DEF Supp!ProcessEnds
    <2>4. behind' \in [Supp!Fds -> Ids \cup {Supp!Socket, None}]
      BY DEF Supp!ProcessEnds, Supp!CloseFds
    <2>5. shmList' = {} /\ db' \in [Supp!Slots -> Supp!Fds \cup {None}]
      BY DEF Supp!ProcessEnds
    <2>6. spoilt' \in BOOLEAN /\ piece' \in [Workers -> Ids \cup {None}]
      BY DEF Supp!ProcessEnds, TablesInv, TablesBase, TypesOk, Supp!TablesTypeOK
    <2> QED BY <2>1, <2>2, <2>3, <2>4, <2>5, <2>6, ConstOps DEF TypesOk, Supp!TablesTypeOK
  <1>4. RequestsOk'
    <2>1. \A w \in Workers : ArgFits(at[w], arg[w])
      BY DEF TablesInv, TablesBase, RequestsOk
    <2> QED BY <1>1, <2>1, ConstOps
            DEF RequestsOk, ArgFits, HandFits, SlotThere, Apart, OnSlot,
                OnSlotPlaces, OnInstPlaces, Owning
  <1>5. FdsOk'
    BY FdsEnd DEF TablesInv
  <1>6. ASSUME ~spoilt PROVE PiecesOk'
    <2>1. ASSUME NEW w \in Workers, w \notin mixed' PROVE Alone(w)'
      <3> SUFFICES ASSUME NEW v \in Workers, v # w, piece[v] # None, Claims(w, piece[v])'
                   PROVE  FALSE
        BY DEF Alone, Claims
      <3>1. piece[w] = piece[v] /\ w \notin mixed
        BY <1>1, <2>1 DEF Claims
      <3>2. Alone(w)
        BY <1>6, <3>1 DEF TablesInv, PiecesOk, PiecesOnce
      <3> QED BY <3>1, <3>2 DEF Alone, Claims
    <2>2. ASSUME NEW w \in Workers PROVE PieceOk(w)'
      <3>1. NothingBehind(piece[w])' \/ piece[w] = None
        BY <1>2, ConstOps DEF NothingBehind
      <3>2. PieceOk(w)
        BY <1>6 DEF TablesInv, PiecesOk
      <3> QED BY <1>1, <3>1, <3>2 DEF PieceOk, OwnPiece
    <2> QED BY <2>1, <2>2 DEF PiecesOk, PiecesOnce
  <1>7. spoilt' = spoilt
    BY DEF Supp!ProcessEnds
  <1> QED BY <1>3, <1>4, <1>5, <1>6, <1>7 DEF TablesInv, TablesBase
-----------------------------------------------------------------------------
(* The requests.                                                           *)
LEMMA AskStep ==
  ASSUME TablesInv, NEW r \in Workers, NEW p \in Supp!Asked, NEW a, Supp!Ask(r, p, a),
         mixed' \subseteq mixed, piece' \in [Workers -> Ids \cup {None}],
         ArgFits(p, a), HandleFits(r, p, a, None)
  PROVE  /\ TablesBase' /\ (~spoilt => FdsOk')
         /\ at[r] = "none" /\ Becomes(r, p, a, None)
         /\ UNCHANGED <<behind, shmList, db, old, spoilt>>
  <1>0. /\ at[r] = "none" /\ hand[r] = None /\ ~Own(r)
        /\ UNCHANGED <<behind, shmList, db, old, spoilt, hand>>
    BY HandNone DEF TablesInv, Supp!Ask, Supp!Goto, Supp!tables, Owning
  <1>1. Becomes(r, p, a, None)
    BY <1>0, Same DEF TablesInv, Becomes, Supp!Ask, Supp!Goto, Supp!About
  <1>2. p \in Supp!Places /\ p \notin Owning /\ p \notin {"use", "put"}
    BY DEF Supp!Places, Supp!Asked, Owning
  <1>3. HandFits(p, None)
    BY <1>2 DEF HandFits
  <1>4. TablesBase'
    <2>1. /\ behind' \in [Supp!Fds -> Ids \cup {Supp!Socket, None}]
          /\ shmList' \subseteq [id : Ids, fd : Supp!Fds, by : Workers]
          /\ db' \in [Supp!Slots -> Supp!Fds \cup {None}]
          /\ old' \subseteq Workers /\ mixed' \subseteq Workers /\ spoilt' \in BOOLEAN
      BY <1>0 DEF TablesInv, TablesBase, TypesOk, Supp!TablesTypeOK
    <2> QED BY <1>1, <1>2, <1>3, <2>1, BaseStep DEF TablesInv
  <1>5. ~spoilt => FdsOk'
    BY <1>0, <1>1, <1>2, FdsFrame DEF TablesInv
  <1> QED BY <1>0, <1>1, <1>4, <1>5

LEMMA HandlePlain ==
  ASSUME NEW r \in Workers, NEW p, NEW a, NEW h, UNCHANGED db,
         p \notin OnSlotPlaces \cup OnInstPlaces
  PROVE  HandleFits(r, p, a, h)
  BY DEF HandleFits, OnSlotPlaces, OnInstPlaces

LEMMA AskAllocInv ==
  ASSUME TablesInv, NEW r \in Workers, AskAlloc(r)
  PROVE  TablesInv'
  <1>0. /\ piece[r] = None /\ Supp!Ask(r, "alloc", None) /\ UNCHANGED <<db, piece>>
        /\ mixed' = mixed \ {r}
    BY DEF AskAlloc, Supp!Ask, Supp!tables
  <1>1. ArgFits("alloc", None) /\ HandleFits(r, "alloc", None, None) /\ "alloc" \in Supp!Asked
    BY <1>0, HandlePlain DEF ArgFits, OnSlotPlaces, OnInstPlaces, Supp!Asked
  <1>2. piece' \in [Workers -> Ids \cup {None}]
    BY <1>0 DEF TablesInv, TablesBase, TypesOk
  <1>3. /\ TablesBase' /\ (~spoilt => FdsOk')
        /\ at[r] = "none" /\ Becomes(r, "alloc", None, None)
        /\ UNCHANGED <<behind, shmList, db, old, spoilt>>
    BY <1>0, <1>1, <1>2, AskStep
  <1>4. ASSUME ~spoilt PROVE PiecesOk'
    <2>1. at'[r] = "alloc" /\ PieceOk(r)
      BY <1>3, <1>4, Pointwise DEF TablesInv, TablesBase, PiecesOk
    <2>2. PieceOk(r)'
      BY <1>0, <1>3, <2>1 DEF PieceOk, OwnPiece
    <2>3. \A v \in Workers : NothingBehind(piece[v]) => NothingBehind(piece[v])'
      BY <1>0, <1>3, ConstOps DEF NothingBehind
    <2> QED BY <1>0, <1>3, <1>4, <2>2, <2>3, PiecesKeep DEF TablesInv
  <1> QED BY <1>0, <1>3, <1>4 DEF TablesInv

LEMMA AskFreeInv ==
  ASSUME TablesInv, NEW r \in Workers, AskFree(r)
  PROVE  TablesInv'
  <1> DEFINE a == piece[r]
  <1>0. /\ a # None /\ Supp!Ask(r, "free", a) /\ UNCHANGED <<db, mixed>>
        /\ piece' = [piece EXCEPT ![r] = None] /\ a \in Ids
    BY DEF AskFree, Supp!Ask, Supp!tables, TablesInv, TablesBase, TypesOk
  <1>1. /\ piece'[r] = None /\ \A v \in Workers : v # r => piece'[v] = piece[v]
        /\ piece' \in [Workers -> Ids \cup {None}]
    BY <1>0 DEF TablesInv, TablesBase, TypesOk
  <1>2. ArgFits("free", a) /\ HandleFits(r, "free", a, None) /\ "free" \in Supp!Asked
    BY <1>0, HandlePlain DEF ArgFits, OnSlotPlaces, OnInstPlaces, Supp!Asked
  <1>3. /\ TablesBase' /\ (~spoilt => FdsOk')
        /\ at[r] = "none" /\ Becomes(r, "free", a, None)
        /\ UNCHANGED <<behind, shmList, db, old, mixed, spoilt>>
    BY <1>0, <1>1, <1>2, AskStep
  <1>4. ASSUME ~spoilt PROVE PiecesOk'
    <2>1. at'[r] = "free" /\ arg'[r] = a /\ PieceOk(r)
      BY <1>3, <1>4, Pointwise DEF TablesInv, TablesBase, PiecesOk
    <2>2. PieceOk(r)'
      BY <1>0, <1>1, <1>3, <2>1 DEF PieceOk, OwnPiece, HasEntry
    <2>3. \A v \in Workers : v # r => (NothingBehind(piece[v]) => NothingBehind(piece[v])')
      BY <1>1, <1>3, ConstOps DEF NothingBehind
    <2> QED BY <1>0, <1>1, <1>3, <1>4, <2>2, <2>3, PiecesKeep DEF TablesInv
  <1> QED BY <1>0, <1>3, <1>4 DEF TablesInv

LEMMA AskNetworkInv ==
  ASSUME TablesInv, NEW r \in Workers, AskNetwork(r)
  PROVE  TablesInv'
  <1> DEFINE a == piece[r]
  <1>0. /\ a # None /\ Supp!Ask(r, "network", a) /\ UNCHANGED <<db, mixed, piece>>
        /\ a \in Ids /\ piece' \in [Workers -> Ids \cup {None}]
    BY DEF AskNetwork, Supp!Ask, Supp!tables, TablesInv, TablesBase, TypesOk
  <1>2. ArgFits("network", a) /\ HandleFits(r, "network", a, None) /\ "network" \in Supp!Asked
    BY <1>0, HandlePlain DEF ArgFits, OnSlotPlaces, OnInstPlaces, Supp!Asked
  <1>3. /\ TablesBase' /\ (~spoilt => FdsOk')
        /\ at[r] = "none" /\ Becomes(r, "network", a, None)
        /\ UNCHANGED <<behind, shmList, db, old, mixed, spoilt>>
    BY <1>0, <1>2, AskStep
  <1>4. ASSUME ~spoilt PROVE PiecesOk'
    <2>1. at'[r] = "network" /\ arg'[r] = a /\ PieceOk(r)
      BY <1>3, <1>4, Pointwise DEF TablesInv, TablesBase, PiecesOk
    <2>2. PieceOk(r)'
      BY <1>0, <1>3, <2>1, ConstOps DEF PieceOk, OwnPiece, HasEntry, NothingBehind
    <2>3. \A v \in Workers : NothingBehind(piece[v]) => NothingBehind(piece[v])'
      BY <1>0, <1>3, ConstOps DEF NothingBehind
    <2>4. \A id : Claims(r, id)' => Claims(r, id)
      BY <1>0, <2>1 DEF Claims
    <2> QED BY <1>0, <1>3, <1>4, <2>2, <2>3, <2>4, PiecesKeep DEF TablesInv
  <1> QED BY <1>0, <1>3, <1>4 DEF TablesInv

(* The requests on sockets have nothing to do with memory.                 *)
LEMMA AskSocketStep ==
  ASSUME TablesInv, NEW r \in Workers, NEW p \in {"open", "send", "shut", "shut all"},
         NEW a, Supp!Ask(r, p, a), UNCHANGED <<mixed, piece>>,
         ArgFits(p, a), HandleFits(r, p, a, None)
  PROVE  TablesInv'
  <1>1. p \in Supp!Asked /\ piece' \in [Workers -> Ids \cup {None}]
    BY DEF Supp!Asked, TablesInv, TablesBase, TypesOk
  <1>2. /\ TablesBase' /\ (~spoilt => FdsOk')
        /\ at[r] = "none" /\ Becomes(r, p, a, None)
        /\ UNCHANGED <<behind, shmList, db, old, mixed, spoilt>>
    BY <1>1, AskStep
  <1>3. ASSUME ~spoilt PROVE PiecesOk'
    BY <1>2, <1>3, PiecesFrame DEF TablesInv
  <1> QED BY <1>2, <1>3 DEF TablesInv

LEMMA AskSocketInv ==
  ASSUME TablesInv, NEW r \in Workers, AskSocket(r)
  PROVE  TablesInv'
  <1>0. at[r] = "none" /\ UNCHANGED <<db, mixed, piece>>
    BY DEF AskSocket, AskHandle, AskInst, Supp!Ask, Supp!Goto, Supp!tables
  <1>1. ASSUME NEW s \in Supp!Slots, AskHandle(r, s) PROVE TablesInv'
    <2>1. /\ db[s] # None /\ db'[s] # None
          /\ \A v \in Workers : at[v] \in {"shut", "put"} => arg[v] # s
          /\ \A v \in Workers : at[v] \in OnInstPlaces => s.inst # arg[v]
      BY <1>0, <1>1 DEF AskHandle, On, Ending, OnInstPlaces
    <2>2. CASE Supp!Ask(r, "send", s)
      <3>1. ArgFits("send", s)
        BY DEF ArgFits, OnSlotPlaces, OnInstPlaces
      <3>2. HandleFits(r, "send", s, None)
        BY <1>0, <2>1 DEF HandleFits, OnInstPlaces
      <3> QED BY <1>0, <2>2, <3>1, <3>2, AskSocketStep
    <2>3. CASE Supp!Ask(r, "shut", s) /\ ~On(s, {"send", "use"})
      <3>1. ArgFits("shut", s)
        BY DEF ArgFits, OnSlotPlaces, OnInstPlaces
      <3>2. \A v \in Workers : OnSlot(v) => arg[v] # s
        BY <2>1, <2>3 DEF On, OnSlot, OnSlotPlaces, OnInstPlaces
      <3>3. HandleFits(r, "shut", s, None)
        BY <1>0, <2>1, <3>2 DEF HandleFits, OnInstPlaces
      <3> QED BY <1>0, <2>3, <3>1, <3>3, AskSocketStep
    <2> QED BY <1>1, <2>2, <2>3 DEF AskHandle
  <1>2. ASSUME NEW i \in Insts, AskInst(r, i) PROVE TablesInv'
    <2>1. CASE Supp!Ask(r, "open", i)
      <3>1. ArgFits("open", i)
        BY DEF ArgFits, OnSlotPlaces, OnInstPlaces
      <3>2. HandleFits(r, "open", i, None)
        BY <1>0, HandlePlain DEF OnSlotPlaces, OnInstPlaces
      <3> QED BY <1>0, <2>1, <3>1, <3>2, AskSocketStep
    <2>2. CASE /\ \A s \in Supp!Slots : s.inst = i => ~On(s, {"send", "use", "shut", "put"})
               /\ Supp!Ask(r, "shut all", i)
      <3>1. ArgFits("shut all", i)
        BY DEF ArgFits, OnSlotPlaces, OnInstPlaces
      <3>2. \A v \in Workers : OnSlot(v) => arg[v].inst # i
        <4> SUFFICES ASSUME NEW v \in Workers, OnSlot(v) PROVE arg[v].inst # i
          OBVIOUS
        <4>1. arg[v] \in Supp!Slots
          BY DEF TablesInv, TablesBase, RequestsOk, ArgFits, OnSlot
        <4> QED BY <2>2, <4>1 DEF On, OnSlot, OnSlotPlaces, OnInstPlaces
      <3>3. HandleFits(r, "shut all", i, None)
        BY <1>0, <3>2 DEF HandleFits, OnSlotPlaces, OnInstPlaces
      <3> QED BY <1>0, <2>2, <3>1, <3>3, AskSocketStep
    <2> QED BY <1>2, <2>1, <2>2 DEF AskInst
  <1> QED BY <1>1, <1>2 DEF AskSocket

(* The driver takes its reference.                                         *)
LEMMA GetPieceInv ==
  ASSUME TablesInv, NEW r \in Workers, GetPiece(r)
  PROVE  TablesInv'
  <1> DEFINE found == \E f \in Supp!Fds : behind[f] = arg[r]
             sharers == {v \in Workers : arg[r] \in {arg[v], piece[v]}}
  <1>0. /\ at[r] = "answered" /\ hand[r] = None /\ ~Own(r) /\ arg[r] \in Ids
        /\ UNCHANGED <<behind, shmList, db, hand>>
    BY HandNone DEF TablesInv, TablesBase, RequestsOk, ArgFits, GetPiece, Supp!Fetch,
                    Supp!Finish, Supp!Goto, Supp!tables, Owning
  <1>1. Becomes(r, "none", None, None)
    BY <1>0, Same DEF TablesInv, Becomes, GetPiece, Supp!Fetch, Supp!Finish, Supp!Goto,
                      Supp!About
  <1>2. ArgFits("none", None) /\ HandFits("none", None) /\ "none" \in Supp!Places
    BY DEF ArgFits, HandFits, Owning, OnSlotPlaces, OnInstPlaces, Supp!Places
  <1>3. /\ piece'[r] = IF found THEN arg[r] ELSE None
        /\ \A v \in Workers : v # r => piece'[v] = piece[v]
        /\ piece' \in [Workers -> Ids \cup {None}]
        /\ old' = IF found THEN old ELSE old \ {r}
        /\ mixed' = IF ~found THEN mixed \ {r}
                    ELSE IF r \in old \cup mixed THEN mixed \cup sharers ELSE mixed
        /\ spoilt' = spoilt
    BY <1>0 DEF GetPiece, Supp!Fetch, TablesInv, TablesBase, TypesOk, Supp!TablesTypeOK
  <1>4. TablesBase'
    <2>1. old' \subseteq Workers /\ mixed' \subseteq Workers /\ spoilt' \in BOOLEAN
      BY <1>3 DEF TablesInv, TablesBase, TypesOk, Supp!TablesTypeOK
    <2> QED BY <1>0, <1>1, <1>2, <1>3, <2>1, BasePlain
            DEF TablesInv, TablesBase, TypesOk, Supp!TablesTypeOK, OnSlotPlaces, OnInstPlaces
  <1>5. ASSUME ~spoilt PROVE FdsOk' /\ PiecesOk'
    <2>1. FdsOk'
      BY <1>0, <1>1, <1>5, FdsFrame DEF TablesInv, Owning
    <2>2. PieceOk(r) /\ at'[r] = "none" /\ arg[r] # None
      BY <1>0, <1>1, <1>5, Pointwise, RpcAssumption DEF TablesInv, TablesBase, PiecesOk
    <2>3. \A v \in Workers : v # r => (NothingBehind(piece[v]) => NothingBehind(piece[v])')
      BY <1>0, <1>3, ConstOps DEF NothingBehind
    <2>4. \A v \in Workers : v \notin sharers => ~Claims(v, arg[r])
      BY DEF Claims
    <2> HIDE DEF found, sharers
    <2>5. CASE ~found
      <3>1. PieceOk(r)'
        BY <1>0, <1>3, <2>2, <2>5 DEF PieceOk, OwnPiece
      <3> QED BY <1>0, <1>1, <1>3, <1>5, <2>1, <2>2, <2>3, <2>5, <3>1, PiecesKeep
              DEF TablesInv
    <2>6. CASE found /\ r \in old \cup mixed
      <3>1. r \in mixed'
        BY <1>3, <2>4, <2>6 DEF sharers
      <3>2. PieceOk(r)'
        BY <1>0, <1>3, <2>2, <2>6, <3>1 DEF PieceOk, OwnPiece
      <3>3. \A v \in Workers : v \notin mixed' => v \notin mixed /\ ~Claims(v, arg[r])
        BY <1>3, <2>4, <2>6
      <3>4. piece'[r] = arg[r] /\ old' = old
        BY <1>3, <2>6
      <3> QED BY <1>0, <1>1, <1>3, <1>5, <2>1, <2>3, <3>1, <3>2, <3>3, <3>4, PiecesStep
              DEF TablesInv
    <2>7. CASE found /\ r \notin old \cup mixed
      <3>1. piece'[r] = arg[r] /\ old' = old /\ mixed' = mixed
        BY <1>3, <2>7
      <3>2. PICK e \in shmList : e.id = arg[r] /\ e.by = r
        BY <1>0, <2>2, <2>7 DEF PieceOk, OwnPiece, HasEntry
      <3>3. PieceOk(r)'
        BY <1>0, <2>2, <2>7, <3>1, <3>2 DEF PieceOk, OwnPiece, HasEntry
      <3>4. ASSUME NEW v \in Workers, v # r, v \notin mixed PROVE ~Claims(v, arg[r])
        <4> SUFFICES ASSUME Claims(v, arg[r]) PROVE FALSE
          OBVIOUS
        <4>1. OwnPiece(v)
          BY <1>5, <3>4 DEF TablesInv, PiecesOk, PieceOk
        <4>2. ~HasEntry(v, arg[r])
          <5> SUFFICES ASSUME NEW g \in shmList, g.id = arg[r], g.by = v PROVE FALSE
            BY DEF HasEntry
          <5>1. e = g
            BY <1>5, <3>2, EntryOnce DEF TablesInv
          <5> QED BY <3>2, <3>4, <5>1
        <4>3. CASE piece[v] = arg[r]
          BY <2>2, <2>7, <4>1, <4>2, <4>3 DEF OwnPiece, NothingBehind, found
        <4>4. CASE at[v] = "answered" /\ v \notin old /\ arg[v] = arg[r]
          BY <4>1, <4>2, <4>4 DEF OwnPiece
        <4>5. CASE at[v] = "map" /\ arg[v] = arg[r]
          <5>1. Own(v) /\ HandOk(v)
            BY <1>5, <4>5 DEF TablesInv, FdsOk, HandsOk, Own, Owning
          <5>2. hand[v] \in Supp!Fds /\ behind[hand[v]] = arg[r] /\ e.fd # hand[v]
            BY <3>2, <4>5, <5>1, OwnHasFd DEF HandOk, TablesInv
          <5>3. e.fd \in Supp!Fds /\ behind[e.fd] = arg[r]
            BY <1>5, <3>2 DEF TablesInv, TablesBase, TypesOk, Supp!TablesTypeOK, FdsOk, ListOk
          <5> QED BY <1>0, <1>5, <5>2, <5>3 DEF TablesInv, FdsOk, IdsUnique
        <4> QED BY <4>3, <4>4, <4>5 DEF Claims
      <3>5. Alone(r)'
        <4>1. Alone(r)
          BY <1>5, <2>7 DEF TablesInv, PiecesOk, PiecesOnce
        <4> SUFFICES ASSUME NEW v \in Workers, v # r, piece'[v] # None
                     PROVE  ~Claims(r, piece[v])'
          BY DEF Alone
        <4>2. piece'[v] = piece[v]
          BY <1>3
        <4>3. ~Claims(r, piece[v])
          BY <4>1, <4>2 DEF Alone
        <4> QED BY <1>0, <2>2, <2>7, <3>1, <4>2, <4>3 DEF Claims
      <3> QED BY <1>0, <1>1, <1>3, <1>5, <2>1, <2>3, <3>1, <3>3, <3>4, <3>5, PiecesStep
              DEF TablesInv
    <2>8. PiecesOk'
      BY <2>5, <2>6, <2>7
    <2> QED BY <2>1, <2>8
  <1> QED BY <1>3, <1>4, <1>5 DEF TablesInv

-----------------------------------------------------------------------------
LEMMA TablesUnchanged ==
  ASSUME TablesInv, UNCHANGED <<suppVars, piece>>
  PROVE  TablesInv'
  <1>1. UNCHANGED <<behind, shmList, db, at, arg, hand, old, mixed, spoilt, piece>>
    BY DEF suppVars
  <1>2. TypesOk'
    BY <1>1, ConstOps DEF TablesInv, TablesBase, TypesOk, Supp!TablesTypeOK
  <1>3. RequestsOk'
    BY <1>1, ConstOps DEF TablesInv, TablesBase, RequestsOk, ArgFits, HandFits, Owning,
       OnSlotPlaces, OnInstPlaces, SlotThere, Apart, OnSlot
  <1>4. ListOk' /\ SlotsOk' /\ IdsUnique' <=> ListOk /\ SlotsOk /\ IdsUnique
    BY <1>1, ConstOps DEF ListOk, SlotsOk, IdsUnique
  <1>5. HandsOk' <=> HandsOk
    BY <1>1, ConstOps DEF HandsOk, HandOk, Own, Owning
  <1>6. AllOwned' <=> AllOwned
    BY <1>1, ConstOps DEF AllOwned, OwnedBy, Own, Owning
  <1>7. PiecesOk' <=> PiecesOk
    BY <1>1, ConstOps DEF PiecesOk, PiecesOnce, PieceOk, OwnPiece, Alone, Claims, HasEntry,
       NothingBehind
  <1> QED BY <1>1, <1>2, <1>3, <1>4, <1>5, <1>6, <1>7 DEF TablesInv, TablesBase, FdsOk

LEMMA TablesInitInv == Init => TablesInv
  <1> SUFFICES ASSUME Supp!TablesInit, piece = [w \in Workers |-> None] PROVE TablesInv
    BY DEF Init
  <1>1. TypesOk
    BY DEF Supp!TablesInit, TypesOk, Supp!TablesTypeOK, Supp!Places
  <1>2. RequestsOk
    BY DEF Supp!TablesInit, RequestsOk, ArgFits, HandFits, SlotThere, Apart, OnSlot,
           OnSlotPlaces, OnInstPlaces, Owning
  <1>3. FdsOk
    BY RpcAssumption DEF Supp!TablesInit, FdsOk, ListOk, SlotsOk, HandsOk, Own, Owning,
                         AllOwned, IdsUnique
  <1>4. PiecesOk
    BY DEF Supp!TablesInit, PiecesOk, PiecesOnce, PieceOk, OwnPiece, Alone
  <1> QED BY <1>1, <1>2, <1>3, <1>4 DEF TablesInv, TablesBase

LEMMA ServeInv ==
  ASSUME TablesInv, NEW w \in Workers, Serve(w)
  PROVE  TablesInv'
  <1>0. UNCHANGED piece
    BY DEF Serve
  <1>1. CASE Supp!Thread(w, InUse)
    BY <1>0, <1>1, AllocInv, MapFailsInv, PushInv, PopInv, CloseFdInv, FindBufferInv,
       ConnectInv, TransferInv, GetHandleInv, LookUpInv, UseInv, PutInv, CloseAllInv
       DEF Supp!Thread
  <1>2. CASE Supp!Refuse(w)
    BY <1>0, <1>2, RefuseInv
  <1> QED BY <1>1, <1>2 DEF Serve

LEMMA RpcInv ==
  ASSUME TablesInv, NEW w \in Workers, Rpc(w)
  PROVE  TablesInv'
  BY AskAllocInv, AskFreeInv, AskNetworkInv, AskSocketInv, GetPieceInv DEF Rpc

LEMMA TablesStepInv == TablesInv /\ [Next]_vars => TablesInv'
  <1> SUFFICES ASSUME TablesInv, [Next]_vars PROVE TablesInv'
    OBVIOUS
  <1>1. ASSUME NEW w \in Workers, WorkerStep(w) PROVE TablesInv'
    <2>1. CASE Serve(w)
      BY <2>1, ServeInv
    <2>2. CASE Rpc(w)
      BY <2>2, RpcInv
    <2>3. CASE UNCHANGED <<suppVars, piece>>
      BY <2>3, TablesUnchanged
    <2> QED BY <1>1, <2>1, <2>2, <2>3 DEF WorkerStep, Access, Return
  <1>2. ASSUME NEW f \in Files, FileStep(f) PROVE TablesInv'
    BY <1>2, ProcessEndsInv, TablesUnchanged DEF FileStep
  <1>3. CASE UNCHANGED vars
    BY <1>3, TablesUnchanged DEF vars
  <1> QED BY <1>1, <1>2, <1>3 DEF Next

LEMMA TablesInvariant == Spec => []TablesInv
  BY TablesInitInv, TablesStepInv, PTL DEF Spec

LEMMA OwnersOne ==
  ASSUME TablesBase, FdsOk, NEW f \in Supp!Fds
  PROVE  IF behind[f] = None THEN Owners(f) = {} ELSE \E o \in Owners(f) : Owners(f) = {o}
  <1> DEFINE L == {e \in shmList : e.fd = f}
             D == {s \in Supp!Slots : db[s] = f}
             W == {w \in Workers : hand[w] = f /\ at[w] \notin {"use", "put"}}
  <1>0. f # None /\ Supp!Socket \notin Ids /\ Supp!Socket # None /\ None \notin Ids
    BY RpcAssumption
  <1>1. Owners(f) = {<<"list", e>> : e \in L} \cup {<<"handle", s>> : s \in D}
                      \cup {<<"hand", w>> : w \in W}
    BY DEF Owners
  <1>2. W = {w \in Workers : Own(w) /\ hand[w] = f}
    <2> SUFFICES ASSUME NEW w \in Workers, hand[w] = f
                 PROVE  at[w] \notin {"use", "put"} <=> Own(w)
      OBVIOUS
    <2>1. HandFits(at[w], hand[w])
      BY DEF TablesBase, RequestsOk
    <2> QED BY <1>0, <2>1 DEF HandFits, Own, Owning
  <1>3. \A e \in L : behind[f] = e.id /\ e.id \in Ids
    BY DEF FdsOk, ListOk, TablesBase, TypesOk, Supp!TablesTypeOK
  <1>4. \A s \in D : behind[f] = Supp!Socket
    BY <1>0 DEF FdsOk, SlotsOk
  <1>5. \A w \in W : behind[f] # None /\ HandOk(w) /\ hand[w] = f
    BY <1>2 DEF FdsOk, HandsOk, HandOk
  <1>6. CASE behind[f] = None
    <2>1. L = {} /\ D = {} /\ W = {}
      BY <1>0, <1>3, <1>4, <1>5, <1>6
    <2> QED BY <1>1, <1>6, <2>1
  <1>7. CASE behind[f] # None
    <2>1. OwnedBy(f)
      BY <1>7 DEF FdsOk, AllOwned
    <2>2. CASE \E e \in shmList : e.fd = f
      <3>1. PICK e \in L : TRUE
        BY <2>2
      <3>2. L = {e}
        BY <3>1 DEF FdsOk, ListOk
      <3>3. D = {}
        BY <1>0, <1>3, <1>4, <3>1
      <3>4. W = {}
        BY <1>5, <3>1 DEF HandOk
      <3>5. Owners(f) = {<<"list", e>>}
        BY <1>1, <3>2, <3>3, <3>4
      <3> QED BY <1>7, <3>5
    <2>3. CASE \E s \in Supp!Slots : db[s] = f
      <3>1. PICK s \in D : TRUE
        BY <2>3
      <3>2. D = {s}
        BY <1>0, <3>1 DEF FdsOk, SlotsOk
      <3>3. L = {}
        BY <1>0, <1>3, <1>4, <3>1
      <3>4. W = {}
        BY <1>5, <3>1 DEF HandOk
      <3>5. Owners(f) = {<<"handle", s>>}
        BY <1>1, <3>2, <3>3, <3>4
      <3> QED BY <1>7, <3>5
    <2>4. CASE \E w \in Workers : Own(w) /\ hand[w] = f
      <3>1. PICK w \in W : TRUE
        BY <1>2, <2>4
      <3>2. W = {w}
        BY <1>2, <1>5, <3>1 DEF HandOk
      <3>3. L = {} /\ D = {}
        BY <1>5, <3>1 DEF HandOk
      <3>4. Owners(f) = {<<"hand", w>>}
        BY <1>1, <3>2, <3>3
      <3> QED BY <1>7, <3>4
    <2> QED BY <2>1, <2>2, <2>3, <2>4 DEF OwnedBy
  <1> QED BY <1>6, <1>7

(* Whatever the threads of tee-supplicant do at a time, and however often  *)
(* it is started again: every descriptor that is open has one owner, who   *)
(* closes it; until a descriptor of another was closed (see MapFails).     *)
THEOREM DescriptorsOwned == Spec => []OwnedOnce
  <1>1. TablesInv => OwnedOnce
    BY OwnersOne DEF TablesInv, OwnedOnce
  <1> QED BY <1>1, TablesInvariant, PTL

(* The list of shared memory never has two pieces of one identifier, so    *)
(* pop_tshm takes the right one off.                                       *)
THEOREM PiecesListedOnce == Spec => []IdsOnce
  <1>1. TablesInv => IdsOnce
    BY EntryOnce DEF TablesInv, IdsOnce, FdsOk, ListOk
  <1> QED BY <1>1, TablesInvariant, PTL

(* The memory that the driver holds for a call is on the list for it, and  *)
(* for no other call, also after tee-supplicant was started again, as long *)
(* as none that went on with what is of the old process got at it.         *)
THEOREM CallsHaveOwnMemory == Spec => []PiecesOwn
  <1>1. TablesInv => PiecesOwn
    BY DEF TablesInv, PiecesOk, PieceOk, OwnPiece, PiecesOnce, Alone, Claims, HasEntry,
           Unmixed, PiecesOwn
  <1> QED BY <1>1, TablesInvariant, PTL

(* The buffer in which a network call finds its answer is memory of that   *)
(* call; a call whose memory was mixed up with that of another aside.      *)
THEOREM AnswersInOwnBuffer == Spec => []BufferIsOwn
  <1>1. TablesInv => BufferIsOwn
    <2> SUFFICES ASSUME TablesInv, ~spoilt, NEW w \in Workers, w \notin mixed,
                        at[w] \in {"connect", "transfer"}, arg[w] # None
                 PROVE  \E e \in shmList : e.id = arg[w] /\ e.by = w
      BY DEF BufferIsOwn, Unmixed
    <2>1. PieceOk(w)
      BY DEF TablesInv, PiecesOk
    <2> QED BY <2>1 DEF PieceOk, OwnPiece, HasEntry
  <1> QED BY <1>1, TablesInvariant, PTL

(* The tables of tee-supplicant hold together: see DescriptorsOwned and    *)
(* PiecesListedOnce.                                                       *)
THEOREM TablesKept == Spec => []TablesHold
  <1>1. OwnedOnce /\ IdsOnce => TablesHold
    BY DEF TablesHold
  <1> QED BY <1>1, DescriptorsOwned, PiecesListedOnce, PTL

(* See CallsHaveOwnMemory and AnswersInOwnBuffer.                          *)
THEOREM MemoryKept == Spec => []MemoryIsOwn
  <1>1. PiecesOwn /\ BufferIsOwn => MemoryIsOwn
    BY DEF MemoryIsOwn
  <1> QED BY <1>1, CallsHaveOwnMemory, AnswersInOwnBuffer, PTL

(* The driver and tee-supplicant keep the types of their state.            *)
THEOREM RpcTyped == Spec => []TypeOK
  <1>1. DeviceInv /\ TablesInv => TypeOK
    BY DEF DeviceInv, TablesInv, TablesBase, TypesOk, TypeOK
  <1> QED BY <1>1, DeviceInvHolds, TablesInvariant, PTL
=============================================================================
