-------------------------- MODULE DeploymentProofs --------------------------
(***************************************************************************)
(* Theorems about DeploymentManager, for every number of callers, loops,   *)
(* calls and faults.  The argument: as long as nothing timed out, the one  *)
(* loop under way owns the one call of deploy() under way, and that call   *)
(* speaks of the session and the instance in the state.                    *)
(***************************************************************************)
EXTENDS DeploymentManager, SequenceTheorems, TLAPS

Made(n) == Seq([session : 1 .. n, healthy : BOOLEAN])

LoopTypes(len) ==
    [LoopIds -> [pc : LoopPcs, redeploy : BOOLEAN, attempts : Nat, op : 0 .. Ops, inst : 0 .. len]]
OpTypes(s, len) ==
    [OpIds -> [pc : OpPcs, session : 0 .. s, inst : 0 .. len, redeployed : BOOLEAN]]
CallerTypes(s, len) ==
    [Callers -> [pc : CallerPcs, loop : 0 .. Loops, inst : 0 .. len, session : 0 .. s]]

(* TypeOK part by part; a status is asked of an instance too, and a call   *)
(* has a session.                                                          *)
Typed ==
    /\ session \in Nat \ {0} /\ made \in Made(session)
    /\ instance \in 0 .. Len(made) /\ interval \in 0 .. Len(made)
    /\ promise \in 0 .. Loops
    /\ loop \in LoopTypes(Len(made))
    /\ op \in OpTypes(session, Len(made))
    /\ \A k \in OpIds : /\ op[k].pc \in {"status", "write"} => op[k].inst # 0
                        /\ op[k].pc # "none" => op[k].session # 0
    /\ caller \in CallerTypes(session, Len(made))
    /\ here \in BOOLEAN /\ joined \in BOOLEAN /\ late \in BOOLEAN /\ gaveUp \in BOOLEAN

(* While nothing timed out: a call of deploy() is waited for by an attempt *)
(* and speaks of the session there is, and whoever has an instance has the *)
(* one in the state.                                                       *)
Sound ==
    /\ \A k \in OpIds : op[k].pc # "none" => OwnerOf(k) # {} /\ op[k].session = session
    /\ \A k \in OpIds : op[k].pc \in {"status", "write"} => op[k].inst = instance
    /\ \A l \in LoopIds : loop[l].pc = "setup" => loop[l].inst = instance /\ instance # 0
    /\ \A l \in LoopIds : loop[l].pc = "backoff" => instance = 0
    /\ instance # 0 => Known(instance, session)

(* While, besides, no health check joined a deployment: nothing is checked *)
(* before the first deployment, and during a later one the instance that   *)
(* is checked is the one found, or is replaced by the one made.            *)
Guarded ==
    /\ ~here => interval = 0
    /\ \A l \in LoopIds : loop[l].pc = "setup" => interval = instance
    /\ \A k \in OpIds :
          op[k].pc = "status" \/ (op[k].pc = "write" /\ ~op[k].redeployed)
              => interval \in {0, instance}
    /\ Deployed => interval = instance

Inv ==
    /\ Typed /\ OneDeployment
    /\ ~Late => Sound
    /\ ~Late /\ ~joined => Guarded

-----------------------------------------------------------------------------
(* Types.                                                                  *)

LEMMA MadeGrows ==
    ASSUME NEW n \in Nat, NEW m \in Nat, n <= m, NEW s \in Made(n)
    PROVE  s \in Made(m)
<1>1. [session : 1 .. n, healthy : BOOLEAN] \subseteq [session : 1 .. m, healthy : BOOLEAN]
    OBVIOUS
<1> QED
    BY <1>1, SeqMonotonic DEF Made

LEMMA LengthOfMade == ASSUME Typed PROVE Len(made) \in Nat /\ DOMAIN made = 1 .. Len(made)
BY LenProperties DEF Typed, Made

(* The types of the calls hold on when sessions and instances are added.   *)
LEMMA TypesGrow ==
    ASSUME NEW s \in Nat, NEW t \in Nat, s <= t, NEW m \in Nat, NEW n \in Nat, m <= n
    PROVE  /\ \A f \in LoopTypes(m) : f \in LoopTypes(n)
           /\ \A f \in OpTypes(s, m) : f \in OpTypes(t, n)
           /\ \A f \in CallerTypes(s, m) : f \in CallerTypes(t, n)
<1>1. \A f \in LoopTypes(m) : f \in LoopTypes(n)
      BY DEF LoopTypes
<1>2. \A f \in OpTypes(s, m) : f \in OpTypes(t, n)
      BY DEF OpTypes
<1>3. \A f \in CallerTypes(s, m) : f \in CallerTypes(t, n)
      BY DEF CallerTypes
<1> QED
    BY <1>1, <1>2, <1>3

LEMMA SessionsGrow ==
    ASSUME Typed, session' \in Nat, session <= session'
    PROVE  op \in OpTypes(session', Len(made)) /\ caller \in CallerTypes(session', Len(made))
<1>1. /\ Len(made) \in Nat /\ Len(made) <= Len(made) /\ session \in Nat
      /\ op \in OpTypes(session, Len(made)) /\ caller \in CallerTypes(session, Len(made))
      BY LengthOfMade DEF Typed
<1> QED
    BY <1>1, TypesGrow

LEMMA TypedIsTypeOK == Typed => TypeOK
BY DEF Typed, TypeOK, Made, Instances, LoopTypes, OpTypes, CallerTypes

LEMMA TypedInit == Init => Typed
<1> SUFFICES ASSUME Init PROVE Typed
    OBVIOUS
<1>1. /\ session = 1 /\ instance = 0 /\ interval = 0 /\ promise = 0
      /\ here = FALSE /\ joined = FALSE /\ late = FALSE /\ gaveUp = FALSE
      /\ made = << >>
      BY DEF Init
<1>2. made \in Made(session) /\ Len(made) = 0
      BY <1>1, EmptySeq DEF Made
<1>3. loop \in LoopTypes(0)
      BY DeploymentAssumption DEF Init, LoopTypes, LoopPcs, NoLoop
<1>4. op \in OpTypes(1, 0) /\ \A k \in OpIds : op[k].pc = "none"
      BY DEF Init, OpTypes, OpPcs, NoOp
<1>5. caller \in CallerTypes(1, 0)
      BY DeploymentAssumption DEF Init, CallerTypes, CallerPcs, Resting
<1>6. promise \in 0 .. Loops /\ session \in Nat \ {0} /\ 0 \in 0 .. 0
      BY <1>1, DeploymentAssumption
<1>7. /\ loop \in LoopTypes(Len(made)) /\ op \in OpTypes(session, Len(made))
      /\ caller \in CallerTypes(session, Len(made))
      /\ instance \in 0 .. Len(made) /\ interval \in 0 .. Len(made)
      BY <1>1, <1>2, <1>3, <1>4, <1>5, <1>6
<1>8. here \in BOOLEAN /\ joined \in BOOLEAN /\ late \in BOOLEAN /\ gaveUp \in BOOLEAN
      BY <1>1
<1>9. \A k \in OpIds : /\ op[k].pc \in {"status", "write"} => op[k].inst # 0
                       /\ op[k].pc # "none" => op[k].session # 0
      BY <1>4
<1> QED
    BY <1>2, <1>6, <1>7, <1>8, <1>9 DEF Typed

LEMMA Grown ==
    ASSUME Typed, session' \in Nat, session <= session',
           Len(made') \in Nat, Len(made) <= Len(made')
    PROVE  /\ loop \in LoopTypes(Len(made'))
           /\ op \in OpTypes(session', Len(made'))
           /\ caller \in CallerTypes(session', Len(made'))
BY TypesGrow, LengthOfMade DEF Typed

CallsTyped ==
    \A k \in OpIds : /\ op[k].pc \in {"status", "write"} => op[k].inst # 0
                     /\ op[k].pc # "none" => op[k].session # 0

(* Sessions and instances change, and calls with them, but nothing is made.*)
LEMMA TypedSame ==
    ASSUME Typed, made' = made, session' \in Nat, session <= session',
           instance' \in 0 .. Len(made), interval' \in 0 .. Len(made), promise' \in 0 .. Loops,
           loop' \in LoopTypes(Len(made)), op' \in OpTypes(session', Len(made)), CallsTyped',
           caller' \in CallerTypes(session', Len(made)),
           here' \in BOOLEAN, joined' \in BOOLEAN, late' \in BOOLEAN, gaveUp' \in BOOLEAN
    PROVE  Typed'
<1>1. made' \in Made(session')
      BY MadeGrows DEF Typed
<1> QED
    BY <1>1 DEF Typed, CallsTyped

OpRecords(s, len) == [pc : OpPcs, session : 0 .. s, inst : 0 .. len, redeployed : BOOLEAN]

LEMMA OpTyped == ASSUME Typed, NEW k \in OpIds PROVE op[k] \in OpRecords(session, Len(made))
BY DEF Typed, OpTypes, OpRecords

LEMMA StatusTyped ==
    ASSUME Typed, NEW k \in OpIds, StatusAnswered(k)
    PROVE  Typed'
<1>1. /\ op \in OpTypes(session, Len(made)) /\ session \in Nat /\ session # 0
      /\ session \in 0 .. session
      /\ op[k].inst # 0 /\ op[k].session # 0 /\ CallsTyped
      BY DEF StatusAnswered, Typed, CallsTyped
<1>2. op' \in OpTypes(session, Len(made)) /\ CallsTyped'
  <2>1. CASE op' = [op EXCEPT ![k].pc = "write"]
    <3>1. op' \in OpTypes(session, Len(made))
          BY <1>1, <2>1 DEF OpTypes, OpPcs
    <3>2. CallsTyped'
          BY <1>1, <2>1 DEF OpTypes, CallsTyped
    <3> QED
        BY <3>1, <3>2
  <2>2. CASE op' = [op EXCEPT ![k].pc = "create", ![k].session = session]
    <3>1. op' \in OpTypes(session, Len(made))
          BY <1>1, <2>2 DEF OpTypes, OpPcs
    <3>2. CallsTyped'
          BY <1>1, <2>2 DEF OpTypes, CallsTyped
    <3> QED
        BY <3>1, <3>2
  <2> QED
      BY <2>1, <2>2, Zenon DEF StatusAnswered
<1>3. UNCHANGED <<state, made, promise, loop, caller, interval, history>>
      BY DEF StatusAnswered
<1> QED
    BY <1>2, <1>3 DEF Typed, CallsTyped, state, history

LEMMA CreatedTyped ==
    ASSUME Typed, NEW k \in OpIds, Created(k)
    PROVE  /\ Typed'
           /\ Len(made') = Len(made) + 1 /\ made'[Len(made')].session = op[k].session
           /\ \A i \in 1 .. Len(made) : made'[i] = made[i]
<1> DEFINE new == [session |-> op[k].session, healthy |-> TRUE]
<1>1. made' = Append(made, new) /\ session' = session /\ session \in Nat
      BY DEF Created, Typed
<1>2. op[k] \in OpRecords(session, Len(made)) /\ op[k].session # 0
      BY OpTyped DEF Typed, Created
<1>3. new \in [session : 1 .. session, healthy : BOOLEAN]
      BY <1>1, <1>2 DEF OpRecords
<1> HIDE DEF new
<1>4. /\ made' \in Made(session)
      /\ Len(made') = Len(made) + 1 /\ made'[Len(made')] = new
      /\ \A i \in 1 .. Len(made) : made'[i] = made[i]
      BY <1>1, <1>3, AppendProperties DEF Typed, Made
<1>5. /\ loop \in LoopTypes(Len(made'))
      /\ op \in OpTypes(session', Len(made'))
      /\ caller \in CallerTypes(session', Len(made'))
      BY <1>1, <1>4, LengthOfMade, Grown
<1>6. Len(made) \in Nat
      BY LengthOfMade
<1>7. /\ op' = [op EXCEPT ![k].pc = "write", ![k].inst = Len(made'), ![k].redeployed = TRUE]
      /\ instance' = Len(made')
      /\ UNCHANGED <<promise, loop, caller, interval, history>>
      BY DEF Created
<1>8. Len(made') \in 0 .. Len(made') /\ Len(made') # 0 /\ op[k].session # 0 /\ CallsTyped
      BY <1>2, <1>4, <1>6 DEF Typed, CallsTyped
<1>9. op' \in OpTypes(session', Len(made')) /\ CallsTyped'
      BY <1>5, <1>7, <1>8 DEF OpTypes, OpPcs, CallsTyped
<1>10. new.session = op[k].session
      BY DEF new
<1>11. /\ instance' \in 0 .. Len(made') /\ interval' \in 0 .. Len(made')
       /\ here' \in BOOLEAN /\ joined' \in BOOLEAN /\ late' \in BOOLEAN /\ gaveUp' \in BOOLEAN
       /\ promise' \in 0 .. Loops
       BY <1>4, <1>6, <1>7 DEF Typed, history
<1>12. /\ session' \in Nat \ {0} /\ made' \in Made(session')
       /\ loop' \in LoopTypes(Len(made')) /\ caller' \in CallerTypes(session', Len(made'))
       BY <1>1, <1>4, <1>5, <1>7 DEF Typed
<1>13. Typed'
       BY <1>9, <1>11, <1>12 DEF Typed, CallsTyped
<1> QED
    BY <1>4, <1>10, <1>13

(* What Failed, Reject, StartOp and Answer leave.                          *)
LEMMA FailedTyped ==
    ASSUME Typed, NEW l \in LoopIds, NEW hard \in BOOLEAN, Failed(l, hard)
    PROVE  /\ session' \in Nat /\ session <= session' /\ instance' = 0
           /\ loop' \in LoopTypes(Len(made))
<1>1. session' = session \/ session' = session + 1
      BY DEF Failed
<1>2. loop' = [loop EXCEPT ![l].pc = "backoff"]
      BY DEF Failed
<1>3. loop' \in LoopTypes(Len(made))
      BY <1>2 DEF Typed, LoopTypes, LoopPcs
<1> QED
    BY <1>1, <1>3 DEF Typed, Failed

LEMMA OpEnds ==
    ASSUME Typed, NEW k \in OpIds, op' = [op EXCEPT ![k] = NoOp],
           session' \in Nat, session <= session'
    PROVE  op' \in OpTypes(session', Len(made)) /\ CallsTyped'
<1>1. op \in OpTypes(session', Len(made)) /\ CallsTyped /\ Len(made) \in Nat
      BY SessionsGrow, LengthOfMade DEF Typed, CallsTyped
<1>2. NoOp \in [pc : OpPcs, session : 0 .. session', inst : 0 .. Len(made), redeployed : BOOLEAN]
      BY <1>1 DEF NoOp, OpPcs
<1>3. op' \in OpTypes(session', Len(made))
      BY <1>1, <1>2 DEF OpTypes
<1>4. NoOp.pc = "none"
      BY DEF NoOp
<1> QED
    BY <1>1, <1>3, <1>4 DEF OpTypes, CallsTyped

LEMMA RejectTyped ==
    ASSUME Typed, NEW k \in OpIds, NEW hard \in BOOLEAN, Reject(k, hard),
           UNCHANGED <<made, promise, caller, interval, history>>
    PROVE  Typed'
<1>1. /\ session' \in Nat /\ session <= session' /\ instance' \in 0 .. Len(made)
      /\ loop' \in LoopTypes(Len(made))
  <2>1. CASE OwnerOf(k) = {}
        BY <2>1 DEF Reject, Typed, state
  <2>2. CASE OwnerOf(k) # {}
        BY <2>2, FailedTyped, LengthOfMade DEF Reject, OwnerOf
  <2> QED
      BY <2>1, <2>2
<1>2. op' \in OpTypes(session', Len(made)) /\ CallsTyped'
      BY <1>1, OpEnds DEF Reject
<1>3. caller' \in CallerTypes(session', Len(made))
      BY <1>1, SessionsGrow
<1> QED
    BY <1>1, <1>2, <1>3, TypedSame DEF Typed, history

LEMMA AnswerTyped ==
    ASSUME Typed, NEW l \in LoopIds, Answer(l)
    PROVE  /\ loop' \in LoopTypes(Len(made)) /\ promise' \in 0 .. Loops
           /\ caller' \in CallerTypes(session, Len(made))
<1>1. Len(made) \in Nat
      BY LengthOfMade
<1>2. NoLoop \in [pc : LoopPcs, redeploy : BOOLEAN, attempts : Nat, op : 0 .. Ops, inst : 0 .. Len(made)]
      BY <1>1, DeploymentAssumption DEF NoLoop, LoopPcs
<1>3. Resting \in [pc : CallerPcs, loop : 0 .. Loops, inst : 0 .. Len(made), session : 0 .. session]
      BY <1>1, DeploymentAssumption DEF Resting, CallerPcs, Typed
<1>4. loop' \in LoopTypes(Len(made))
      BY <1>2 DEF Answer, Typed, LoopTypes
<1>5. caller' \in CallerTypes(session, Len(made))
      BY <1>3 DEF Answer, Typed, CallerTypes
<1>6. promise' \in 0 .. Loops
      BY DeploymentAssumption DEF Answer, Typed
<1> QED
    BY <1>4, <1>5, <1>6

LEMMA ResolveTyped ==
    ASSUME Typed, NEW k \in OpIds, op[k].pc # "none", Resolve(k),
           UNCHANGED <<made, joined, late, gaveUp>>
    PROVE  Typed'
<1>1. /\ session' = session /\ instance' = instance /\ op' = [op EXCEPT ![k] = NoOp]
      /\ session' \in Nat /\ session <= session'
      BY DEF Resolve, Typed, state
<1>2. op' \in OpTypes(session', Len(made)) /\ CallsTyped'
      BY <1>1, OpEnds
<1>3. op[k].inst \in 0 .. Len(made)
      BY DEF Typed, OpTypes
<1> DEFINE Rest == /\ loop' \in LoopTypes(Len(made)) /\ promise' \in 0 .. Loops
                   /\ caller' \in CallerTypes(session, Len(made))
                   /\ interval' \in 0 .. Len(made) /\ here' \in BOOLEAN
<1>4. Rest
  <2>1. CASE OwnerOf(k) = {}
        BY <2>1 DEF Resolve, Typed
  <2>2. ASSUME NEW l \in OwnerOf(k), Watch(k), here' = TRUE,
               loop' = [loop EXCEPT ![l].pc = "setup", ![l].inst = op[k].inst],
               UNCHANGED <<promise, caller>>
        PROVE  Rest
    <3>1. l \in LoopIds
          BY DEF OwnerOf
    <3>2. loop' \in LoopTypes(Len(made))
          BY <1>3, <2>2, <3>1 DEF Typed, LoopTypes, LoopPcs
    <3> QED
        BY <1>3, <2>2, <3>2 DEF Watch, Typed
  <2>3. ASSUME NEW l \in OwnerOf(k), Watch(k), here' = TRUE, Answer(l)
        PROVE  Rest
        BY <1>3, <2>3, AnswerTyped DEF Watch, Typed, OwnerOf
  <2> QED
      BY <2>1, <2>2, <2>3 DEF Resolve
<1> QED
    BY <1>1, <1>2, <1>4, TypedSame DEF Typed, state

LEMMA StartTyped ==
    ASSUME Typed, NEW k \in OpIds, NEW redeploy \in BOOLEAN, StartOp(k, redeploy)
    PROVE  /\ session' \in Nat /\ session <= session' /\ instance' \in 0 .. Len(made)
           /\ op' \in OpTypes(session', Len(made)) /\ CallsTyped'
<1>1. /\ session' \in Nat /\ session' # 0 /\ session <= session'
      /\ instance' \in 0 .. Len(made) /\ Len(made) \in Nat
      BY LengthOfMade DEF StartOp, Reset, state, Typed
<1> DEFINE o == [pc |-> IF instance' = 0 THEN "create" ELSE "status",
                 session |-> session', inst |-> instance', redeployed |-> FALSE]
<1>2. /\ o \in [pc : OpPcs, session : 0 .. session', inst : 0 .. Len(made), redeployed : BOOLEAN]
      /\ o.session # 0 /\ (o.pc \in {"status", "write"} => o.inst # 0)
      BY <1>1 DEF OpPcs
<1>3. op' = [op EXCEPT ![k] = o]
      BY DEF StartOp
<1> HIDE DEF o
<1>4. op \in OpTypes(session', Len(made)) /\ CallsTyped
      BY <1>1, SessionsGrow DEF Typed, CallsTyped
<1>5. op' \in OpTypes(session', Len(made))
      BY <1>2, <1>3, <1>4 DEF OpTypes
<1>6. CallsTyped'
      BY <1>2, <1>3, <1>4 DEF OpTypes, CallsTyped
<1> QED
    BY <1>1, <1>5, <1>6

CallerRecords(s, len) ==
    [pc : CallerPcs, loop : 0 .. Loops, inst : 0 .. len, session : 0 .. s]

LEMMA RestingTyped ==
    ASSUME NEW s \in Nat, NEW n \in Nat
    PROVE  Resting \in CallerRecords(s, n)
BY DeploymentAssumption DEF Resting, CallerRecords, CallerPcs

LEMMA RestingExcept ==
    ASSUME NEW s \in Nat, NEW n \in Nat, NEW l \in 0 .. Loops, NEW q \in CallerPcs
    PROVE  LET r == [Resting EXCEPT !.pc = q, !.loop = l]
           IN  r \in CallerRecords(s, n) /\ r.pc = q /\ r.loop = l
BY RestingTyped DEF CallerRecords

LEMMA DeployTyped ==
    ASSUME Typed, NEW c \in Callers, NEW redeploy \in BOOLEAN, DeployToSandbox(c, redeploy),
           made' = made, interval' \in 0 .. Len(made),
           here' \in BOOLEAN, joined' \in BOOLEAN, late' \in BOOLEAN, gaveUp' \in BOOLEAN
    PROVE  Typed'
<1>0. Len(made) \in Nat /\ Loops \in Nat /\ session \in Nat
      BY LengthOfMade, DeploymentAssumption DEF Typed
<1>1. CASE Join(c)
  <2>1. /\ session' = session /\ instance' = instance /\ UNCHANGED <<promise, loop, op>>
        /\ caller' = [caller EXCEPT ![c] = [Resting EXCEPT !.pc = "joined", !.loop = promise]]
        BY <1>1 DEF Join, state
  <2>2. [Resting EXCEPT !.pc = "joined", !.loop = promise]
           \in CallerRecords(session, Len(made))
        BY <1>0, RestingExcept DEF Typed, CallerPcs
  <2>3. caller' \in CallerTypes(session, Len(made))
        BY <2>1, <2>2 DEF Typed, CallerTypes, CallerRecords
  <2> QED
      BY <2>1, <2>3 DEF Typed
<1>2. CASE Launch(c, redeploy)
  <2>1. PICK l \in LoopIds, k \in OpIds :
           /\ promise' = l
           /\ caller' = [caller EXCEPT ![c] = [Resting EXCEPT !.pc = "first", !.loop = l]]
           /\ loop' = [loop EXCEPT ![l] = [pc |-> "attempt", redeploy |-> redeploy,
                                           attempts |-> 1, op |-> k, inst |-> 0]]
           /\ StartOp(k, redeploy)
        BY <1>2 DEF Launch
  <2>2. /\ session' \in Nat /\ session <= session' /\ instance' \in 0 .. Len(made)
        /\ op' \in OpTypes(session', Len(made)) /\ CallsTyped'
        BY <2>1, StartTyped
  <2>3. l \in 0 .. Loops /\ k \in 0 .. Ops
        BY DEF LoopIds, OpIds
  <2>4. [pc |-> "attempt", redeploy |-> redeploy, attempts |-> 1, op |-> k, inst |-> 0]
           \in [pc : LoopPcs, redeploy : BOOLEAN, attempts : Nat, op : 0 .. Ops, inst : 0 .. Len(made)]
        BY <1>0, <2>3 DEF LoopPcs
  <2>5. loop' \in LoopTypes(Len(made))
        BY <2>1, <2>4 DEF Typed, LoopTypes
  <2>6. [Resting EXCEPT !.pc = "first", !.loop = l]
           \in CallerRecords(session', Len(made))
        BY <1>0, <2>2, <2>3, RestingExcept DEF CallerPcs
  <2>7. caller \in CallerTypes(session', Len(made))
        BY <2>2, SessionsGrow
  <2>8. caller' \in CallerTypes(session', Len(made))
        BY <2>1, <2>6, <2>7 DEF CallerTypes, CallerRecords
  <2> QED
      BY <2>1, <2>2, <2>3, <2>5, <2>8, TypedSame
<1> QED
    BY <1>1, <1>2 DEF DeployToSandbox

LEMMA TypedNext == ASSUME Typed, [Next]_vars PROVE Typed'
<1>0. Len(made) \in Nat /\ session \in Nat /\ DOMAIN made = 1 .. Len(made)
      BY LengthOfMade DEF Typed
<1>1. ASSUME NEW k \in OpIds, StatusAnswered(k) PROVE Typed'
      BY <1>1, StatusTyped
<1>2. ASSUME NEW k \in OpIds, Created(k) PROVE Typed'
      BY <1>2, CreatedTyped
<1>3. ASSUME NEW k \in OpIds, Written(k) PROVE Typed'
  <2>1. op[k].pc # "none" /\ UNCHANGED <<made, joined, late, gaveUp>>
        BY <1>3 DEF Written
  <2>2. CASE Resolve(k)
        BY <2>1, <2>2, ResolveTyped
  <2>3. CASE Reject(k, FALSE) /\ UNCHANGED <<promise, caller, interval, here>>
        BY <2>1, <2>3, RejectTyped DEF history
  <2> QED
      BY <1>3, <2>2, <2>3 DEF Written
<1>4. ASSUME NEW k \in OpIds, RequestFails(k) PROVE Typed'
      BY <1>4, RejectTyped DEF RequestFails
<1>5. ASSUME NEW l \in LoopIds, NEW hard \in BOOLEAN, Failed(l, hard), late' \in BOOLEAN,
             UNCHANGED <<made, promise, op, caller, interval, here, joined, gaveUp>>
      PROVE Typed'
  <2>1. /\ session' \in Nat /\ session <= session' /\ instance' = 0
        /\ loop' \in LoopTypes(Len(made))
        BY <1>5, FailedTyped
  <2>2. op' = op /\ caller' = caller /\ op \in OpTypes(session, Len(made))
        /\ caller \in CallerTypes(session, Len(made))
        BY <1>5 DEF Typed
  <2>4. op' \in OpTypes(session', Len(made)) /\ caller' \in CallerTypes(session', Len(made))
        BY <2>1, <2>2, SessionsGrow
  <2>3. CallsTyped'
        BY <1>5 DEF Typed, CallsTyped
  <2> QED
      BY <1>0, <1>5, <2>1, <2>3, <2>4, TypedSame DEF Typed
<1>6. ASSUME NEW l \in LoopIds, AttemptTimeout(l) PROVE Typed'
      BY <1>5, <1>6 DEF AttemptTimeout
<1>7. ASSUME NEW l \in LoopIds, SetupFails(l) PROVE Typed'
      BY <1>5, <1>7 DEF SetupFails, history, Typed
<1>8. ASSUME NEW l \in LoopIds, Retry(l) PROVE Typed'
  <2>1. PICK k \in OpIds :
           /\ StartOp(k, loop[l].redeploy)
           /\ loop' = [loop EXCEPT ![l].pc = "attempt", ![l].op = k, ![l].attempts = @ + 1]
        BY <1>8 DEF Retry
  <2>2. loop[l].redeploy \in BOOLEAN /\ k \in 0 .. Ops /\ loop[l].attempts + 1 \in Nat
        BY DEF Typed, LoopTypes, OpIds
  <2>3. /\ session' \in Nat /\ session <= session' /\ instance' \in 0 .. Len(made)
        /\ op' \in OpTypes(session', Len(made)) /\ CallsTyped'
        BY <2>1, <2>2, StartTyped
  <2>4. loop' \in LoopTypes(Len(made))
        BY <2>1, <2>2 DEF Typed, LoopTypes, LoopPcs
  <2>5. caller' \in CallerTypes(session', Len(made))
        BY <1>8, <2>3, SessionsGrow DEF Retry
  <2> QED
      BY <1>8, <2>3, <2>4, <2>5, TypedSame DEF Retry, Typed, history
<1>9. ASSUME NEW l \in LoopIds, Finish(l) PROVE Typed'
      BY <1>9, AnswerTyped DEF Finish, Typed, state, history
<1>10. ASSUME NEW c \in Users, NEW redeploy \in BOOLEAN, Ask(c, redeploy) PROVE Typed'
       BY <1>10, DeployTyped DEF Ask, Callers, Typed, history
<1>11. ASSUME NEW p \in Probes, ProbeUnhealthy(p) PROVE Typed'
  <2>1. 0 \in 0 .. Len(made) /\ (joined \/ promise # 0) \in BOOLEAN
        BY <1>0
  <2> QED
      BY <1>11, <2>1, DeployTyped DEF ProbeUnhealthy, Callers, Typed
<1>12. ASSUME NEW c \in Callers, NEW r,
              r \in CallerRecords(session, Len(made)),
              caller' = [caller EXCEPT ![c] = r], promise' \in 0 .. Loops, gaveUp' \in BOOLEAN,
              UNCHANGED <<state, made, loop, op, interval, here, joined, late>>
       PROVE Typed'
  <2>1. caller' \in CallerTypes(session, Len(made))
        BY <1>12 DEF Typed, CallerTypes, CallerRecords
  <2> QED
      BY <1>12, <2>1 DEF Typed, state
<1>13. Resting \in CallerRecords(session, Len(made))
       BY <1>0, RestingTyped
<1>14. ASSUME NEW c \in Callers, MasterTimeout(c) PROVE Typed'
  <2>1. promise' \in 0 .. Loops
        BY <1>14, DeploymentAssumption DEF MasterTimeout, Typed
  <2> QED
      BY <1>12, <1>13, <1>14, <2>1 DEF MasterTimeout
<1>15. ASSUME NEW p \in Probes, Tick(p) PROVE Typed'
  <2>1. Resting \in CallerRecords(session, Len(made)) /\ interval \in 0 .. Len(made)
        /\ session \in 0 .. session
        BY <1>0, RestingTyped DEF Typed
  <2>2. [Resting EXCEPT !.pc = "probing", !.inst = interval, !.session = session]
           \in CallerRecords(session, Len(made))
        BY <2>1 DEF CallerRecords, CallerPcs
  <2>3. /\ caller' = [caller EXCEPT ![p] =
                        [Resting EXCEPT !.pc = "probing", !.inst = interval, !.session = session]]
        /\ p \in Callers /\ promise' \in 0 .. Loops /\ gaveUp' \in BOOLEAN
        /\ UNCHANGED <<state, made, loop, op, interval, here, joined, late>>
        BY <1>15 DEF Tick, Callers, history, Typed
  <2> QED
      BY <1>12, <2>2, <2>3
<1>16. ASSUME NEW p \in Probes, ProbeOk(p) \/ ProbeThrows(p) PROVE Typed'
       BY <1>12, <1>13, <1>16 DEF ProbeOk, ProbeThrows, Callers, history, Typed
<1>17. ASSUME NEW i \in DOMAIN made, Dies(i) PROVE Typed'
  <2> DEFINE e == [made[i] EXCEPT !.healthy = FALSE]
  <2>1. i \in 1 .. Len(made) /\ made' = [made EXCEPT ![i] = e]
        BY <1>0, <1>17 DEF Dies
  <2>2. made[i] \in [session : 1 .. session, healthy : BOOLEAN]
        BY <2>1, ElementOfSeq DEF Typed, Made
  <2>3. e \in [session : 1 .. session, healthy : BOOLEAN]
        BY <2>2
  <2> HIDE DEF e
  <2>4. made' \in Made(session) /\ Len(made') = Len(made)
        BY <2>1, <2>3, ExceptSeq DEF Typed, Made
  <2> QED
      BY <1>17, <2>4 DEF Dies, Typed, state, history
<1>18. ASSUME Evict PROVE Typed'
  <2>1. loop' \in LoopTypes(Len(made))
        BY <1>0, <1>18, DeploymentAssumption DEF Evict, LoopTypes, NoLoop, LoopPcs
  <2>2. op' \in OpTypes(session, Len(made)) /\ CallsTyped'
        BY <1>0, <1>18 DEF Evict, OpTypes, NoOp, OpPcs, CallsTyped
  <2>3. caller' \in CallerTypes(session, Len(made))
        BY <1>13, <1>18 DEF Evict, CallerTypes, CallerRecords
  <2>4. promise' = 0 /\ interval' = 0 /\ here' = FALSE
        /\ UNCHANGED <<session, instance, made, joined, late, gaveUp>>
        BY <1>18 DEF Evict, state
  <2>5. 0 \in 0 .. Loops /\ 0 \in 0 .. Len(made)
        BY <1>0, DeploymentAssumption
  <2> QED
      BY <2>1, <2>2, <2>3, <2>4, <2>5 DEF Typed, CallsTyped
<1>19. ASSUME UNCHANGED vars PROVE Typed'
       BY <1>19 DEF Typed, vars, state, history
<1> QED
    BY <1>1, <1>2, <1>3, <1>4, <1>6, <1>7, <1>8, <1>9, <1>10, <1>11, <1>14, <1>15, <1>16, <1>17,
       <1>18, <1>19
    DEF Next, Answered, Goes, Checks

(* What the state, the loops, the calls and the callers refer to was made, *)
(* and a call of deploy() has an instance when it writes to it.            *)
THEOREM DeploymentTypeCorrect == Spec => []TypeOK
<1>1. Typed /\ [Next]_vars => Typed'
      BY TypedNext
<1> QED
    BY <1>1, TypedInit, TypedIsTypeOK, PTL DEF Spec

-----------------------------------------------------------------------------
(* One deployment.                                                         *)

(* Nothing that is there changes who waits for which loop.                 *)
LEMMA KeepsOne ==
    ASSUME OneDeployment, gaveUp' = gaveUp, promise' = promise,
           \A l \in LoopIds : loop'[l].pc # "none" => loop[l].pc # "none",
           \A c \in Callers : caller[c].pc = "first" => caller'[c] = caller[c]
    PROVE  OneDeployment'
BY DEF OneDeployment, Active

LEMMA NoLoopPc == NoLoop.pc = "none" /\ NoOp.pc = "none" /\ Resting.pc = "idle"
BY DEF NoLoop, NoOp, Resting

LEMMA AnswerKeepsOne ==
    ASSUME Typed, OneDeployment, NEW l \in LoopIds, loop[l].pc # "none", Answer(l), gaveUp' = gaveUp
    PROVE  OneDeployment' /\ (~gaveUp => Active' = {})
<1>1. CASE gaveUp
      BY <1>1 DEF OneDeployment
<1>2. CASE ~gaveUp
  <2>1. l = promise /\ \A m \in LoopIds : m # l => loop[m].pc = "none"
        BY <1>2 DEF OneDeployment, Active
  <2>2. promise # 0
        BY <2>1 DEF LoopIds
  <2>3. promise' = 0
        BY <1>2, <2>1, <2>2 DEF OneDeployment, Answer
  <2>4. \A m \in LoopIds : loop'[m].pc = "none"
        BY <2>1, NoLoopPc DEF Answer, Typed, LoopTypes
  <2> QED
      BY <2>3, <2>4 DEF OneDeployment, Active
<1> QED
    BY <1>1, <1>2

LEMMA JoinKeepsOne ==
    ASSUME Typed, OneDeployment, NEW c \in Callers, caller[c].pc # "first", Join(c), gaveUp' = gaveUp
    PROVE  OneDeployment'
<1>1. \A d \in Callers : d # c => caller'[d] = caller[d]
      BY DEF Join, Typed, CallerTypes
<1> QED
    BY <1>1, KeepsOne DEF Join

LEMMA LaunchKeepsOne ==
    ASSUME Typed, OneDeployment, promise = 0, NEW c \in Callers, NEW redeploy \in BOOLEAN,
           Launch(c, redeploy), gaveUp' = gaveUp
    PROVE  OneDeployment'
<1>1. PICK l \in LoopIds :
         /\ promise' = l
         /\ caller' = [caller EXCEPT ![c] = [Resting EXCEPT !.pc = "first", !.loop = l]]
         /\ \A m \in LoopIds : m # l => loop'[m] = loop[m]
      BY DEF Launch, Typed, LoopTypes
<1>2. l \in 0 .. Loops
      BY DEF LoopIds
<1>3. LET r == [Resting EXCEPT !.pc = "first", !.loop = l] IN r.pc = "first" /\ r.loop = l
      BY <1>2, RestingExcept DEF CallerPcs
<1>4. caller'[c].pc = "first" /\ caller'[c].loop = l
      BY <1>1, <1>3 DEF Typed, CallerTypes
<1>5. ~gaveUp => \A m \in LoopIds : loop[m].pc = "none"
      BY DEF OneDeployment, Active, LoopIds
<1> QED
    BY <1>1, <1>4, <1>5 DEF OneDeployment, Active

LEMMA OneNext == ASSUME Typed, OneDeployment, [Next]_vars PROVE OneDeployment'
<1>1. ASSUME NEW k \in OpIds, StatusAnswered(k) \/ Created(k) PROVE OneDeployment'
      BY <1>1, KeepsOne DEF StatusAnswered, Created, history
<1>2. ASSUME NEW l \in LoopIds, loop[l].pc # "none", NEW hard \in BOOLEAN, Failed(l, hard),
             UNCHANGED <<promise, caller>>, gaveUp' = gaveUp
      PROVE OneDeployment'
      BY <1>2, KeepsOne DEF Failed, Typed, LoopTypes
<1>3. ASSUME NEW k \in OpIds, NEW hard \in BOOLEAN, Reject(k, hard),
             UNCHANGED <<promise, caller>>, gaveUp' = gaveUp
      PROVE OneDeployment'
  <2>1. CASE OwnerOf(k) = {}
        BY <1>3, <2>1, KeepsOne DEF Reject
  <2>2. CASE OwnerOf(k) # {}
        BY <1>2, <1>3, <2>2 DEF Reject, OwnerOf
  <2> QED
      BY <2>1, <2>2
<1>4. ASSUME NEW k \in OpIds, Resolve(k), gaveUp' = gaveUp PROVE OneDeployment'
  <2>1. CASE OwnerOf(k) = {}
        BY <1>4, <2>1, KeepsOne DEF Resolve
  <2>2. ASSUME NEW l \in OwnerOf(k), Answer(l) PROVE OneDeployment'
        BY <1>4, <2>2, AnswerKeepsOne DEF OwnerOf
  <2>3. ASSUME NEW l \in OwnerOf(k), UNCHANGED <<promise, caller>>,
               loop' = [loop EXCEPT ![l].pc = "setup", ![l].inst = op[k].inst]
        PROVE OneDeployment'
        BY <1>4, <2>3, KeepsOne DEF OwnerOf, Typed, LoopTypes
  <2> QED
      BY <1>4, <2>1, <2>2, <2>3 DEF Resolve
<1>5. ASSUME NEW k \in OpIds, Written(k) \/ RequestFails(k) PROVE OneDeployment'
      BY <1>3, <1>4, <1>5 DEF Written, RequestFails, history
<1>6. ASSUME NEW l \in LoopIds, AttemptTimeout(l) \/ SetupFails(l) PROVE OneDeployment'
      BY <1>2, <1>6 DEF AttemptTimeout, SetupFails, history
<1>7. ASSUME NEW l \in LoopIds, Retry(l) PROVE OneDeployment'
      BY <1>7, KeepsOne DEF Retry, history, Typed, LoopTypes
<1>8. ASSUME NEW l \in LoopIds, Finish(l) PROVE OneDeployment'
      BY <1>8, AnswerKeepsOne DEF Finish, history
<1>9. ASSUME NEW c \in Callers, NEW redeploy \in BOOLEAN, DeployToSandbox(c, redeploy),
             caller[c].pc # "first", gaveUp' = gaveUp
      PROVE OneDeployment'
      BY <1>9, JoinKeepsOne, LaunchKeepsOne DEF DeployToSandbox
<1>10. ASSUME NEW c \in Users, NEW redeploy \in BOOLEAN, Ask(c, redeploy) PROVE OneDeployment'
       BY <1>9, <1>10 DEF Ask, Callers, history
<1>11. ASSUME NEW p \in Probes, ProbeUnhealthy(p) PROVE OneDeployment'
       BY <1>9, <1>11 DEF ProbeUnhealthy, Callers
<1>12. ASSUME NEW c \in Callers, MasterTimeout(c) PROVE OneDeployment'
       BY <1>12 DEF MasterTimeout, OneDeployment
<1>13. ASSUME NEW p \in Probes, Tick(p) \/ ProbeOk(p) \/ ProbeThrows(p) PROVE OneDeployment'
  <2>1. p \in Callers /\ caller[p].pc # "first" /\ UNCHANGED <<promise, loop, gaveUp>>
        BY <1>13 DEF Tick, ProbeOk, ProbeThrows, Callers, history
  <2>2. \A d \in Callers : d # p => caller'[d] = caller[d]
        BY <1>13 DEF Tick, ProbeOk, ProbeThrows, Typed, CallerTypes
  <2> QED
      BY <2>1, <2>2, KeepsOne
<1>14. ASSUME NEW i \in DOMAIN made, Dies(i) PROVE OneDeployment'
       BY <1>14, KeepsOne DEF Dies, history
<1>15. ASSUME Evict PROVE OneDeployment'
       BY <1>15, NoLoopPc DEF Evict, OneDeployment, Active
<1>16. ASSUME UNCHANGED vars PROVE OneDeployment'
       BY <1>16, KeepsOne DEF vars, history
<1> QED
    BY <1>1, <1>5, <1>6, <1>7, <1>8, <1>10, <1>11, <1>12, <1>13, <1>14, <1>15, <1>16
    DEF Next, Answered, Goes, Checks

(* Unless a caller gave up waiting there is one deployment at a time, the  *)
(* one that the promise stands for, whatever fails, is late or is evicted. *)
THEOREM OneDeploymentAtATime == Spec => []OneDeployment
<1>1. Init => OneDeployment
      BY NoLoopPc DEF Init, OneDeployment, Active
<1>2. Typed /\ OneDeployment /\ [Next]_vars => (Typed /\ OneDeployment)'
      BY TypedNext, OneNext
<1> QED
    BY <1>1, <1>2, TypedInit, PTL DEF Spec

-----------------------------------------------------------------------------
(* The session and the instance.                                           *)

LEMMA OneCall ==
    ASSUME Typed, OneDeployment, ~gaveUp, Sound
    PROVE  /\ \A l \in LoopIds : loop[l].pc # "none" => l = promise
           /\ \A k \in OpIds : op[k].pc # "none" =>
                 OwnerOf(k) = {promise} /\ promise \in LoopIds
                 /\ loop[promise].pc = "attempt" /\ loop[promise].op = k
           /\ \A j, k \in OpIds : op[j].pc # "none" /\ op[k].pc # "none" => j = k
           /\ \A l \in LoopIds : loop[l].pc \in {"setup", "backoff"} =>
                 \A k \in OpIds : op[k].pc = "none"
           /\ promise = 0 => /\ \A l \in LoopIds : loop[l].pc = "none"
                             /\ \A k \in OpIds : op[k].pc = "none"
<1>1. \A l \in LoopIds : loop[l].pc # "none" => l = promise
      BY DEF OneDeployment, Active
<1>2. \A k \in OpIds : op[k].pc # "none" =>
         OwnerOf(k) = {promise} /\ promise \in LoopIds
         /\ loop[promise].pc = "attempt" /\ loop[promise].op = k
      BY <1>1 DEF Sound, OwnerOf
<1>3. 0 \notin LoopIds
      BY DEF LoopIds
<1> QED
    BY <1>1, <1>2, <1>3

(* A call that ends, and every loop but one rests.                         *)
LEMMA NoCalls ==
    ASSUME Typed, OneDeployment, ~gaveUp, Sound, NEW k \in OpIds, op[k].pc # "none",
           op' = [op EXCEPT ![k] = NoOp]
    PROVE  \A j \in OpIds : op'[j].pc = "none"
BY OneCall, NoLoopPc DEF Typed, OpTypes

LEMMA FailedSound ==
    ASSUME Typed, OneDeployment, ~gaveUp, Sound,
           NEW l \in LoopIds, loop[l].pc # "none", NEW hard, Failed(l, hard),
           \A j \in OpIds : op'[j].pc = "none"
    PROVE  /\ Sound'
           /\ Guarded /\ UNCHANGED <<interval, here>> => Guarded'
<1>1. /\ loop' = [loop EXCEPT ![l].pc = "backoff"] /\ instance' = 0
      BY DEF Failed
<1>2. \A m \in LoopIds : loop'[m].pc \in {"none", "backoff"}
      BY <1>1, OneCall DEF Typed, LoopTypes
<1> QED
    BY <1>1, <1>2 DEF Sound, Guarded, Deployed

LEMMA AnswerEnds ==
    ASSUME Typed, OneDeployment, ~gaveUp, Sound,
           NEW l \in LoopIds, loop[l].pc # "none", Answer(l)
    PROVE  \A m \in LoopIds : loop'[m].pc = "none"
BY OneCall, NoLoopPc DEF Answer, Typed, LoopTypes

(* When all rest nothing but the instance is to be known.                  *)
LEMMA RestSound ==
    ASSUME Sound, UNCHANGED <<state, made>>,
           \A m \in LoopIds : loop'[m].pc = "none", \A j \in OpIds : op'[j].pc = "none"
    PROVE  Sound'
BY DEF Sound, state, Known

LEMMA ResolveSound ==
    ASSUME Typed, OneDeployment, ~gaveUp, Sound, NEW k \in OpIds, op[k].pc = "write",
           Resolve(k), made' = made
    PROVE  /\ Sound'
           /\ Guarded => Guarded'
<1>1. /\ \A j \in OpIds : op'[j].pc = "none"
      /\ OwnerOf(k) = {promise} /\ promise \in LoopIds /\ loop[promise].pc = "attempt"
      /\ op[k].inst = instance /\ instance # 0 /\ UNCHANGED state
      BY NoCalls, OneCall DEF Resolve, Sound, Typed
<1>2. Watch(k) /\ here' = TRUE
      BY <1>1 DEF Resolve
<1>3. CASE op[k].redeployed \/ interval = 0
  <2>1. /\ loop' = [loop EXCEPT ![promise].pc = "setup", ![promise].inst = op[k].inst]
        /\ interval' = instance
        BY <1>1, <1>2, <1>3 DEF Resolve, Watch
  <2>2. \A m \in LoopIds : IF m = promise THEN loop'[m].pc = "setup" /\ loop'[m].inst = instance
                           ELSE loop'[m].pc = "none"
        BY <1>1, <2>1, OneCall DEF Typed, LoopTypes
  <2>3. Sound'
        BY <1>1, <2>2 DEF Sound, state, Known
  <2>4. Guarded'
        BY <1>1, <1>2, <2>1, <2>2 DEF Guarded, Deployed, state
  <2> QED
      BY <2>3, <2>4
<1>4. CASE ~op[k].redeployed /\ interval # 0
  <2>1. Answer(promise) /\ interval' = interval
        BY <1>1, <1>2, <1>4 DEF Resolve, Watch
  <2>2. \A m \in LoopIds : loop'[m].pc = "none"
        BY <1>1, <2>1, AnswerEnds
  <2>3. Sound'
        BY <1>1, <2>2, RestSound
  <2>4. Guarded => interval = instance
        BY <1>1, <1>4 DEF Guarded
  <2>5. Guarded => Guarded'
        BY <1>1, <1>2, <2>1, <2>2, <2>4 DEF Guarded, state
  <2> QED
      BY <2>3, <2>5
<1> QED
    BY <1>3, <1>4

(* The first request of an attempt, when there was no call.                *)
LEMMA StartSound ==
    ASSUME Typed, Sound, NEW k \in OpIds, NEW redeploy \in BOOLEAN, StartOp(k, redeploy),
           \A j \in OpIds : op[j].pc = "none", made' = made
    PROVE  /\ \A j \in OpIds : IF j = k THEN op'[j].pc \in {"create", "status"}
                               ELSE op'[j].pc = "none"
           /\ op'[k].session = session' /\ op'[k].inst = instance'
           /\ op'[k].pc = "status" => instance' # 0
           /\ instance' \in {0, instance} /\ (instance # 0 => Known(instance, session))'
<1> DEFINE o == [pc |-> IF instance' = 0 THEN "create" ELSE "status",
                 session |-> session', inst |-> instance', redeployed |-> FALSE]
<1>1. /\ o.pc \in {"create", "status"} /\ o.session = session' /\ o.inst = instance'
      /\ o.pc = "status" => instance' # 0
      OBVIOUS
<1>2. op' = [op EXCEPT ![k] = o]
      BY DEF StartOp
<1> HIDE DEF o
<1>3. \/ instance' = 0
      \/ session' = session /\ instance' = instance
      BY DEF StartOp, Reset, state
<1>4. instance' \in {0, instance} /\ (instance # 0 => Known(instance, session))'
      BY <1>3 DEF Sound, Known
<1>5. \A j \in OpIds : IF j = k THEN op'[j] = o ELSE op'[j] = op[j]
      BY <1>2 DEF Typed, OpTypes
<1> QED
    BY <1>1, <1>4, <1>5

(* An attempt begins: the first one of a deployment, or another one.       *)
LEMMA AttemptSound ==
    ASSUME Typed, Sound, NEW k \in OpIds, NEW l \in LoopIds, NEW redeploy \in BOOLEAN,
           StartOp(k, redeploy), \A j \in OpIds : op[j].pc = "none", made' = made,
           \A m \in LoopIds : IF m = l THEN loop'[m].pc = "attempt" /\ loop'[m].op = k
                              ELSE loop'[m].pc = "none"
    PROVE  /\ Sound'
           /\ (~here' => interval' = 0) /\ (instance # 0 => interval' \in {0, instance})
                 => Guarded'
<1>1. /\ \A j \in OpIds : IF j = k THEN op'[j].pc \in {"create", "status"}
                          ELSE op'[j].pc = "none"
      /\ op'[k].session = session' /\ op'[k].inst = instance'
      /\ op'[k].pc = "status" => instance' # 0
      /\ instance' \in {0, instance} /\ (instance # 0 => Known(instance, session))'
      BY StartSound
<1>2. l \in OwnerOf(k)'
      BY DEF OwnerOf
<1>3. Sound'
      BY <1>1, <1>2 DEF Sound
<1>4. ASSUME ~here' => interval' = 0, instance # 0 => interval' \in {0, instance}
      PROVE  Guarded'
      BY <1>1, <1>4 DEF Guarded, Deployed, Active
<1> QED
    BY <1>3, <1>4

LEMMA LaunchSound ==
    ASSUME Typed, OneDeployment, ~gaveUp, Sound, promise = 0,
           NEW c, NEW redeploy \in BOOLEAN, Launch(c, redeploy), made' = made
    PROVE  /\ Sound'
           /\ Guarded /\ interval' \in {0, interval} /\ here' = here => Guarded'
<1>1. PICK l \in LoopIds, k \in OpIds :
         /\ loop' = [loop EXCEPT ![l] = [pc |-> "attempt", redeploy |-> redeploy,
                                         attempts |-> 1, op |-> k, inst |-> 0]]
         /\ StartOp(k, redeploy)
      BY DEF Launch
<1>2. /\ \A m \in LoopIds : loop[m].pc = "none"
      /\ \A j \in OpIds : op[j].pc = "none"
      BY OneCall
<1>3. \A m \in LoopIds : IF m = l THEN loop'[m].pc = "attempt" /\ loop'[m].op = k
                         ELSE loop'[m].pc = "none"
      BY <1>1, <1>2 DEF Typed, LoopTypes
<1>4. Guarded /\ interval' \in {0, interval} /\ here' = here =>
         /\ ~here' => interval' = 0
         /\ instance # 0 => interval' \in {0, instance}
      BY <1>2 DEF Guarded, Deployed, Active
<1> QED
    BY <1>1, <1>2, <1>3, <1>4, AttemptSound

LEMMA DeploySound ==
    ASSUME Typed, OneDeployment, ~gaveUp, Sound, NEW c, NEW redeploy \in BOOLEAN,
           DeployToSandbox(c, redeploy), made' = made
    PROVE  /\ Sound'
           /\ Guarded /\ interval' \in {0, interval} /\ here' = here
              /\ (interval' = interval \/ promise = 0) => Guarded'
<1>1. CASE promise = 0
      BY <1>1, LaunchSound DEF DeployToSandbox
<1>2. CASE promise # 0
  <2>1. UNCHANGED <<state, made, loop, op>>
        BY <1>2 DEF DeployToSandbox, Join
  <2> QED
      BY <1>2, <2>1 DEF Sound, Guarded, Deployed, Active, OwnerOf, Known, state
<1> QED
    BY <1>1, <1>2

(* Nothing but callers and what is known of instances changes.             *)
LEMMA SameSound ==
    ASSUME Sound, UNCHANGED <<state, loop, op>>,
           instance # 0 => made'[instance].session = made[instance].session
    PROVE  /\ Sound'
           /\ Guarded /\ UNCHANGED <<interval, here>> => Guarded'
BY DEF Sound, Guarded, Deployed, Active, OwnerOf, Known, state

LEMMA SoundNext ==
    ASSUME Typed, OneDeployment, ~Late, Sound, [Next]_vars, ~Late'
    PROVE  /\ Sound'
           /\ Guarded /\ ~joined' => Guarded'
<1> DEFINE Goal == Sound' /\ (Guarded /\ ~joined' => Guarded')
<1>0. ~gaveUp /\ ~late /\ ~late' /\ ~gaveUp'
      BY DEF Late
<1>1. ASSUME NEW k \in OpIds, StatusAnswered(k) PROVE Goal
  <2>1. UNCHANGED <<state, made, loop, interval, here>> /\ op[k].pc = "status"
        BY <1>1 DEF StatusAnswered, history
  <2>2. \A j \in OpIds : j # k => op'[j] = op[j]
        BY <1>1 DEF StatusAnswered, Typed, OpTypes
  <2>3. /\ op'[k].pc \in {"write", "create"} /\ op'[k].inst = op[k].inst
        /\ op'[k].session \in {op[k].session, session}
        BY <1>1 DEF StatusAnswered, Typed, OpTypes
  <2>4. Sound'
        BY <2>1, <2>2, <2>3 DEF Sound, OwnerOf, Known, state
  <2>5. Guarded => Guarded'
        BY <2>1, <2>2, <2>3 DEF Guarded, Deployed, Active, state
  <2> QED
      BY <2>4, <2>5
<1>2. ASSUME NEW k \in OpIds, Created(k) PROVE Goal
  <2>1. UNCHANGED <<session, loop, interval, here>> /\ op[k].pc = "create"
        /\ instance' = Len(made')
        BY <1>2 DEF Created, history
  <2>2. Len(made') = Len(made) + 1 /\ made'[Len(made')].session = op[k].session
        BY <1>2, CreatedTyped
  <2>3. /\ \A j \in OpIds : j # k => op'[j] = op[j]
        /\ op'[k].pc = "write" /\ op'[k].inst = Len(made') /\ op'[k].redeployed = TRUE
        /\ op'[k].session = op[k].session
        BY <1>2 DEF Created, Typed, OpTypes
  <2>4. /\ \A j \in OpIds : j # k => op[j].pc = "none"
        /\ promise \in LoopIds /\ loop[promise].pc = "attempt"
        /\ \A m \in LoopIds : m # promise => loop[m].pc = "none"
        /\ op[k].session = session
        BY <1>0, <2>1, OneCall DEF Sound
  <2>5. Sound'
        BY <2>1, <2>2, <2>3, <2>4 DEF Sound, OwnerOf, Known
  <2>6. Guarded => Guarded'
        BY <2>1, <2>3, <2>4 DEF Guarded, Deployed, Active
  <2> QED
      BY <2>5, <2>6
<1>3. ASSUME NEW k \in OpIds, op[k].pc # "none", NEW hard, Reject(k, hard),
             UNCHANGED <<interval, here>>
      PROVE  Goal
  <2>1. OwnerOf(k) # {} /\ \A j \in OpIds : op'[j].pc = "none"
        BY <1>0, <1>3, NoCalls DEF Reject, Sound
  <2>2. PICK l \in OwnerOf(k) : Failed(l, hard)
        BY <1>3, <2>1 DEF Reject
  <2> QED
      BY <1>0, <1>3, <2>1, <2>2, FailedSound DEF OwnerOf
<1>4. ASSUME NEW k \in OpIds, Written(k) PROVE Goal
      BY <1>0, <1>3, <1>4, ResolveSound DEF Written
<1>5. ASSUME NEW k \in OpIds, RequestFails(k) PROVE Goal
      BY <1>3, <1>5 DEF RequestFails, history
<1>6. ASSUME NEW l \in LoopIds, AttemptTimeout(l) PROVE Goal
      BY <1>0, <1>6 DEF AttemptTimeout
<1>7. ASSUME NEW l \in LoopIds, SetupFails(l) PROVE Goal
  <2>1. /\ loop[l].pc = "setup" /\ UNCHANGED <<op, interval, here>>
        /\ \E hard \in BOOLEAN : Failed(l, hard)
        BY <1>7 DEF SetupFails, history
  <2>2. \A j \in OpIds : op'[j].pc = "none"
        BY <1>0, <2>1, OneCall
  <2> QED
      BY <1>0, <2>1, <2>2, FailedSound
<1>8. ASSUME NEW l \in LoopIds, Retry(l) PROVE Goal
  <2>1. PICK k \in OpIds :
           /\ StartOp(k, loop[l].redeploy)
           /\ loop' = [loop EXCEPT ![l].pc = "attempt", ![l].op = k, ![l].attempts = @ + 1]
        BY <1>8 DEF Retry
  <2>2. /\ loop[l].pc = "backoff" /\ loop[l].redeploy \in BOOLEAN
        /\ instance = 0 /\ UNCHANGED <<made, interval, here>>
        BY <1>8 DEF Retry, history, Sound, Typed, LoopTypes
  <2>3. /\ \A j \in OpIds : op[j].pc = "none"
        /\ \A m \in LoopIds : m # l => loop[m].pc = "none"
        BY <1>0, <2>2, OneCall
  <2>4. \A m \in LoopIds : IF m = l THEN loop'[m].pc = "attempt" /\ loop'[m].op = k
                           ELSE loop'[m].pc = "none"
        BY <2>1, <2>3 DEF Typed, LoopTypes
  <2>5. Guarded => (~here' => interval' = 0)
        BY <2>2 DEF Guarded
  <2> QED
      BY <2>1, <2>2, <2>3, <2>4, <2>5, AttemptSound
<1>9. ASSUME NEW l \in LoopIds, Finish(l) PROVE Goal
  <2>1. loop[l].pc = "setup" /\ Answer(l) /\ UNCHANGED <<state, made, op, interval, here>>
        BY <1>9 DEF Finish, history
  <2>2. /\ \A m \in LoopIds : loop'[m].pc = "none"
        /\ \A j \in OpIds : op'[j].pc = "none"
        BY <1>0, <2>1, OneCall, AnswerEnds
  <2>3. Sound'
        BY <2>1, <2>2, RestSound
  <2>4. Guarded => Guarded'
        BY <2>1, <2>2 DEF Guarded, state
  <2> QED
      BY <2>3, <2>4
<1>10. ASSUME NEW c \in Users, NEW redeploy \in BOOLEAN, Ask(c, redeploy) PROVE Goal
       BY <1>0, <1>10, DeploySound DEF Ask, history
<1>11. ASSUME NEW p \in Probes, ProbeUnhealthy(p) PROVE Goal
       BY <1>0, <1>11, DeploySound DEF ProbeUnhealthy
<1>12. ASSUME NEW c \in Callers, MasterTimeout(c) PROVE Goal
       BY <1>0, <1>12 DEF MasterTimeout
<1>13. ASSUME UNCHANGED <<state, loop, op, made, interval, here>> PROVE Goal
       BY <1>13, SameSound
<1>14. ASSUME NEW p \in Probes, Tick(p) \/ ProbeOk(p) \/ ProbeThrows(p) PROVE Goal
       BY <1>13, <1>14 DEF Tick, ProbeOk, ProbeThrows, history
<1>15. ASSUME NEW i \in DOMAIN made, Dies(i) PROVE Goal
  <2>1. UNCHANGED <<state, loop, op, interval, here>>
        /\ made' = [made EXCEPT ![i].healthy = FALSE]
        BY <1>15 DEF Dies, history
  <2>2. \A n \in 1 .. Len(made) : made[n] \in [session : 1 .. session, healthy : BOOLEAN]
        BY ElementOfSeq DEF Typed, Made
  <2>3. DOMAIN made = 1 .. Len(made)
        BY LengthOfMade
  <2>4. \A n \in 1 .. Len(made) : made'[n].session = made[n].session
        BY <2>1, <2>2, <2>3
  <2>5. instance # 0 => made'[instance].session = made[instance].session
        BY <2>4 DEF Typed
  <2> QED
      BY <2>1, <2>5, SameSound
<1>16. ASSUME Evict PROVE Goal
  <2>1. /\ \A m \in LoopIds : loop'[m].pc = "none"
        /\ \A j \in OpIds : op'[j].pc = "none"
        /\ UNCHANGED <<state, made>> /\ here' = FALSE /\ interval' = 0
        BY <1>16, NoLoopPc DEF Evict
  <2>2. Sound'
        BY <2>1, RestSound
  <2>3. Guarded'
        BY <2>1 DEF Guarded, Deployed
  <2> QED
      BY <2>2, <2>3
<1>17. ASSUME UNCHANGED vars PROVE Goal
       BY <1>13, <1>17 DEF vars, history
<1> QED
    BY <1>1, <1>2, <1>4, <1>5, <1>6, <1>7, <1>8, <1>9, <1>10, <1>11, <1>12, <1>14, <1>15, <1>16,
       <1>17
    DEF Next, Answered, Goes, Checks

LEMMA InvInit == Init => Inv
<1>1. Init => OneDeployment
      BY NoLoopPc DEF Init, OneDeployment, Active
<1>2. Init => Sound /\ Guarded
      BY NoLoopPc DEF Init, Sound, Guarded, Deployed
<1> QED
    BY <1>1, <1>2, TypedInit DEF Inv

(* A timeout and a joined deployment are never forgotten.                  *)
LEMMA HistoryKept == ASSUME [Next]_vars PROVE (Late => Late') /\ (joined => joined')
<1> DEFINE Kept == (late => late') /\ (gaveUp => gaveUp') /\ (joined => joined')
<1>1. ASSUME UNCHANGED <<joined, late, gaveUp>> PROVE Kept
      BY <1>1
<1>2. ASSUME NEW k \in OpIds, Answered(k) \/ RequestFails(k) PROVE Kept
      BY <1>1, <1>2 DEF Answered, StatusAnswered, Created, Written, RequestFails, history
<1>3. ASSUME NEW l \in LoopIds, Goes(l) \/ SetupFails(l) PROVE Kept
      BY <1>1, <1>3 DEF Goes, Retry, Finish, SetupFails, history
<1>4. ASSUME NEW l \in LoopIds, AttemptTimeout(l) PROVE Kept
      BY <1>4, Zenon DEF AttemptTimeout
<1>5. ASSUME NEW c \in Callers, MasterTimeout(c) PROVE Kept
      BY <1>5, Zenon DEF MasterTimeout
<1>6. ASSUME NEW p \in Probes, Tick(p) \/ ProbeOk(p) \/ ProbeThrows(p) PROVE Kept
      BY <1>1, <1>6 DEF Tick, ProbeOk, ProbeThrows, history
<1>7. ASSUME NEW p \in Probes, ProbeUnhealthy(p) PROVE Kept
      BY <1>7, Zenon DEF ProbeUnhealthy
<1>8. ASSUME NEW c \in Users, NEW redeploy \in BOOLEAN, Ask(c, redeploy) PROVE Kept
      BY <1>1, <1>8 DEF Ask, history
<1>9. ASSUME (\E i \in DOMAIN made : Dies(i)) \/ Evict \/ UNCHANGED vars PROVE Kept
      BY <1>1, <1>9 DEF Dies, Evict, vars, history
<1>10. Kept
  <2> HIDE DEF Kept
  <2> QED
      BY <1>2, <1>3, <1>4, <1>5, <1>6, <1>7, <1>8, <1>9 DEF Next, Checks
<1> QED
    BY <1>10, Zenon DEF Late

LEMMA InvNext == ASSUME Inv, [Next]_vars PROVE Inv'
<1>1. Typed /\ OneDeployment /\ Typed' /\ OneDeployment'
      BY TypedNext, OneNext DEF Inv
<1>2. ~Late' => Sound'
      BY <1>1, HistoryKept, SoundNext DEF Inv
<1>3. ~Late' /\ ~joined' => Guarded'
      BY <1>1, HistoryKept, SoundNext DEF Inv
<1> QED
    BY <1>1, <1>2, <1>3 DEF Inv

(* A loop ends with the instance in the state, made in its session.        *)
LEMMA PreviewStep ==
    ASSUME Inv, Inv', ~Late, [Next]_vars, NEW l \in Active, loop'[l].pc = "none", here'
    PROVE  Given(l) = instance' /\ Known(instance', session')
<1>0. Typed /\ OneDeployment /\ Sound /\ ~gaveUp /\ l \in LoopIds /\ loop[l].pc # "none"
      BY DEF Inv, Late, Active
<1> DEFINE Goal == Given(l) = instance' /\ Known(instance', session')
<1>1. loop' # loop
      BY <1>0
<1>2. ASSUME NEW m \in LoopIds, NEW hard, Failed(m, hard) PROVE FALSE
      BY <1>0, <1>2 DEF Failed, Typed, LoopTypes
<1>3. ASSUME NEW k \in OpIds, NEW hard, Reject(k, hard) PROVE FALSE
      BY <1>1, <1>2, <1>3 DEF Reject, OwnerOf
<1>4. ASSUME NEW k \in OpIds, Written(k) PROVE Goal
  <2>1. op[k].pc = "write" /\ Known(op[k].inst, session) /\ Resolve(k)
        BY <1>3, <1>4 DEF Written
  <2>2. /\ OwnerOf(k) = {promise} /\ l = promise /\ loop[l].pc = "attempt" /\ loop[l].op = k
        /\ op[k].inst = instance
        BY <1>0, <2>1, OneCall DEF Sound
  <2>3. UNCHANGED state
        BY <2>1 DEF Resolve
  <2> QED
      BY <2>1, <2>2, <2>3 DEF Given, state
<1>5. ASSUME NEW m \in LoopIds, Finish(m) PROVE Goal
  <2>1. loop[m].pc = "setup" /\ UNCHANGED state
        BY <1>5 DEF Finish
  <2>2. m = l
        BY <1>0, <2>1, OneCall
  <2>3. Given(l) = instance /\ Known(instance, session)
        BY <1>0, <2>1, <2>2 DEF Given, Sound
  <2> QED
      BY <2>1, <2>3 DEF state
<1>6. ASSUME NEW m \in LoopIds, Retry(m) PROVE FALSE
      BY <1>0, <1>6 DEF Retry, Typed, LoopTypes
<1>7. ASSUME NEW c, NEW redeploy, DeployToSandbox(c, redeploy) PROVE FALSE
  <2>1. \A m \in LoopIds : loop'[m] = loop[m] \/ loop[m].pc = "none"
        BY <1>0, <1>7 DEF DeployToSandbox, Join, Launch, FreeLoop, Active, Typed, LoopTypes
  <2> QED
      BY <1>0, <2>1
<1>8. ASSUME Evict PROVE FALSE
      BY <1>8 DEF Evict
<1>9. ASSUME NEW k \in OpIds, Answered(k) \/ RequestFails(k) PROVE Goal
      BY <1>1, <1>3, <1>4, <1>9 DEF Answered, StatusAnswered, Created, RequestFails
<1>10. ASSUME NEW m \in LoopIds, Goes(m) \/ AttemptTimeout(m) \/ SetupFails(m) PROVE Goal
       BY <1>2, <1>5, <1>6, <1>10 DEF Goes, AttemptTimeout, SetupFails
<1>11. ASSUME NEW c \in Users, NEW redeploy \in BOOLEAN, Ask(c, redeploy) PROVE FALSE
       BY <1>7, <1>11 DEF Ask
<1>12. ASSUME NEW c \in Callers, MasterTimeout(c) PROVE FALSE
       BY <1>1, <1>12 DEF MasterTimeout
<1>13. ASSUME NEW p \in Probes, Checks(p) \/ ProbeThrows(p) PROVE FALSE
       BY <1>1, <1>7, <1>13 DEF Checks, Tick, ProbeOk, ProbeUnhealthy, ProbeThrows
<1>14. ASSUME (\E i \in DOMAIN made : Dies(i)) \/ UNCHANGED vars PROVE FALSE
       BY <1>1, <1>14 DEF Dies, vars
<1> QED
    BY <1>8, <1>9, <1>10, <1>11, <1>12, <1>13, <1>14 DEF Next

LEMMA InvAlways == Spec => []Inv
<1>1. Inv /\ [Next]_vars => Inv'
      BY InvNext
<1> QED
    BY <1>1, InvInit, PTL DEF Spec

(* Unless something timed out, what is in the state fits together: the     *)
(* instance was made in the session, for any number of callers and of      *)
(* failures, and after any eviction.                                       *)
THEOREM InstanceFitsSession == Spec => []InstanceOfSession
<1>1. Inv => InstanceOfSession
      BY DEF Inv, Sound, InstanceOfSession
<1> QED
    BY <1>1, InvAlways, PTL

(* What was deployed last is what the interval checks, unless something    *)
(* timed out or a health check joined a deployment.                        *)
THEOREM DeploymentWatched == Spec => []Watched
<1>1. Inv => Watched
      BY DEF Inv, Guarded, Watched
<1> QED
    BY <1>1, InvAlways, PTL

(* A caller is given the instance in the state, one of the session in the  *)
(* state, unless something timed out.                                      *)
THEOREM PreviewGiven == Spec => PreviewIsInstance
<1>1. ASSUME Inv, Inv', [Next]_vars
      PROVE  [\A l \in Active : loop'[l].pc = "none" /\ ~Late /\ here'
                 => Given(l) = instance' /\ Known(instance', session')]_vars
      BY <1>1, PreviewStep
<1> QED
    BY <1>1, InvAlways, PTL DEF Spec, PreviewIsInstance
=============================================================================
