------------------------- MODULE ConnectionPoolProofs -------------------------
(***************************************************************************)
(* What holds of ConnectionPool and ServerLifecycle for every number of    *)
(* requests and every connectionLimit.                                     *)
(***************************************************************************)
EXTENDS ServerLifecycle, FiniteSetTheorems, SequenceTheorems, TLAPS

(* What a handler has still to do: at most one transaction, which it ends  *)
(* last, and which has begun when only the end of it is left.              *)

Kind == {"query", "begin", "end"}

RestOK(s) ==
  /\ s \in Seq(Kind)
  /\ \A i \in 1..Len(s) : s[i] = "end" => i = Len(s)
  /\ \A i \in 1..Len(s) : s[i] = "begin" =>
       s[Len(s)] = "end" /\ \A j \in 1..Len(s) : s[j] = "begin" => j = i

Begun(s) == /\ s # <<>> /\ s[Len(s)] = "end"
            /\ \A i \in 1..Len(s) : s[i] # "begin"

LEMMA PlansOK ==
  ASSUME NEW p \in AllPlans
  PROVE  RestOK(p) /\ ~Begun(p) /\ p # <<>>
  <1>1. CASE p = CreatePlan
    BY <1>1 DEF CreatePlan, RestOK, Begun, Kind
  <1>2. CASE p = UpdatePlan
    BY <1>2 DEF UpdatePlan, RestOK, Begun, Kind
  <1>3. CASE p = MovePlan
    BY <1>3 DEF MovePlan, RestOK, Begun, Kind
  <1>4. CASE p = CancelPlan
    BY <1>4 DEF CancelPlan, RestOK, Begun, Kind
  <1>5. CASE p = QuietCancelPlan
    BY <1>5 DEF QuietCancelPlan, RestOK, Begun, Kind
  <1>6. CASE p = InvitePlan
    BY <1>6 DEF InvitePlan, RestOK, Begun, Kind
  <1>7. CASE p = DeclinePlan
    BY <1>7 DEF DeclinePlan, RestOK, Begun, Kind
  <1>8. CASE p = AvailabilityPlan
    BY <1>8 DEF AvailabilityPlan, RestOK, Begun, Kind
  <1> QED
    BY <1>1, <1>2, <1>3, <1>4, <1>5, <1>6, <1>7, <1>8
    DEF AllPlans, AcceptPlan, InvitePlan, RemovePlan, DeclinePlan

LEMMA EndOK == RestOK(<<"end">>) /\ Begun(<<"end">>) /\ RestOK(<<>>) /\ ~Begun(<<>>)
  <1>1. RestOK(<<"end">>) /\ Begun(<<"end">>)
    BY DEF RestOK, Begun, Kind
  <1>2. RestOK(<<>>) /\ ~Begun(<<>>)
    BY EmptySeq DEF RestOK, Begun
  <1> QED
    BY <1>1, <1>2

LEMMA TailOK ==
  ASSUME NEW s, RestOK(s), s # <<>>
  PROVE  /\ RestOK(Tail(s)) /\ Head(s) = s[1] /\ Head(s) \in Kind
         /\ Head(s) = "begin" => Begun(Tail(s)) /\ ~Begun(s)
         /\ Head(s) = "query" => (Begun(Tail(s)) <=> Begun(s))
         /\ Begun(s) /\ Head(s) # "end" => Head(s) = "query"
  <1> DEFINE t == Tail(s)
  <1>1. /\ s \in Seq(Kind) /\ t \in Seq(Kind) /\ Len(s) \in Nat \ {0} /\ Len(t) = Len(s) - 1
        /\ \A i \in 1..Len(t) : t[i] = s[i + 1]
        /\ Head(s) = s[1] /\ Head(s) \in Kind
    BY HeadTailProperties, EmptySeq DEF RestOK
  <1>2. t # <<>> <=> Len(s) > 1
    <2>1. t # <<>> => Len(t) \in Nat \ {0}
      BY <1>1, EmptySeq
    <2>2. t = <<>> => Len(t) = 0
      BY EmptySeq
    <2>3. Len(s) \in Nat /\ Len(t) = Len(s) - 1
      BY <1>1
    <2> HIDE DEF t
    <2> QED
      BY <2>1, <2>2, <2>3
  <1>3. t # <<>> => t[Len(t)] = s[Len(s)]
    BY <1>1, <1>2
  <1>4. RestOK(t)
    <2>1. ASSUME NEW i \in 1..Len(t), t[i] = "end" PROVE i = Len(t)
      <3>1. i + 1 \in 1..Len(s) /\ s[i + 1] = "end"
        BY <1>1, <2>1
      <3>2. i + 1 = Len(s)
        BY <3>1 DEF RestOK
      <3>3. Len(t) = Len(s) - 1 /\ Len(s) \in Nat /\ i \in Nat
        BY <1>1
      <3> HIDE DEF t
      <3> QED
        BY <3>2, <3>3
    <2>2. ASSUME NEW i \in 1..Len(t), t[i] = "begin"
          PROVE  t[Len(t)] = "end" /\ \A j \in 1..Len(t) : t[j] = "begin" => j = i
      <3>1. i + 1 \in 1..Len(s) /\ s[i + 1] = "begin" /\ Len(t) \in Nat \ {0}
        BY <1>1, <2>2
      <3>2. s[Len(s)] = "end" /\ \A j \in 1..Len(s) : s[j] = "begin" => j = i + 1
        BY <3>1 DEF RestOK
      <3>3. ASSUME NEW j \in 1..Len(t), t[j] = "begin" PROVE j = i
        <4>1. j + 1 \in 1..Len(s) /\ s[j + 1] = "begin"
          BY <1>1, <3>3
        <4> QED
          BY <3>2, <4>1
      <3> QED
        BY <1>1, <1>3, <3>1, <3>2, <3>3
    <2> QED
      BY <1>1, <2>1, <2>2 DEF RestOK
  <1>5. ASSUME Head(s) = "begin" PROVE Begun(t) /\ ~Begun(s)
    <2>1. s[1] = "begin" /\ 1 \in 1..Len(s)
      BY <1>1, <1>5
    <2>2. s[Len(s)] = "end" /\ \A j \in 1..Len(s) : s[j] = "begin" => j = 1
      BY <2>1 DEF RestOK
    <2>3. Len(s) > 1
      BY <1>1, <2>1, <2>2
    <2>4. \A i \in 1..Len(t) : t[i] # "begin"
      BY <1>1, <2>2
    <2> QED
      BY <1>2, <1>3, <2>1, <2>2, <2>3, <2>4 DEF Begun
  <1>6. ASSUME Head(s) = "query" PROVE Begun(t) <=> Begun(s)
    <2>1. s[1] = "query"
      BY <1>1, <1>6
    <2>2. ASSUME Begun(s) PROVE Begun(t)
      BY <1>1, <1>2, <1>3, <2>1, <2>2 DEF Begun
    <2>3. ASSUME Begun(t) PROVE Begun(s)
      <3>1. s[Len(s)] = "end"
        BY <1>3, <2>3 DEF Begun
      <3>2. ASSUME NEW i \in 1..Len(s) PROVE s[i] # "begin"
        <4>1. CASE i = 1
          BY <2>1, <4>1
        <4>2. CASE i # 1
          <5>1. i - 1 \in 1..Len(t) /\ t[i - 1] = s[i]
            BY <1>1, <4>2
          <5> QED
            BY <2>3, <5>1 DEF Begun
        <4> QED
          BY <4>1, <4>2
      <3> QED
        BY <3>1, <3>2 DEF Begun
    <2> QED
      BY <2>2, <2>3
  <1>7. Begun(s) /\ Head(s) # "end" => Head(s) = "query"
    BY <1>1 DEF Begun, Kind
  <1> QED
    BY <1>1, <1>4, <1>5, <1>6, <1>7
-----------------------------------------------------------------------------
(* The inductive invariant *)

LEMMA Counting ==
  ASSUME NEW S \in SUBSET Req
  PROVE  /\ IsFiniteSet(S) /\ Cardinality(S) \in Nat
         /\ \A x \in Req \ S : Cardinality(S \cup {x}) = Cardinality(S) + 1
         /\ \A x \in S : Cardinality(S \ {x}) = Cardinality(S) - 1 /\ Cardinality(S) > 0
  <1>1. IsFiniteSet(S)
    BY ReqFinite, FS_Subset
  <1>2. Cardinality(S) \in Nat
    BY <1>1, FS_CardinalityType
  <1>3. \A x \in Req \ S : Cardinality(S \cup {x}) = Cardinality(S) + 1
    BY <1>1, FS_AddElement
  <1>4. \A x \in S : Cardinality(S \ {x}) = Cardinality(S) - 1 /\ Cardinality(S) > 0
    BY <1>1, <1>2, FS_RemoveElement, FS_EmptySet
  <1> QED
    BY <1>1, <1>2, <1>3, <1>4

Keepers == {r \in Req : tx[r]}
Askers == {r \in Req : phase[r] = "query"}
Sleepers == {r \in Req : phase[r] = "wait"}

Typed == /\ phase \in [Req -> {"idle", "run", "wait", "query", "done"}]
         /\ todo \in [Req -> Seq(Kind)]
         /\ tx \in [Req -> BOOLEAN]
         /\ queue \in Seq(Req)

HandlerOK(r) ==
  /\ RestOK(todo[r]) /\ (tx[r] <=> Begun(todo[r]))
  /\ phase[r] \in {"idle", "done"} => todo[r] = <<>>
  /\ phase[r] = "query" => todo[r] # <<>> /\ Wants(r) = "query"
  /\ phase[r] = "wait" => todo[r] # <<>> /\ Wants(r) # "end"

QueueOK ==
  /\ \A i \in 1..Len(queue) : phase[queue[i]] = "wait"
  /\ \A r \in Req : phase[r] = "wait" => \E i \in 1..Len(queue) : queue[i] = r
  /\ \A i, j \in 1..Len(queue) : queue[i] = queue[j] => i = j
  /\ Len(queue) = Cardinality(Sleepers)

PoolInv == Typed /\ (\A r \in Req : HandlerOK(r)) /\ QueueOK /\ NoLostWakeup

LEMMA InUseCounts == /\ InUse = Cardinality(Keepers) + Cardinality(Askers)
                     /\ InUse' = Cardinality(Keepers') + Cardinality(Askers')
  BY DEF InUse, Keepers, Askers

LEMMA InitPoolInv == PoolInit => PoolInv
  <1> SUFFICES ASSUME PoolInit PROVE PoolInv
    OBVIOUS
  <1>1. Typed
    BY EmptySeq DEF PoolInit, Typed
  <1>2. \A r \in Req : HandlerOK(r)
    BY EndOK DEF PoolInit, HandlerOK
  <1>3. Keepers = {} /\ Askers = {} /\ Sleepers = {}
    BY DEF PoolInit, Keepers, Askers, Sleepers
  <1>4. QueueOK
    BY <1>3, FS_EmptySet DEF PoolInit, QueueOK
  <1>5. NoLostWakeup
    <2>1. InUse = 0
      BY <1>3, InUseCounts, FS_EmptySet
    <2> QED
      BY <2>1, LimitPositive DEF PoolInit, NoLostWakeup
  <1> QED
    BY <1>1, <1>2, <1>4, <1>5 DEF PoolInv

(* A step of r that leaves the queue and the connections in use alone *)
LEMMA QuietStep ==
  ASSUME PoolInv, NEW r \in Req, Typed', HandlerOK(r)', UNCHANGED <<tx, queue>>,
         phase[r] \in {"idle", "run"}, phase'[r] \in {"run", "done"},
         \A p \in Req \ {r} : phase'[p] = phase[p] /\ todo'[p] = todo[p]
  PROVE  PoolInv'
  <1>1. Askers' = Askers /\ Sleepers' = Sleepers /\ Keepers' = Keepers
    BY DEF Askers, Sleepers, Keepers
  <1>2. \A p \in Req : HandlerOK(p)'
    BY DEF PoolInv, HandlerOK, Wants
  <1>3. QueueOK'
    <2>1. \A i \in 1..Len(queue) : queue[i] \in Req
      BY DEF PoolInv, Typed
    <2> QED
      BY <1>1, <2>1 DEF PoolInv, QueueOK
  <1>4. NoLostWakeup'
    <2>1. InUse' = InUse
      BY <1>1, InUseCounts
    <2> QED
      BY <2>1 DEF PoolInv, NoLostWakeup
  <1> QED
    BY <1>2, <1>3, <1>4 DEF PoolInv

LEMMA QuietSteps ==
  ASSUME PoolInv, NEW r \in Req, Start(r) \/ Respond(r) \/ Throw(r)
  PROVE  PoolInv'
  <1> USE DEF PoolInv, Typed
  <1>1. CASE Start(r)
    <2>1. PICK p \in PlansOf[r] : todo' = [todo EXCEPT ![r] = p]
      BY <1>1 DEF Start
    <2>2. RestOK(p) /\ ~Begun(p) /\ p # <<>> /\ p \in Seq(Kind)
      BY <2>1, PlansKnown, PlansOK DEF RestOK
    <2>3. ~tx[r]
      BY <1>1, EndOK DEF Start, HandlerOK
    <2>4. Typed' /\ HandlerOK(r)' /\ \A q \in Req \ {r} : phase'[q] = phase[q] /\ todo'[q] = todo[q]
      BY <1>1, <2>1, <2>2, <2>3 DEF Start, HandlerOK, Wants
    <2> QED
      BY <1>1, <2>4, QuietStep DEF Start
  <1>2. CASE Respond(r)
    <2>1. Typed' /\ HandlerOK(r)' /\ \A q \in Req \ {r} : phase'[q] = phase[q] /\ todo'[q] = todo[q]
      BY <1>2 DEF Respond, HandlerOK, Wants
    <2> QED
      BY <1>2, <2>1, QuietStep DEF Respond
  <1>3. CASE Throw(r)
    <2>1. Typed' /\ HandlerOK(r)' /\ \A q \in Req \ {r} : phase'[q] = phase[q] /\ todo'[q] = todo[q]
      BY <1>3, EndOK DEF Throw, HandlerOK, Wants, RestOK
    <2> QED
      BY <1>3, <2>1, QuietStep DEF Throw
  <1> QED
    BY <1>1, <1>2, <1>3

LEMMA WaitStep ==
  ASSUME PoolInv, NEW r \in Req, Wait(r)
  PROVE  PoolInv'
  <1>1. /\ phase[r] = "run" /\ todo[r] # <<>> /\ Wants(r) # "end" /\ InUse = Limit
        /\ phase' = [phase EXCEPT ![r] = "wait"] /\ queue' = Append(queue, r)
        /\ UNCHANGED <<todo, tx>> /\ Typed
    BY DEF Wait, PoolInv
  <1>2. /\ queue' \in Seq(Req) /\ queue' # <<>> /\ Len(queue') = Len(queue) + 1
        /\ \A i \in 1..Len(queue) : queue'[i] = queue[i] /\ queue[i] \in Req
        /\ queue'[Len(queue) + 1] = r /\ Len(queue) \in Nat
    <2>1. queue \in Seq(Req) /\ Len(queue) \in Nat /\ \A i \in 1..Len(queue) : queue[i] \in Req
      BY <1>1 DEF Typed
    <2>2. \A n \in 1..Len(queue) : Append(queue, r)[n] = queue[n]
      BY <2>1, AppendProperties
    <2> QED
      BY <1>1, <2>1, <2>2, AppendProperties
  <1>3. Typed'
    BY <1>1, <1>2 DEF Typed
  <1>4. \A p \in Req : HandlerOK(p)'
    BY <1>1 DEF PoolInv, Typed, HandlerOK, Wants
  <1>5. QueueOK'
    <2>1. Sleepers' = Sleepers \cup {r} /\ r \notin Sleepers
      BY <1>1 DEF Sleepers, Typed
    <2>2. Cardinality(Sleepers') = Cardinality(Sleepers) + 1
      BY <2>1, Counting DEF Sleepers
    <2>3. \A i \in 1..Len(queue) : phase[queue[i]] = "wait" /\ queue[i] # r
      BY <1>1 DEF PoolInv, QueueOK
    <2>4. \A i \in 1..Len(queue') : phase'[queue'[i]] = "wait"
      BY <1>1, <1>2, <2>3 DEF Typed
    <2>5. ASSUME NEW p \in Req, phase'[p] = "wait" PROVE \E i \in 1..Len(queue') : queue'[i] = p
      <3>1. CASE p = r
        BY <1>2, <3>1
      <3>2. CASE p # r
        <4>1. PICK i \in 1..Len(queue) : queue[i] = p
          BY <1>1, <2>5, <3>2 DEF PoolInv, QueueOK, Typed
        <4> QED
          BY <1>2, <4>1
      <3> QED
        BY <3>1, <3>2
    <2>6. \A i, j \in 1..Len(queue') : queue'[i] = queue'[j] => i = j
      <3> SUFFICES ASSUME NEW i \in 1..Len(queue'), NEW j \in 1..Len(queue'), queue'[i] = queue'[j]
                   PROVE  i = j
        OBVIOUS
      <3>1. CASE i \in 1..Len(queue) /\ j \in 1..Len(queue)
        BY <1>2, <3>1 DEF PoolInv, QueueOK
      <3>2. CASE i = Len(queue) + 1 \/ j = Len(queue) + 1
        BY <1>2, <2>3, <3>2
      <3> QED
        BY <1>2, <3>1, <3>2
    <2> QED
      BY <1>2, <2>2, <2>4, <2>5, <2>6 DEF QueueOK, PoolInv
  <1>6. NoLostWakeup'
    <2>1. Keepers' = Keepers /\ Askers' = Askers
      BY <1>1 DEF Keepers, Askers, Typed
    <2>2. InUse' = InUse
      BY <2>1, InUseCounts
    <2> QED
      BY <1>1, <2>2 DEF PoolInv, NoLostWakeup
  <1> QED
    BY <1>3, <1>4, <1>5, <1>6 DEF PoolInv

(* Somebody who takes a free connection finds nobody waiting for one. *)
LEMMA TakeStep ==
  ASSUME PoolInv, NEW r \in Req, Begin(r) \/ Query(r)
  PROVE  PoolInv'
  <1>1. /\ phase[r] = "run" /\ todo[r] # <<>> /\ InUse < Limit /\ queue = <<>> /\ Typed
        /\ UNCHANGED queue /\ HandlerOK(r) /\ ~Begun(<<>>)
    BY EndOK, LimitPositive DEF Begin, Query, PoolInv, NoLostWakeup
  <1>2. /\ RestOK(todo[r]) /\ RestOK(Tail(todo[r])) /\ Tail(todo[r]) \in Seq(Kind)
        /\ Wants(r) = "begin" => Begun(Tail(todo[r])) /\ ~Begun(todo[r])
    BY <1>1, TailOK DEF HandlerOK, Wants, RestOK
  <1>3. Typed' /\ HandlerOK(r)'
    BY <1>1, <1>2 DEF Begin, Query, Typed, HandlerOK, Wants
  <1>4. \A p \in Req \ {r} : HandlerOK(p)'
    BY <1>1 DEF Begin, Query, PoolInv, Typed, HandlerOK, Wants
  <1>5. QueueOK'
    <2>1. Sleepers' = Sleepers
      BY <1>1 DEF Begin, Query, Sleepers, Typed
    <2> QED
      BY <1>1, <2>1 DEF Begin, Query, PoolInv, QueueOK, Typed
  <1>6. NoLostWakeup'
    <2>1. \/ Keepers' = Keepers \cup {r} /\ r \notin Keepers /\ Askers' = Askers
          \/ Askers' = Askers \cup {r} /\ r \notin Askers /\ Keepers' = Keepers
      BY <1>1, <1>2 DEF Begin, Query, HandlerOK, Keepers, Askers, Typed
    <2>2. /\ Keepers \in SUBSET Req /\ Askers \in SUBSET Req
      BY DEF Keepers, Askers
    <2>3. InUse' = InUse + 1 /\ InUse \in Nat
      BY <2>1, <2>2, Counting, InUseCounts
    <2> QED
      BY <1>1, <2>3, LimitPositive DEF NoLostWakeup
  <1> QED
    BY <1>3, <1>4, <1>5, <1>6 DEF PoolInv

(* r has given its connection back: one less in use, or another's by now. *)
GivesBack(r, rest) ==
  /\ RestOK(rest)
  /\ \/ phase[r] = "query" /\ (Begun(rest) <=> tx[r])
     \/ phase[r] = "run" /\ tx[r] /\ ~Begun(rest)

LEMMA ReleaseToNobodyStep ==
  ASSUME PoolInv, NEW r \in Req, NEW rest, GivesBack(r, rest), queue = <<>>,
         ReleaseToNobody(r, rest)
  PROVE  PoolInv'
  <1>1. /\ Typed /\ rest \in Seq(Kind) /\ phase[r] \in {"query", "run"}
        /\ phase'[r] = "run" /\ todo'[r] = rest /\ (tx'[r] <=> Begun(rest)) /\ UNCHANGED queue
        /\ \A p \in Req \ {r} : phase'[p] = phase[p] /\ todo'[p] = todo[p] /\ tx'[p] = tx[p]
    BY DEF ReleaseToNobody, KeepsTx, GivesBack, PoolInv, Typed, RestOK
  <1>2. Typed'
    BY <1>1 DEF ReleaseToNobody, KeepsTx, Typed
  <1>3. \A p \in Req : HandlerOK(p)'
    BY <1>1 DEF PoolInv, HandlerOK, GivesBack, Wants
  <1>4. QueueOK'
    <2>1. Sleepers' = Sleepers
      BY <1>1 DEF Sleepers
    <2> QED
      BY <1>1, <2>1 DEF PoolInv, QueueOK
  <1>5. NoLostWakeup'
    <2>1. \/ Askers' = Askers \ {r} /\ r \in Askers /\ Keepers' = Keepers
          \/ Keepers' = Keepers \ {r} /\ r \in Keepers /\ Askers' = Askers
      BY <1>1 DEF GivesBack, Askers, Keepers
    <2>2. Keepers \in SUBSET Req /\ Askers \in SUBSET Req
      BY DEF Keepers, Askers
    <2>3. InUse' = InUse - 1 /\ InUse \in Nat
      BY <2>1, <2>2, Counting, InUseCounts
    <2> QED
      BY <1>1, <2>3, LimitPositive DEF PoolInv, NoLostWakeup
  <1> QED
    BY <1>2, <1>3, <1>4, <1>5 DEF PoolInv

LEMMA HandOverStep ==
  ASSUME PoolInv, NEW r \in Req, NEW rest, GivesBack(r, rest), queue # <<>>,
         Release(r, rest)
  PROVE  PoolInv'
  <1>1. /\ Typed /\ rest \in Seq(Kind) /\ phase[r] \in {"query", "run"}
    BY DEF GivesBack, PoolInv, RestOK
  <1>0. PICK h \in Req : h = Head(queue)
    BY <1>1, HeadTailProperties, EmptySeq DEF Typed
  <1>2. /\ Len(queue) \in Nat \ {0} /\ h = queue[1] /\ h \in Req /\ queue' = Tail(queue)
        /\ Tail(queue) \in Seq(Req) /\ Len(Tail(queue)) = Len(queue) - 1
        /\ \A i \in 1..Len(Tail(queue)) : Tail(queue)[i] = queue[i + 1]
    BY <1>0, <1>1, HeadTailProperties, EmptySeq DEF Typed, Release
  <1>3. phase[h] = "wait" /\ h # r
    BY <1>1, <1>2 DEF PoolInv, QueueOK
  <1>4. /\ RestOK(todo[h]) /\ todo[h] # <<>> /\ Wants(h) \in {"query", "begin"}
        /\ RestOK(Tail(todo[h])) /\ Tail(todo[h]) \in Seq(Kind)
        /\ Wants(h) = "begin" => Begun(Tail(todo[h])) /\ ~Begun(todo[h])
        /\ (tx[h] <=> Begun(todo[h]))
    BY <1>2, <1>3, TailOK DEF PoolInv, HandlerOK, Wants, RestOK, Kind
  <1>5. /\ phase'[r] = "run" /\ todo'[r] = rest /\ (tx'[r] <=> Begun(rest))
        /\ \/ /\ Wants(h) = "begin" /\ phase'[h] = "run" /\ todo'[h] = Tail(todo[h])
              /\ tx'[h] = TRUE
           \/ /\ Wants(h) = "query" /\ phase'[h] = "query" /\ todo'[h] = todo[h]
              /\ tx'[h] = tx[h]
        /\ \A p \in Req \ {r, h} : phase'[p] = phase[p] /\ todo'[p] = todo[p] /\ tx'[p] = tx[p]
    <2>1. KeepsTx(r) \in BOOLEAN /\ (KeepsTx(r) <=> Begun(rest))
      BY <1>1 DEF KeepsTx, Typed, GivesBack
    <2>2. CASE Wants(h) = "begin"
      <3>1. /\ phase' = [phase EXCEPT ![r] = "run", ![h] = "run"]
            /\ todo' = [todo EXCEPT ![r] = rest, ![h] = Tail(@)]
            /\ tx' = [tx EXCEPT ![r] = KeepsTx(r), ![h] = TRUE]
        BY <1>0, <2>2 DEF Release
      <3> QED
        BY <1>1, <1>3, <2>1, <2>2, <3>1 DEF Typed
    <2>3. CASE Wants(h) = "query"
      <3>1. /\ phase' = [phase EXCEPT ![r] = "run", ![h] = "query"]
            /\ todo' = [todo EXCEPT ![r] = rest]
            /\ tx' = [tx EXCEPT ![r] = KeepsTx(r)]
        BY <1>0, <2>3 DEF Release
      <3> QED
        BY <1>1, <1>3, <2>1, <2>3, <3>1 DEF Typed
    <2> QED
      BY <1>4, <2>2, <2>3
  <1>6. Typed'
    <2>1. KeepsTx(r) \in BOOLEAN
      BY <1>1 DEF KeepsTx, Typed
    <2>2. CASE Wants(h) = "begin"
      <3>1. /\ phase' = [phase EXCEPT ![r] = "run", ![h] = "run"]
            /\ todo' = [todo EXCEPT ![r] = rest, ![h] = Tail(@)]
            /\ tx' = [tx EXCEPT ![r] = KeepsTx(r), ![h] = TRUE]
        BY <1>0, <2>2 DEF Release
      <3> QED
        BY <1>1, <1>2, <1>3, <1>4, <2>1, <3>1 DEF Typed
    <2>3. CASE Wants(h) = "query"
      <3>1. /\ phase' = [phase EXCEPT ![r] = "run", ![h] = "query"]
            /\ todo' = [todo EXCEPT ![r] = rest]
            /\ tx' = [tx EXCEPT ![r] = KeepsTx(r)]
        BY <1>0, <2>3 DEF Release
      <3> QED
        BY <1>1, <1>2, <1>3, <1>4, <2>1, <3>1 DEF Typed
    <2> QED
      BY <1>4, <2>2, <2>3
  <1>7. \A p \in Req : HandlerOK(p)'
    <2>1. HandlerOK(r)'
      BY <1>5 DEF HandlerOK, GivesBack, Wants
    <2>2. HandlerOK(h)'
      BY <1>4, <1>5 DEF HandlerOK, Wants
    <2>3. \A p \in Req \ {r, h} : HandlerOK(p)'
      BY <1>5 DEF PoolInv, HandlerOK, Wants
    <2> QED
      BY <2>1, <2>2, <2>3
  <1>8. QueueOK'
    <2>1. \A i \in 1..Len(queue') : i + 1 \in 1..Len(queue) /\ i + 1 # 1 /\ queue'[i] = queue[i + 1]
      BY <1>2
    <2>2. ASSUME NEW i \in 1..Len(queue') PROVE phase'[queue'[i]] = "wait"
      <3>1. queue'[i] \in Req /\ phase[queue'[i]] = "wait" /\ queue'[i] # h
        BY <1>1, <1>2, <2>1 DEF PoolInv, QueueOK, Typed
      <3> QED
        BY <1>1, <1>5, <3>1
    <2>3. ASSUME NEW p \in Req, phase'[p] = "wait" PROVE \E i \in 1..Len(queue') : queue'[i] = p
      <3>1. p # r /\ p # h /\ phase[p] = "wait"
        BY <1>5, <2>3
      <3>2. PICK i \in 1..Len(queue) : queue[i] = p
        BY <3>1 DEF PoolInv, QueueOK
      <3>3. i # 1 /\ i - 1 \in 1..Len(queue') /\ queue'[i - 1] = queue[(i - 1) + 1]
        BY <1>2, <3>1, <3>2
      <3>4. (i - 1) + 1 = i
        OBVIOUS
      <3> QED
        BY <3>2, <3>3, <3>4
    <2>4. ASSUME NEW i \in 1..Len(queue'), NEW j \in 1..Len(queue'), queue'[i] = queue'[j]
          PROVE  i = j
      <3>1. i + 1 = j + 1
        BY <2>1, <2>4 DEF PoolInv, QueueOK
      <3> QED
        BY <3>1
    <2>5. Sleepers' = Sleepers \ {h} /\ h \in Sleepers
      BY <1>1, <1>2, <1>3, <1>5 DEF Sleepers
    <2>6. Len(queue') = Cardinality(Sleepers')
      <3>1. Sleepers \in SUBSET Req
        BY DEF Sleepers
      <3>2. Cardinality(Sleepers') = Cardinality(Sleepers) - 1
        BY <2>5, <3>1, Counting
      <3> QED
        BY <1>2, <3>2 DEF PoolInv, QueueOK
    <2> QED
      BY <2>2, <2>3, <2>4, <2>6 DEF QueueOK
  <1>9. NoLostWakeup'
    <2>1. Keepers \in SUBSET Req /\ Askers \in SUBSET Req /\ h \notin Askers
      BY <1>3 DEF Keepers, Askers
    <2>2. CASE phase[r] = "query" /\ Wants(h) = "begin"
      <3>1. /\ Askers' = Askers \ {r} /\ r \in Askers
            /\ Keepers' = Keepers \cup {h} /\ h \notin Keepers
        BY <1>1, <1>2, <1>3, <1>4, <1>5, <2>2 DEF GivesBack, Askers, Keepers
      <3>2. /\ Cardinality(Askers') = Cardinality(Askers) - 1 /\ Cardinality(Askers) \in Nat
            /\ Cardinality(Keepers') = Cardinality(Keepers) + 1 /\ Cardinality(Keepers) \in Nat
        BY <1>2, <2>1, <3>1, Counting
      <3> QED
        BY <3>2, InUseCounts DEF PoolInv, NoLostWakeup
    <2>3. CASE phase[r] = "query" /\ Wants(h) = "query"
      <3>1. /\ Askers' = (Askers \ {r}) \cup {h} /\ r \in Askers /\ Keepers' = Keepers
        BY <1>1, <1>2, <1>3, <1>5, <2>3 DEF GivesBack, Askers, Keepers
      <3>2. Askers \ {r} \in SUBSET Req /\ h \notin Askers \ {r}
        BY <2>1
      <3>3. Cardinality(Askers') = (Cardinality(Askers) - 1) + 1 /\ Cardinality(Askers) \in Nat
        <4>1. Cardinality(Askers \ {r}) = Cardinality(Askers) - 1 /\ Cardinality(Askers) \in Nat
          BY <2>1, <3>1, Counting
        <4>2. Cardinality((Askers \ {r}) \cup {h}) = Cardinality(Askers \ {r}) + 1
          BY <3>2, Counting
        <4> QED
          BY <3>1, <4>1, <4>2
      <3> QED
        BY <3>1, <3>3, InUseCounts DEF PoolInv, NoLostWakeup
    <2>4. CASE phase[r] = "run" /\ Wants(h) = "begin"
      <3>1. /\ Keepers' = (Keepers \ {r}) \cup {h} /\ r \in Keepers /\ h \notin Keepers
            /\ Askers' = Askers
        BY <1>1, <1>2, <1>3, <1>4, <1>5, <2>4 DEF GivesBack, Askers, Keepers
      <3>2. Keepers \ {r} \in SUBSET Req /\ h \notin Keepers \ {r}
        BY <2>1, <3>1
      <3>3. Cardinality(Keepers') = (Cardinality(Keepers) - 1) + 1 /\ Cardinality(Keepers) \in Nat
        <4>1. Cardinality(Keepers \ {r}) = Cardinality(Keepers) - 1 /\ Cardinality(Keepers) \in Nat
          BY <2>1, <3>1, Counting
        <4>2. Cardinality((Keepers \ {r}) \cup {h}) = Cardinality(Keepers \ {r}) + 1
          BY <3>2, Counting
        <4> QED
          BY <3>1, <4>1, <4>2
      <3> QED
        BY <3>1, <3>3, InUseCounts DEF PoolInv, NoLostWakeup
    <2>5. CASE phase[r] = "run" /\ Wants(h) = "query"
      <3>1. /\ Keepers' = Keepers \ {r} /\ r \in Keepers
            /\ Askers' = Askers \cup {h} /\ h \notin Askers
        BY <1>1, <1>2, <1>3, <1>5, <2>1, <2>5 DEF GivesBack, Askers, Keepers
      <3>2. /\ Cardinality(Askers') = Cardinality(Askers) + 1 /\ Cardinality(Askers) \in Nat
            /\ Cardinality(Keepers') = Cardinality(Keepers) - 1 /\ Cardinality(Keepers) \in Nat
        BY <1>2, <2>1, <3>1, Counting
      <3> QED
        BY <3>2, InUseCounts DEF PoolInv, NoLostWakeup
    <2> QED
      BY <1>1, <1>4, <2>2, <2>3, <2>4, <2>5
  <1> QED
    BY <1>6, <1>7, <1>8, <1>9 DEF PoolInv

LEMMA ReleaseStep ==
  ASSUME PoolInv, NEW r \in Req, EndQuery(r) \/ EndTransaction(r) \/ FailQuery(r)
  PROVE  PoolInv'
  <1> DEFINE Settles(rest) == GivesBack(r, rest) /\ Release(r, rest)
  <1>1. RestOK(todo[r]) /\ (tx[r] <=> Begun(todo[r])) /\ tx[r] \in BOOLEAN
    BY DEF PoolInv, Typed, HandlerOK
  <1>2. \E rest : Settles(rest)
    <2>1. CASE EndQuery(r)
      <3>1. todo[r] # <<>> /\ Head(todo[r]) = "query" /\ phase[r] = "query"
        BY <2>1 DEF EndQuery, PoolInv, HandlerOK, Wants
      <3>2. RestOK(Tail(todo[r])) /\ (Begun(Tail(todo[r])) <=> tx[r])
        BY <1>1, <3>1, TailOK
      <3>3. Settles(Tail(todo[r]))
        BY <2>1, <3>1, <3>2 DEF EndQuery, GivesBack
      <3> QED
        BY <3>3
    <2>2. CASE EndTransaction(r)
      <3>1. phase[r] = "run" /\ tx[r]
        BY <1>1, <2>2, EndOK DEF EndTransaction
      <3>2. Settles(<<>>)
        BY <2>2, <3>1, EndOK DEF EndTransaction, GivesBack
      <3> QED
        BY <3>2
    <2>3. CASE FailQuery(r)
      <3>1. CASE tx[r]
        <4>1. Settles(<<"end">>)
          BY <2>3, <3>1, EndOK DEF FailQuery, GivesBack
        <4> QED
          BY <4>1
      <3>2. CASE ~tx[r]
        <4>1. Settles(<<>>)
          BY <2>3, <3>2, EndOK DEF FailQuery, GivesBack
        <4> QED
          BY <4>1
      <3> QED
        BY <3>1, <3>2
    <2> QED
      BY <2>1, <2>2, <2>3
  <1>3. PICK rest : Settles(rest)
    BY <1>2
  <1>4. CASE queue = <<>>
    BY <1>3, <1>4, ReleaseToNobodyStep DEF Release
  <1>5. CASE queue # <<>>
    BY <1>3, <1>5, HandOverStep
  <1> QED
    BY <1>4, <1>5

LEMMA NextPoolInv == PoolInv /\ [PoolNext]_poolVars => PoolInv'
  <1> SUFFICES ASSUME PoolInv, [PoolNext]_poolVars PROVE PoolInv'
    OBVIOUS
  <1>1. CASE UNCHANGED poolVars
    BY <1>1 DEF poolVars, PoolInv, Typed, HandlerOK, QueueOK, NoLostWakeup, InUse, Sleepers, Wants
  <1>2. CASE PoolNext
    <2>1. PICK r \in Req : Start(r) \/ Advance(r) \/ FailQuery(r) \/ Throw(r)
      BY <1>2 DEF PoolNext
    <2>2. CASE Start(r) \/ Respond(r) \/ Throw(r)
      BY <2>2, QuietSteps
    <2>3. CASE Wait(r)
      BY <2>3, WaitStep
    <2>4. CASE Begin(r) \/ Query(r)
      BY <2>4, TakeStep
    <2>5. CASE EndQuery(r) \/ EndTransaction(r) \/ FailQuery(r)
      BY <2>5, ReleaseStep
    <2> QED
      BY <2>1, <2>2, <2>3, <2>4, <2>5 DEF Advance
  <1> QED
    BY <1>1, <1>2

LEMMA PoolAlways == PoolSpec => []PoolInv
  <1> QED
    BY InitPoolInv, NextPoolInv, PTL DEF PoolSpec
-----------------------------------------------------------------------------
(* What the invariant says *)

LEMMA PoolInvTypes == PoolInv => PoolTypeOK
  <1> SUFFICES ASSUME PoolInv PROVE PoolTypeOK
    OBVIOUS
  <1>1. Typed /\ QueueOK /\ \A i \in 1..Len(queue) : queue[i] \in Req
    BY DEF PoolInv, Typed
  <1>2. Waiting = Sleepers
    BY <1>1 DEF Waiting, Sleepers, QueueOK
  <1>3. Len(queue) = Cardinality(Waiting)
    BY <1>1, <1>2 DEF QueueOK
  <1>4. \A r \in Req : tx[r] <=> /\ todo[r] # <<>>
                               /\ \A i \in 1..Len(todo[r]) : todo[r][i] # "begin"
                               /\ todo[r][Len(todo[r])] = "end"
    BY DEF PoolInv, HandlerOK, Begun
  <1> QED
    BY <1>1, <1>2, <1>3, <1>4 DEF PoolTypeOK, Typed, Sleepers

(* A handler that keeps a connection and waits has a query left: it nests. *)
LEMMA PoolInvNesting == PoolInv => NotExhausted
  <1> SUFFICES ASSUME PoolInv, FewNest, queue # <<>>,
                      \A r \in Req \ Waiting : ~tx[r] /\ phase[r] # "query"
               PROVE  FALSE
    BY DEF NotExhausted
  <1> DEFINE N == {r \in Req : Nests(r)}
  <1>1. Waiting = Sleepers
    BY PoolInvTypes DEF PoolTypeOK, Sleepers
  <1>2. Askers = {}
    BY <1>1 DEF Askers, Sleepers
  <1>3. Cardinality(Keepers) = Limit
    <2>1. InUse = Limit
      BY DEF PoolInv, NoLostWakeup
    <2>2. Keepers \in SUBSET Req /\ Cardinality({}) = 0
      BY FS_EmptySet DEF Keepers
    <2>3. Cardinality(Keepers) \in Nat
      BY <2>2, Counting
    <2> QED
      BY <1>2, <2>1, <2>2, <2>3, InUseCounts
  <1>4. Keepers \subseteq N
    <2> SUFFICES ASSUME NEW r \in Req, tx[r] PROVE Nests(r)
      BY DEF Keepers
    <2>1. phase[r] = "wait"
      BY <1>1 DEF Sleepers
    <2>2. RestOK(todo[r]) /\ Begun(todo[r]) /\ todo[r] # <<>> /\ Head(todo[r]) # "end"
      BY <2>1 DEF PoolInv, HandlerOK, Wants
    <2>3. todo[r][1] = "query" /\ 1 \in 1..Len(todo[r])
      BY <2>2, TailOK, EmptySeq DEF RestOK
    <2> QED
      BY <2>3 DEF Nests
  <1>5. IsFiniteSet(N) /\ Cardinality(N) < Limit
    BY ReqFinite, FS_Subset DEF FewNest
  <1>6. Cardinality(Keepers) <= Cardinality(N)
    BY <1>4, <1>5, FS_Subset
  <1>7. Cardinality(N) \in Nat
    BY <1>5, FS_CardinalityType
  <1> HIDE DEF N
  <1> QED
    BY <1>3, <1>5, <1>6, <1>7, LimitPositive

(* Exactly the waiting requests are in the queue, once each, in whatever   *)
(* order they are served and fail; a handler keeps a connection if and     *)
(* only if its transaction has begun and has still to end                  *)
(* (withTransaction, config/db.ts:44-60).                                  *)
THEOREM QueueIsTheWaiting == PoolSpec => []PoolTypeOK
  <1> QED
    BY PoolAlways, PoolInvTypes, PTL

(* However many requests there are, no more than connectionLimit           *)
(* connections are out, and nobody waits while one of them is free         *)
(* (getPool, config/db.ts:13-24; release in withTransaction's finally).    *)
THEOREM NoWakeupIsLost == PoolSpec => []NoLostWakeup
  <1>1. PoolInv => NoLostWakeup
    BY DEF PoolInv
  <1> QED
    BY <1>1, PoolAlways, PTL

(* The pool is exhausted only by connectionLimit handlers that each ask    *)
(* for a second connection inside their transaction                        *)
(* (bookings.service.ts:164, 227, 242; invitations.service.ts:71, 168).    *)
THEOREM OnlyNestingExhausts == PoolSpec => []NotExhausted
  <1> QED
    BY PoolAlways, PoolInvNesting, PTL
-----------------------------------------------------------------------------
(* The process around the pool *)

(* Connections that come and go and the life cycle only restrict when the  *)
(* pool steps: every property of the pool is one of the server's           *)
(* (server.ts:20-46), also when handlers outlive their clients.            *)
THEOREM ServerImplementsPool == ServerSpec => PoolSpec
  <1>1. ServerInit => PoolInit
    BY DEF ServerInit
  <1>2. [ServerNext]_serverVars => [PoolNext]_poolVars
    BY DEF ServerNext, serverVars, ownVars, Accept, KeepAlive, Handle, HangUp, Signal,
            Closed, Exit, ForceExit, PoolNext, poolVars
  <1> QED
    BY <1>1, <1>2, PTL DEF ServerSpec, PoolSpec
=============================================================================
