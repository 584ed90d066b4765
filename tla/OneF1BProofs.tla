----------------------------- MODULE OneF1BProofs -----------------------------
(***************************************************************************)
(* The safety of OneF1B for every number of stages, of micro-batches and   *)
(* of communicators.                                                       *)
(*                                                                         *)
(* The inductive invariant says where the two loops stand in closed form:  *)
(* op_idx is the number of the round, one more for the stages the round    *)
(* has passed; what a stage was given, what it ran backward and what waits *)
(* at it are functions of the position in its schedule.                    *)
(***************************************************************************)
EXTENDS OneF1B, FiniteSetTheorems, WellFoundedInduction, TLAPS

\* The forwards and the backwards among the first k operations of a schedule.
FDone(warmup, total, k) ==
  IF k <= warmup THEN k
  ELSE IF k >= 2 * total - warmup THEN total
  ELSE warmup + (k - warmup + 1) \div 2

BDone(warmup, total, k) == k - FDone(warmup, total, k)

Failed == result \in {"err", "panic"}

\* The operations stage s has run, the one whose output could not be sent included.
Done(s) == IF Failed /\ s = stage_id THEN op_idx[s] + 1 ELSE op_idx[s]

Forwards(s) == FDone(Warmup(s), num_microbatches, Done(s))
Backwards(s) == BDone(Warmup(s), num_microbatches, Done(s))

Handed(s, mb) == [mb |-> mb, data |-> [mb |-> mb, hops |-> s, fp8 |-> 0]]

\* The loop counters: the round and the stage determine every position.
Position ==
  /\ num_stages = 0 => max_ops = 0
  /\ stage_id > 0 => max_ops > 0
  /\ \A s \in Stages :
       op_idx[s] = (2 * num_microbatches - max_ops) + (IF s < stage_id THEN 1 ELSE 0)

Counts ==
  \A s \in Stages : /\ Len(stage_inputs[s]) = Forwards(s)
                    /\ Len(backward_calls[s]) = Backwards(s)

\* What waits at a stage: the micro-batches the stage before is ahead by.
HandOver ==
  ~Failed =>
    \A s \in Stages :
      pending_fwd[s] = IF s = 0 THEN {}
                       ELSE {Handed(s, mb) : mb \in Forwards(s) .. Forwards(s - 1) - 1}

\* Nothing reaches a stage outside the world, and a stage that cannot pass its
\* output on has not computed as long as the call goes on.
Outside ==
  /\ NoWorkBeyondWorld
  /\ \A s \in Stages : s >= world_size => pending_fwd[s] = {}

\* The last operation of the last round is over before the call returns, and
\* a call fails only in the middle of an operation.
Ended ==
  /\ result = "ok" => max_ops = 0
  /\ Failed => max_ops > 0 /\ op_idx[stage_id] < 2 * num_microbatches

IInv ==
  /\ TypeOK
  /\ Position
  /\ Counts
  /\ HandOver
  /\ OwnActivations
  /\ BackwardOnOwnInput
  /\ NoPanic
  /\ Outside
  /\ Ended
------------------------------------------------------------------------------
(* The schedule as arithmetic.                                             *)

\* A forward in the schedule is that of the next micro-batch in order.
LEMMA ForwardStep ==
  ASSUME NEW w \in Nat, NEW total \in Nat, w <= total,
         NEW k \in Nat, k < 2 * total,
         ScheduledOp(w, total, k).kind = "forward"
  PROVE  /\ ScheduledOp(w, total, k).mb = FDone(w, total, k)
         /\ FDone(w, total, k + 1) = FDone(w, total, k) + 1
         /\ FDone(w, total, k) < total
BY SMT DEF ScheduledOp, FDone, ForwardOf, BackwardOf

\* A backward is that of the next micro-batch in order, and its forward is done.
LEMMA BackwardStep ==
  ASSUME NEW w \in Nat, NEW total \in Nat, w <= total,
         NEW k \in Nat, k < 2 * total,
         ScheduledOp(w, total, k).kind # "forward"
  PROVE  /\ ScheduledOp(w, total, k).mb = BDone(w, total, k)
         /\ FDone(w, total, k + 1) = FDone(w, total, k)
         /\ BDone(w, total, k) < FDone(w, total, k)
BY SMT DEF ScheduledOp, FDone, BDone, ForwardOf, BackwardOf

\* The counts are natural numbers, bounded by the number of micro-batches, and
\* all of them are done at the end.
LEMMA DoneBounds ==
  ASSUME NEW w \in Nat, NEW total \in Nat, w <= total,
         NEW k \in Nat, k <= 2 * total
  PROVE  /\ FDone(w, total, k) \in 0 .. total
         /\ BDone(w, total, k) \in 0 .. total
         /\ FDone(w, total, 0) = 0
         /\ FDone(w, total, 2 * total) = total
         /\ FDone(w, total, k) - BDone(w, total, k) <= w + 1
BY SMT DEF FDone, BDone

\* A stage is never behind the stage after it, and when both have the same
\* forward to run the stage before, one operation further, has run it.
LEMMA StageBeforeLeads ==
  ASSUME NEW w \in Nat, NEW total \in Nat, NEW v \in Nat, v <= total,
         w <= v, v <= w + 1, NEW k \in Nat, k < 2 * total
  PROVE  /\ FDone(w, total, k) <= FDone(v, total, k)
         /\ ScheduledOp(w, total, k).kind = "forward"
              => FDone(w, total, k) < FDone(v, total, k + 1)
BY SMT DEF FDone, ScheduledOp, ForwardOf, BackwardOf
------------------------------------------------------------------------------
(* The schedule as it is built.                                            *)

\* Induction over the natural numbers, stated of a set: the least number left out
\* is neither 0 nor comes after another.
LEMMA SetInduction ==
  ASSUME NEW S, 0 \in S, \A n \in Nat : n \in S => n + 1 \in S
  PROVE  Nat \subseteq S
<1> DEFINE Less == OpToRel(<, Nat)
           Left == Nat \ S
<1>1. \A m, n \in Nat : m < n => <<m, n>> \in Less
  BY Zenon DEF OpToRel
<1>2. IsWellFoundedOn(Less, Nat)
  BY NatLessThanWellFounded, Zenon
<1> HIDE DEF Less
<1>3. SUFFICES ASSUME Left # {} PROVE FALSE
  OBVIOUS
<1>4. PICK n \in Left : \A m \in Left : <<m, n>> \notin Less
  BY <1>2, <1>3, WFMin
<1>5. n - 1 \in Left /\ n - 1 < n
  OBVIOUS
<1> QED
  BY <1>1, <1>4, <1>5

LEMMA KindOfOp ==
  ASSUME NEW w \in Nat, NEW total \in Nat, w <= total, NEW k \in 0 .. 2 * total - 1
  PROVE  Pushes(w, total)[k + 1] = ScheduledOp(w, total, k).kind
<1> DEFINE Kinds == {"forward", "backward"}
           warmups == [i \in 1 .. w |-> "forward"]
           pairs == [i \in 1 .. 2 * (total - w) |-> IF i % 2 = 1 THEN "forward" ELSE "backward"]
           cooldowns == [i \in 1 .. w |-> "backward"]
<1>1. 2 * (total - w) \in Nat
  OBVIOUS
<1>2. /\ warmups \in Seq(Kinds) /\ Len(warmups) = w
      /\ pairs \in Seq(Kinds) /\ Len(pairs) = 2 * (total - w)
      /\ cooldowns \in Seq(Kinds) /\ Len(cooldowns) = w
  BY <1>1
<1>3. Pushes(w, total) = warmups \o pairs \o cooldowns
  BY DEF Pushes
<1>4. CASE k < w
  <2>1. warmups[k + 1] = "forward"
    BY <1>4
  <2> HIDE DEF warmups, pairs, cooldowns
  <2>2. Pushes(w, total)[k + 1] = warmups[k + 1]
    BY <1>1, <1>2, <1>3, <1>4
  <2> QED
    BY <1>4, <2>1, <2>2 DEF ScheduledOp, ForwardOf
<1>5. CASE k >= 2 * total - w /\ k >= w
  <2>1. cooldowns[k + 1 - w - 2 * (total - w)] = "backward"
    BY <1>5
  <2> HIDE DEF warmups, pairs, cooldowns
  <2>2. Pushes(w, total)[k + 1] = cooldowns[k + 1 - w - 2 * (total - w)]
    BY <1>1, <1>2, <1>3, <1>5
  <2> QED
    BY <1>5, <2>1, <2>2 DEF ScheduledOp, BackwardOf
<1>6. CASE k >= w /\ k < 2 * total - w
  <2>1. pairs[k + 1 - w] = IF (k + 1 - w) % 2 = 1 THEN "forward" ELSE "backward"
    BY <1>6
  <2> HIDE DEF warmups, pairs, cooldowns
  <2>2. Pushes(w, total)[k + 1] = pairs[k + 1 - w]
    BY <1>1, <1>2, <1>3, <1>6
  <2>3. (k + 1 - w) % 2 = 1 <=> (k - w) % 2 = 0
    BY <1>6
  <2> QED
    BY <1>6, <2>1, <2>2, <2>3 DEF ScheduledOp, ForwardOf, BackwardOf
<1> QED
  BY <1>4, <1>5, <1>6

\* The first k operations, in closed form, with the counters they leave behind.
FirstOps(w, total, k) ==
  [ops |-> [i \in 1 .. k |-> ScheduledOp(w, total, i - 1)],
   fwd_mb |-> FDone(w, total, k), bwd_mb |-> BDone(w, total, k)]

LEMMA PushesNext ==
  ASSUME NEW w \in Nat, NEW total \in Nat, w <= total, NEW k \in 0 .. 2 * total - 1
  PROVE  Push(FirstOps(w, total, k), Pushes(w, total)[k + 1]) = FirstOps(w, total, k + 1)
<1> DEFINE op == ScheduledOp(w, total, k)
           Ops(n) == [i \in 1 .. n |-> ScheduledOp(w, total, i - 1)]
<1>1. Append(Ops(k), op) = Ops(k + 1)
  <2>1. Append(Ops(k), op) = [i \in 1 .. k + 1 |-> IF i <= k THEN ScheduledOp(w, total, i - 1) ELSE op]
    OBVIOUS
  <2> QED
    BY <2>1
<1>2. CASE op.kind = "forward"
  <2>1. /\ op = ForwardOf(FDone(w, total, k))
        /\ FDone(w, total, k + 1) = FDone(w, total, k) + 1
        /\ BDone(w, total, k + 1) = BDone(w, total, k)
    <3>1. FDone(w, total, k) \in Int
      BY DoneBounds
    <3>2. op = ForwardOf(op.mb)
      BY <1>2 DEF ScheduledOp, ForwardOf, BackwardOf
    <3> QED
      BY <1>2, <3>1, <3>2, ForwardStep DEF BDone
  <2> HIDE DEF op, Ops
  <2> QED
    BY <1>1, <1>2, <2>1, KindOfOp DEF Push, FirstOps, op, Ops
<1>3. CASE op.kind # "forward"
  <2>1. /\ op = BackwardOf(BDone(w, total, k))
        /\ FDone(w, total, k + 1) = FDone(w, total, k)
        /\ BDone(w, total, k + 1) = BDone(w, total, k) + 1
    <3>1. FDone(w, total, k) \in Int
      BY DoneBounds
    <3>2. op = BackwardOf(op.mb)
      BY <1>3 DEF ScheduledOp, ForwardOf, BackwardOf
    <3> QED
      BY <1>3, <3>1, <3>2, BackwardStep DEF BDone
  <2> HIDE DEF op, Ops
  <2> QED
    BY <1>1, <1>3, <2>1, KindOfOp DEF Push, FirstOps, op, Ops
<1> QED
  BY <1>2, <1>3

\* build_schedule builds the schedule the model runs, for every number of
\* micro-batches and every warmup that fits: the three loops push operation k in
\* k-th place, whichever of them has come to it.
THEOREM ScheduleIsBuilt ==
  \A total \in Nat : \A w \in 0 .. total :
    build_schedule(w, total) = [k \in 1 .. 2 * total |-> ScheduledOp(w, total, k - 1)]
<1> SUFFICES ASSUME NEW total \in Nat, NEW w \in 0 .. total
             PROVE  build_schedule(w, total) = FirstOps(w, total, 2 * total).ops
  BY DEF FirstOps
<1> DEFINE start == [ops |-> <<>>, fwd_mb |-> 0, bwd_mb |-> 0]
           Rec(f) == [k \in 0 .. 2 * total |->
                        IF k = 0 THEN start ELSE Push(f[k - 1], Pushes(w, total)[k])]
           closed == [k \in 0 .. 2 * total |-> FirstOps(w, total, k)]
<1>1. FirstOps(w, total, 0) = start
  <2>1. FDone(w, total, 0) = 0 /\ BDone(w, total, 0) = 0
    BY DEF FDone, BDone
  <2> QED
    BY <2>1 DEF FirstOps
<1>2. \A k \in 1 .. 2 * total : Push(FirstOps(w, total, k - 1), Pushes(w, total)[k]) = FirstOps(w, total, k)
  <2> SUFFICES ASSUME NEW k \in 1 .. 2 * total
               PROVE  Push(FirstOps(w, total, k - 1), Pushes(w, total)[k]) = FirstOps(w, total, k)
    OBVIOUS
  <2>1. k - 1 \in 0 .. 2 * total - 1 /\ (k - 1) + 1 = k
    OBVIOUS
  <2>2. Push(FirstOps(w, total, k - 1), Pushes(w, total)[(k - 1) + 1]) = FirstOps(w, total, (k - 1) + 1)
    BY <2>1, PushesNext
  <2> QED
    BY <2>1, <2>2
<1> HIDE DEF start
<1>3. closed = Rec(closed)
  BY <1>1, <1>2
<1>4. ASSUME NEW f, f = Rec(f) PROVE f[2 * total] = FirstOps(w, total, 2 * total)
  <2> DEFINE S == {k \in Nat : k <= 2 * total => f[k] = FirstOps(w, total, k)}
  <2>1. 0 \in S
    BY <1>1, <1>4
  <2>2. ASSUME NEW n \in Nat, n \in S PROVE n + 1 \in S
    <3> SUFFICES ASSUME n + 1 <= 2 * total PROVE f[n + 1] = FirstOps(w, total, n + 1)
      OBVIOUS
    <3>1. f[n] = FirstOps(w, total, n)
      BY <2>2
    <3>2. f[n + 1] = Push(f[n], Pushes(w, total)[n + 1])
      BY <1>4
    <3> QED
      BY <1>2, <3>1, <3>2
  <2> HIDE DEF S
  <2>3. 2 * total \in S
    BY <2>1, <2>2, SetInduction
  <2> QED
    BY <2>3 DEF S
<1>5. build_schedule(w, total) = (CHOOSE f : f = Rec(f))[2 * total].ops
  BY DEF build_schedule, start
<1> HIDE DEF Rec, closed
<1>6. (CHOOSE f : f = Rec(f)) = Rec(CHOOSE f : f = Rec(f))
  BY <1>3
<1> QED
  BY <1>4, <1>5, <1>6
------------------------------------------------------------------------------
(* Facts about one state.                                                  *)

LEMMA WarmupFacts ==
  ASSUME TypeOK, NEW s \in Stages
  PROVE  /\ Warmup(s) \in Nat
         /\ Warmup(s) <= num_microbatches
         /\ num_microbatches \in Nat
         /\ s > 0 => /\ s - 1 \in Stages
                     /\ Warmup(s) <= Warmup(s - 1)
                     /\ Warmup(s - 1) <= Warmup(s) + 1
BY OneF1BAssumption, SMT DEF TypeOK, Stages, Warmup

\* Where the loop stands when it has an operation to run.
LEMMA AtOpFacts ==
  ASSUME TypeOK, Position, AtOp("forward") \/ AtOp("backward")
  PROVE  /\ stage_id \in Stages
         /\ num_stages \in Nat \ {0}
         /\ op_idx[stage_id] \in Nat
         /\ op_idx[stage_id] < 2 * num_microbatches
         /\ max_ops > 0
         /\ result = "running"
<1>1. num_stages \in Nat /\ num_stages # 0
  BY OneF1BAssumption DEF TypeOK, Position, AtOp
<1>2. stage_id \in Stages
  BY <1>1 DEF TypeOK, Stages
<1>3. QED
  BY <1>1, <1>2 DEF TypeOK, AtOp

LEMMA OpFacts ==
  ASSUME TypeOK, Position, AtOp("forward") \/ AtOp("backward")
  PROVE  Op.mb \in Nat /\ Op.kind \in {"forward", "backward"}
<1>1. /\ op_idx[stage_id] \in Nat
      /\ op_idx[stage_id] < 2 * num_microbatches
      /\ Warmup(stage_id) \in Nat
      /\ Warmup(stage_id) <= num_microbatches
      /\ num_microbatches \in Nat
  BY AtOpFacts, WarmupFacts
<1>2. QED
  BY <1>1, SMT DEF Op, ScheduledOp, ForwardOf, BackwardOf

LEMMA InputType ==
  ASSUME TypeOK, Position, AtOp("forward"), ~InputMissing
  PROVE  Input \in Data
<1>1. Op.kind = "forward" /\ Op.mb \in Nat
  BY OpFacts DEF AtOp
<1>2. CASE stage_id = 0
  BY <1>1, <1>2 DEF Input, Fresh, Data, Provenance
<1>3. CASE stage_id # 0
  <2>1. stage_id > 0 /\ stage_id \in Stages
    BY AtOpFacts, <1>3 DEF Stages
  <2>2. Waiting # {}
    BY <1>1, <2>1 DEF InputMissing
  <2>3. Waiting \subseteq Pending
    BY <2>1 DEF Waiting, TypeOK
  <2>4. (CHOOSE p \in Waiting : TRUE) \in Pending
    BY <2>2, <2>3
  <2>5. QED
    BY <2>4, <1>3 DEF Input, Pending
<1>4. QED
  BY <1>2, <1>3

LEMMA ThroughType ==
  ASSUME NEW data \in Data
  PROVE  Through(data) \in Data /\ Wire(data) \in Data
BY SMT DEF Through, Wire, Data, Provenance

LEMMA CallType ==
  ASSUME TypeOK, Position, AtOp("backward"), ~InputMissing
  PROVE  /\ BackwardCall \in Call
         /\ Op.mb + 1 \in 1 .. Len(stage_inputs[stage_id])
<1>1. Op.kind = "backward" /\ Op.mb \in Nat /\ stage_id \in Stages
  BY OpFacts, AtOpFacts DEF AtOp
<1>2. stage_inputs[stage_id] \in Seq(Data)
  BY <1>1 DEF TypeOK
<1>3. Op.mb + 1 \in 1 .. Len(stage_inputs[stage_id])
  BY <1>1, <1>2 DEF InputMissing
<1>4. stage_inputs[stage_id][Op.mb + 1] \in Data
  BY <1>2, <1>3
<1>5. Fresh(Op.mb) \in Data
  BY <1>1 DEF Fresh, Data, Provenance
<1>6. QED
  BY <1>3, <1>4, <1>5 DEF BackwardCall, Call
------------------------------------------------------------------------------
(* Type correctness.                                                       *)

LEMMA AdvanceType ==
  ASSUME TypeOK, Position, AtOp("forward") \/ AtOp("backward"), Advance, UNCHANGED params
  PROVE  /\ max_ops' \in 0 .. 2 * num_microbatches'
         /\ stage_id' \in Stages' \cup {0}
         /\ op_idx' \in [Stages' -> 0 .. 2 * num_microbatches']
<1>1. stage_id \in Stages /\ op_idx[stage_id] + 1 \in 0 .. 2 * num_microbatches /\ max_ops > 0
  BY AtOpFacts, WarmupFacts
<1>2. /\ num_stages' = num_stages /\ num_microbatches' = num_microbatches
      /\ num_stages \in Nat /\ num_microbatches \in Nat
  BY OneF1BAssumption DEF params, TypeOK
<1>3. op_idx' \in [Stages' -> 0 .. 2 * num_microbatches']
  BY <1>1, <1>2 DEF Advance, TypeOK, Stages
<1>4. stage_id' \in Stages' \cup {0}
  BY <1>1, <1>2 DEF Advance, Stages
<1>5. max_ops' \in 0 .. 2 * num_microbatches'
  BY <1>1, <1>2 DEF Advance, TypeOK
<1>6. QED
  BY <1>3, <1>4, <1>5

LEMMA SendType ==
  ASSUME TypeOK, Position, AtOp("forward") \/ AtOp("backward"), UNCHANGED params,
         NEW peer \in Nat, NEW data \in Data, SendAndAdvance(peer, data)
  PROVE  /\ max_ops' \in 0 .. 2 * num_microbatches'
         /\ stage_id' \in Stages' \cup {0}
         /\ op_idx' \in [Stages' -> 0 .. 2 * num_microbatches']
         /\ mailboxes' \in [Ranks(world_size') \X Ranks(world_size') -> Seq(Data)]
         /\ result' \in {"running", "ok", "err", "panic"}
<1>1. CASE IsPeer(world_size, peer)
  <2>1. Advance /\ UNCHANGED result /\ mailboxes' = Put(mailboxes, stage_id, peer, Wire(data))
    BY <1>1 DEF SendAndAdvance
  <2>2. Wire(data) \in Data
    BY ThroughType
  <2>3. <<Wire(data)>> \in Seq(Data)
    BY <2>2
  <2>4. mailboxes' \in [Ranks(world_size) \X Ranks(world_size) -> Seq(Data)]
    BY <2>1, <2>3 DEF Put, TypeOK
  <2>5. QED
    BY <2>1, <2>4, AdvanceType DEF TypeOK, params
<1>2. CASE ~IsPeer(world_size, peer)
  BY <1>2 DEF SendAndAdvance, TypeOK, params, Stages
<1>3. QED
  BY <1>1, <1>2

LEMMA TypeStep ==
  ASSUME TypeOK, Position, [Next]_vars
  PROVE  TypeOK'
<1>1. CASE ForwardLast
  <2>1. AtOp("forward") /\ ~InputMissing /\ Advance /\ UNCHANGED params
    BY <1>1 DEF ForwardLast, Panics
  <2>2. Input \in Data /\ stage_id \in Stages
    BY <2>1, InputType, AtOpFacts
  <2>3. stage_inputs' \in [Stages -> Seq(Data)]
    BY <1>1, <2>2 DEF ForwardLast, RunForward, TypeOK
  <2>4. pending_fwd' \in [Stages -> SUBSET Pending]
    BY <1>1, <2>2 DEF ForwardLast, TypeOK
  <2>5. QED
    BY <1>1, <2>1, <2>3, <2>4, AdvanceType DEF ForwardLast, TypeOK, params, Stages
<1>2. CASE ForwardAndSend
  <2>1. AtOp("forward") /\ ~InputMissing /\ UNCHANGED params /\ SendAndAdvance(stage_id + 1, Through(Input))
    BY <1>2 DEF ForwardAndSend, Panics
  <2>2. Input \in Data /\ Through(Input) \in Data /\ stage_id \in Stages /\ Op.mb \in Nat
    BY <2>1, InputType, ThroughType, AtOpFacts, OpFacts
  <2>3. stage_inputs' \in [Stages -> Seq(Data)]
    BY <1>2, <2>2 DEF ForwardAndSend, RunForward, TypeOK
  <2>4. [mb |-> Op.mb, data |-> Through(Input)] \in Pending
    BY <2>2 DEF Pending
  <2>5. pending_fwd' \in [Stages -> SUBSET Pending]
    BY <1>2, <2>4 DEF ForwardAndSend, TypeOK
  <2>6. stage_id + 1 \in Nat
    BY <2>2 DEF Stages
  <2>7. QED
    BY <1>2, <2>1, <2>2, <2>3, <2>5, <2>6, SendType DEF ForwardAndSend, TypeOK, params, Stages
<1>3. CASE Backward
  <2>1. AtOp("backward") /\ ~InputMissing /\ UNCHANGED params
    BY <1>3 DEF Backward, Panics
  <2>2. BackwardCall \in Call /\ stage_id \in Stages
    BY <2>1, CallType, AtOpFacts
  <2>3. backward_calls' \in [Stages -> Seq(Call)]
    BY <1>3, <2>2 DEF Backward, RunBackward, TypeOK
  <2>4. CASE stage_id > 0
    <3>1. stage_id - 1 \in Nat /\ Through(BackwardCall.grad) \in Data
      BY <2>2, <2>4, ThroughType DEF Call, Stages
    <3>2. SendAndAdvance(stage_id - 1, Through(BackwardCall.grad))
      BY <1>3, <2>4 DEF Backward
    <3>3. QED
      BY <1>3, <2>1, <2>3, <3>1, <3>2, SendType DEF Backward, TypeOK, params, Stages
  <2>5. CASE ~(stage_id > 0)
    BY <1>3, <2>1, <2>3, <2>5, AdvanceType DEF Backward, TypeOK, params, Stages
  <2>6. QED
    BY <2>4, <2>5
<1>4. CASE Panic
  <2>1. stage_inputs' \in [Stages -> Seq(Data)] /\ pending_fwd' \in [Stages -> SUBSET Pending]
    <3>1. CASE Op.kind = "forward" /\ ~InputMissing
      <4>1. AtOp("forward")
        BY <1>4, <3>1 DEF Panic, AtOp
      <4>2. Input \in Data /\ stage_id \in Stages
        BY <3>1, <4>1, InputType, AtOpFacts
      <4>3. /\ stage_inputs' = [stage_inputs EXCEPT ![stage_id] = Append(@, Input)]
            /\ pending_fwd' = [pending_fwd EXCEPT ![stage_id] = @ \ Waiting]
        BY <1>4, <3>1 DEF Panic, RunForward
      <4> QED
        BY <4>2, <4>3 DEF TypeOK
    <3> QED
      BY <1>4, <3>1 DEF Panic, TypeOK
  <2>2. backward_calls' \in [Stages -> Seq(Call)]
    <3>1. CASE Op.kind = "backward" /\ ~InputMissing
      <4>1. AtOp("backward")
        BY <1>4, <3>1 DEF Panic, AtOp
      <4>2. BackwardCall \in Call /\ stage_id \in Stages
        BY <3>1, <4>1, CallType, AtOpFacts
      <4>3. backward_calls' = [backward_calls EXCEPT ![stage_id] = Append(@, BackwardCall)]
        BY <1>4, <3>1 DEF Panic, RunBackward
      <4> QED
        BY <4>2, <4>3 DEF TypeOK
    <3> QED
      BY <1>4, <3>1 DEF Panic, TypeOK
  <2> QED
    BY <1>4, <2>1, <2>2 DEF Panic, TypeOK, params, Stages
<1>5. CASE Return
  BY <1>5 DEF Return, TypeOK, params, Stages
<1>6. CASE UNCHANGED vars
  BY <1>6 DEF vars, TypeOK, params, Stages
<1>7. QED
  BY <1>1, <1>2, <1>3, <1>4, <1>5, <1>6 DEF Next
------------------------------------------------------------------------------
(* The operation the loop has come to, in terms of the counts.             *)

LEMMA ParamsFacts ==
  ASSUME UNCHANGED params
  PROVE  /\ Stages' = Stages
         /\ num_microbatches' = num_microbatches
         /\ num_stages' = num_stages
         /\ world_size' = world_size
         /\ \A s \in Stages : Warmup(s)' = Warmup(s)
BY DEF params, Stages, Warmup

\* While the loop runs, the counts are those of op_idx and are in range.
LEMMA CountFacts ==
  ASSUME TypeOK, NEW s \in Stages,
         Done(s) \in 0 .. 2 * num_microbatches
  PROVE  /\ Forwards(s) \in 0 .. num_microbatches
         /\ Backwards(s) \in 0 .. num_microbatches
         /\ Forwards(s) - Backwards(s) <= Warmup(s) + 1
<1>1. Warmup(s) \in Nat /\ Warmup(s) <= num_microbatches /\ num_microbatches \in Nat
  BY WarmupFacts
<1>2. Done(s) \in Nat /\ Done(s) <= 2 * num_microbatches
  BY <1>1
<1>3. QED
  BY <1>1, <1>2, DoneBounds DEF Forwards, Backwards

LEMMA RunningDone ==
  ASSUME TypeOK, ~Failed, NEW s \in Stages
  PROVE  /\ Done(s) = op_idx[s]
         /\ Done(s) \in 0 .. 2 * num_microbatches
BY DEF TypeOK, Done

LEMMA RunningHasNotFailed ==
  ASSUME result = "running"
  PROVE  ~Failed
BY DEF Failed

\* A forward finds exactly the activation of its micro-batch.
LEMMA ForwardFacts ==
  ASSUME IInv, AtOp("forward")
  PROVE  /\ Op.mb = Forwards(stage_id)
         /\ Forwards(stage_id) \in Nat
         /\ Waiting = IF stage_id = 0 THEN {} ELSE {Handed(stage_id, Forwards(stage_id))}
         /\ stage_id > 0 => Forwards(stage_id) < Forwards(stage_id - 1)
<1> DEFINE s == stage_id
           k == op_idx[s]
           m == num_microbatches
<1>1. /\ s \in Stages /\ k \in Nat /\ k < 2 * m /\ result = "running" /\ TypeOK
      /\ Op.kind = "forward"
  BY AtOpFacts DEF IInv, AtOp
<1>2. Warmup(s) \in Nat /\ Warmup(s) <= m /\ m \in Nat
  BY <1>1, WarmupFacts
<1>3. Done(s) = k
  BY <1>1, RunningDone, RunningHasNotFailed
<1>4. Op.mb = Forwards(s) /\ Forwards(s) \in Nat
  <2>1. ScheduledOp(Warmup(s), m, k).kind = "forward"
    BY <1>1 DEF Op
  <2>2. ScheduledOp(Warmup(s), m, k).mb = FDone(Warmup(s), m, k)
    BY <1>1, <1>2, <2>1, ForwardStep
  <2>3. Forwards(s) = FDone(Warmup(s), m, k)
    BY <1>3 DEF Forwards
  <2>4. QED
    BY <2>2, <2>3, <1>1, <1>2, <1>3, CountFacts DEF Op
<1>5. CASE s = 0
  <2>1. pending_fwd[s] = {}
    BY <1>1, <1>5, RunningHasNotFailed DEF IInv, HandOver
  <2>2. QED
    BY <1>4, <1>5, <2>1 DEF Waiting
<1>6. CASE s > 0
  <2>1. s - 1 \in Stages /\ Warmup(s - 1) \in Nat /\ Warmup(s - 1) <= m
        /\ Warmup(s) <= Warmup(s - 1) /\ Warmup(s - 1) <= Warmup(s) + 1
    BY <1>1, <1>6, WarmupFacts
  <2>2. Done(s - 1) = k + 1
    <3>1. s \in Nat /\ max_ops \in Nat /\ m \in Nat
      <4>1. s \in Nat
        BY AtOpFacts DEF IInv, Stages
      <4>2. max_ops \in Nat
        BY <1>1, <1>2 DEF TypeOK
      <4>3. QED
        BY <4>1, <4>2, <1>2
    <3>2. /\ op_idx[s] = (2 * m - max_ops) + (IF s < stage_id THEN 1 ELSE 0)
          /\ op_idx[s - 1] = (2 * m - max_ops) + (IF s - 1 < stage_id THEN 1 ELSE 0)
      BY <1>1, <2>1 DEF IInv, Position
    <3>3. op_idx[s - 1] = op_idx[s] + 1
      BY <3>1, <3>2
    <3>4. QED
      BY <3>3, <1>1, <2>1, RunningDone, RunningHasNotFailed
  <2>3. Forwards(s) < Forwards(s - 1)
    <3>1. ScheduledOp(Warmup(s), m, k).kind = "forward"
      BY <1>1 DEF Op
    <3>2. FDone(Warmup(s), m, k) < FDone(Warmup(s - 1), m, k + 1)
      BY <3>1, <2>1, <1>1, <1>2, StageBeforeLeads
    <3>3. QED
      BY <3>2, <2>2, <1>3 DEF Forwards
  <2>4. Forwards(s - 1) \in Nat
    BY <1>1, <2>1, RunningDone, RunningHasNotFailed, CountFacts
  <2>5. pending_fwd[s] = {Handed(s, mb) : mb \in Forwards(s) .. Forwards(s - 1) - 1}
    <3>1. s # 0
      BY <1>6
    <3>2. QED
      BY <1>1, <3>1, RunningHasNotFailed DEF IInv, HandOver
  <2>6. Waiting = {Handed(s, Forwards(s))}
    BY <2>3, <2>4, <2>5, <1>4 DEF Waiting, Handed
  <2>7. QED
    BY <2>3, <2>6, <1>4, <1>6
<1>7. QED
  BY <1>1, <1>5, <1>6 DEF Stages

\* The micro-batch of a forward exists.
LEMMA ForwardOpInRange ==
  ASSUME IInv, AtOp("forward")
  PROVE  Forwards(stage_id) < num_microbatches
<1>1. /\ stage_id \in Stages /\ op_idx[stage_id] \in Nat /\ result = "running" /\ TypeOK
      /\ op_idx[stage_id] < 2 * num_microbatches /\ Op.kind = "forward"
  BY AtOpFacts DEF IInv, AtOp
<1>2. /\ Warmup(stage_id) \in Nat /\ Warmup(stage_id) <= num_microbatches
      /\ num_microbatches \in Nat /\ Done(stage_id) = op_idx[stage_id]
  BY <1>1, WarmupFacts, RunningDone, RunningHasNotFailed
<1>3. ScheduledOp(Warmup(stage_id), num_microbatches, op_idx[stage_id]).kind = "forward"
  BY <1>1 DEF Op
<1>4. QED
  BY <1>1, <1>2, <1>3, ForwardStep DEF Forwards

LEMMA InputValue ==
  ASSUME IInv, AtOp("forward")
  PROVE  Input = [mb |-> Forwards(stage_id), hops |-> stage_id, fp8 |-> 0]
<1>1. CASE stage_id = 0
  BY <1>1, ForwardFacts DEF Input, Fresh
<1>2. CASE stage_id # 0
  <2>1. Waiting = {Handed(stage_id, Forwards(stage_id))}
    BY <1>2, ForwardFacts
  <2>2. (CHOOSE p \in Waiting : TRUE) = Handed(stage_id, Forwards(stage_id))
    BY <2>1
  <2>3. Input = Handed(stage_id, Forwards(stage_id)).data
    BY <2>2, <1>2 DEF Input
  <2>4. QED
    BY <2>3 DEF Handed
<1>3. QED
  BY <1>1, <1>2

\* A backward has its forward behind it.
LEMMA BackwardFacts ==
  ASSUME IInv, AtOp("backward")
  PROVE  /\ Op.mb = Backwards(stage_id)
         /\ Backwards(stage_id) \in Nat
         /\ Backwards(stage_id) < Forwards(stage_id)
<1> DEFINE s == stage_id
           k == op_idx[s]
           m == num_microbatches
<1>1. /\ s \in Stages /\ k \in Nat /\ k < 2 * m /\ result = "running" /\ TypeOK
      /\ Op.kind # "forward"
  BY AtOpFacts DEF IInv, AtOp
<1>2. Warmup(s) \in Nat /\ Warmup(s) <= m /\ m \in Nat
  BY <1>1, WarmupFacts
<1>3. Done(s) = k
  BY <1>1, RunningDone, RunningHasNotFailed
<1>4. ScheduledOp(Warmup(s), m, k).kind # "forward"
  BY <1>1 DEF Op
<1>5. /\ ScheduledOp(Warmup(s), m, k).mb = BDone(Warmup(s), m, k)
      /\ BDone(Warmup(s), m, k) < FDone(Warmup(s), m, k)
  BY <1>1, <1>2, <1>4, BackwardStep
<1>6. Backwards(s) \in Nat
  BY <1>1, RunningDone, RunningHasNotFailed, CountFacts
<1>7. QED
  BY <1>3, <1>5, <1>6 DEF Op, Forwards, Backwards

\* The body always finds its input: it panics only when there is no communicator
\* at all, at the first output of stage 0.  A forward of a pipeline of several
\* stages that does not panic happens inside the world.
LEMMA PanicFacts ==
  ASSUME IInv, AtOp("forward") \/ AtOp("backward")
  PROVE  /\ ~InputMissing
         /\ Panics => world_size = 0 /\ AtOp("forward") /\ stage_id < num_stages - 1
         /\ ~Panics /\ AtOp("forward") /\ num_stages > 1 => stage_id < world_size
<1>1. /\ stage_id \in Stages /\ num_stages \in Nat /\ result = "running"
      /\ world_size \in Nat /\ TypeOK
  BY AtOpFacts, OneF1BAssumption DEF IInv, TypeOK
<1>2. ASSUME AtOp("forward"), stage_id > 0
      PROVE  Waiting # {} /\ stage_id < world_size
  <2>1. Waiting # {}
    BY <1>2, ForwardFacts
  <2>2. pending_fwd[stage_id] # {}
    BY <2>1 DEF Waiting
  <2>3. QED
    BY <1>1, <1>2, <2>1, <2>2 DEF IInv, Outside, Stages
<1>3. ASSUME AtOp("backward"), stage_id > 0
      PROVE  stage_id < world_size
  <2>1. Forwards(stage_id) > 0
    BY <1>3, BackwardFacts, <1>1, RunningDone, RunningHasNotFailed, CountFacts
  <2>2. stage_inputs[stage_id] # <<>>
    BY <1>1, <2>1 DEF IInv, Counts
  <2>3. QED
    BY <1>1, <1>3, <2>2 DEF IInv, Outside, NoWorkBeyondWorld, Stages
<1>4. ~InputMissing
  <2>1. CASE AtOp("forward")
    BY <2>1, <1>2 DEF InputMissing, AtOp
  <2>2. CASE AtOp("backward")
    <3>1. Op.mb = Backwards(stage_id) /\ Op.mb \in Nat /\ Op.mb < Forwards(stage_id)
      BY <2>2, BackwardFacts
    <3>2. Len(stage_inputs[stage_id]) = Forwards(stage_id) /\ Forwards(stage_id) \in Int
      BY <1>1, RunningDone, RunningHasNotFailed, CountFacts DEF IInv, Counts
    <3> QED
      BY <2>2, <3>1, <3>2 DEF InputMissing, AtOp
  <2> QED
    BY <2>1, <2>2
<1>5. ASSUME Panics PROVE world_size = 0 /\ AtOp("forward") /\ stage_id < num_stages - 1
  <2>1. NoComm
    BY <1>4, <1>5 DEF Panics
  <2>2. CASE AtOp("forward")
    BY <2>1, <2>2, <1>1, <1>2 DEF NoComm, AtOp, IsPeer, Stages
  <2>3. CASE AtOp("backward")
    BY <2>1, <2>3, <1>1, <1>3 DEF NoComm, AtOp, IsPeer, Stages
  <2> QED
    BY <2>2, <2>3
<1>6. ASSUME ~Panics, AtOp("forward"), num_stages > 1 PROVE stage_id < world_size
  BY <1>1, <1>2, <1>6 DEF Panics, NoComm, AtOp, IsPeer, Stages
<1>7. QED
  BY <1>4, <1>5, <1>6
------------------------------------------------------------------------------
(* The parts of the invariant, one step of the loop body at a time.        *)

\* How the body ends once its operation has run: the loop goes on, or the send
\* has failed or, without communicators, panicked.
Ends ==
  \/ Advance /\ UNCHANGED result
  \/ /\ result' \in {"err", "panic"}
     /\ result' = "panic" => world_size = 0
     /\ UNCHANGED <<op_idx, stage_id, max_ops>>

LEMMA SendEnds ==
  ASSUME NEW peer, NEW data, SendAndAdvance(peer, data)
  PROVE  Ends
BY DEF SendAndAdvance, Ends

LEMMA AdvancePosition ==
  ASSUME IInv, AtOp("forward") \/ AtOp("backward"), UNCHANGED params, Advance
  PROVE  Position'
<1>1. /\ stage_id \in Stages /\ num_stages \in Nat \ {0} /\ max_ops > 0
      /\ max_ops \in Nat /\ num_microbatches \in Nat
  <2>1. /\ stage_id \in Stages /\ num_stages \in Nat \ {0} /\ max_ops > 0
        /\ num_microbatches \in Nat /\ TypeOK
    BY AtOpFacts, WarmupFacts DEF IInv
  <2>2. QED
    BY <2>1 DEF TypeOK
<1>2. Stages' = Stages /\ num_microbatches' = num_microbatches /\ num_stages' = num_stages
  BY ParamsFacts
<1>3. \A s \in Stages : op_idx[s] = (2 * num_microbatches - max_ops) + (IF s < stage_id THEN 1 ELSE 0)
  BY DEF IInv, Position
<1>4. \A s \in Stages : op_idx'[s] = IF s = stage_id THEN op_idx[s] + 1 ELSE op_idx[s]
  BY DEF Advance, IInv, TypeOK
<1>5. CASE stage_id < num_stages - 1
  <2>1. stage_id' = stage_id + 1 /\ max_ops' = max_ops
    BY <1>5 DEF Advance
  <2>2. \A s \in Stages : op_idx'[s] = (2 * num_microbatches - max_ops') + (IF s < stage_id' THEN 1 ELSE 0)
    BY <2>1, <1>1, <1>3, <1>4 DEF Stages
  <2>3. QED
    BY <2>1, <2>2, <1>1, <1>2 DEF Position, Stages
<1>6. CASE ~(stage_id < num_stages - 1)
  <2>1. stage_id' = 0 /\ max_ops' = max_ops - 1
    BY <1>6 DEF Advance
  <2>2. \A s \in Stages : op_idx'[s] = (2 * num_microbatches - max_ops') + (IF s < stage_id' THEN 1 ELSE 0)
    BY <2>1, <1>1, <1>3, <1>4, <1>6 DEF Stages
  <2>3. QED
    BY <2>1, <2>2, <1>1, <1>2 DEF Position
<1>7. QED
  BY <1>5, <1>6

\* Either way the stage has run one operation more, and no other stage has.
LEMMA EndsFacts ==
  ASSUME IInv, AtOp("forward") \/ AtOp("backward"), UNCHANGED params, Ends
  PROVE  /\ Position' /\ Ended' /\ NoPanic'
         /\ \A s \in Stages : Done(s)' = IF s = stage_id THEN Done(s) + 1 ELSE Done(s)
<1>1. /\ stage_id \in Stages /\ result = "running" /\ max_ops > 0 /\ TypeOK
      /\ op_idx[stage_id] < 2 * num_microbatches
  BY AtOpFacts DEF IInv
<1>2. \A s \in Stages : Done(s) = op_idx[s]
  BY <1>1, RunningDone, RunningHasNotFailed
<1>3. /\ Stages' = Stages /\ num_microbatches' = num_microbatches /\ num_stages' = num_stages
  BY ParamsFacts
<1>4. CASE Advance /\ UNCHANGED result
  <2>1. Position'
    BY <1>4, AdvancePosition
  <2>2. \A s \in Stages : op_idx'[s] = IF s = stage_id THEN op_idx[s] + 1 ELSE op_idx[s]
    BY <1>4 DEF Advance, IInv, TypeOK
  <2>3. result' = "running"
    BY <1>1, <1>4
  <2>4. QED
    BY <1>2, <2>1, <2>2, <2>3 DEF Done, Failed, Ended, NoPanic
<1>5. CASE /\ result' \in {"err", "panic"}
           /\ result' = "panic" => world_size = 0
           /\ UNCHANGED <<op_idx, stage_id, max_ops>>
  <2>1. Position'
    BY <1>3, <1>5 DEF IInv, Position
  <2>2. Failed'
    BY <1>5 DEF Failed
  <2>3. QED
    BY <1>1, <1>2, <1>3, <1>5, <2>1, <2>2 DEF Done, Ended, NoPanic, Failed, params
<1>6. QED
  BY <1>4, <1>5 DEF Ends

\* After a forward: one more forward done at its stage, and what is kept there
\* is right.
LEMMA ForwardCounts ==
  ASSUME IInv, TypeOK', AtOp("forward"), UNCHANGED params, Ends, UNCHANGED backward_calls,
         stage_inputs' = [stage_inputs EXCEPT ![stage_id] = Append(@, Input)]
  PROVE  /\ \A s \in Stages :
              Forwards(s)' = IF s = stage_id THEN Forwards(s) + 1 ELSE Forwards(s)
         /\ Counts' /\ OwnActivations' /\ BackwardOnOwnInput'
<1> DEFINE m == num_microbatches
<1>1. /\ stage_id \in Stages /\ result = "running" /\ TypeOK
      /\ op_idx[stage_id] \in Nat /\ op_idx[stage_id] < 2 * m /\ Op.kind = "forward"
  BY AtOpFacts DEF IInv, AtOp
<1>2. Stages' = Stages /\ m' = m /\ \A s \in Stages : Warmup(s)' = Warmup(s)
  BY ParamsFacts
<1>3. \A s \in Stages : Done(s)' = IF s = stage_id THEN Done(s) + 1 ELSE Done(s)
  BY EndsFacts
<1>4. Done(stage_id) = op_idx[stage_id]
  BY <1>1, RunningDone, RunningHasNotFailed
<1>5. FDone(Warmup(stage_id), m, op_idx[stage_id] + 1) = FDone(Warmup(stage_id), m, op_idx[stage_id]) + 1
  <2>1. ScheduledOp(Warmup(stage_id), m, op_idx[stage_id]).kind = "forward"
    BY <1>1 DEF Op
  <2>2. Warmup(stage_id) \in Nat /\ Warmup(stage_id) <= m /\ m \in Nat
    BY <1>1, WarmupFacts
  <2>3. QED
    BY <1>1, <2>1, <2>2, ForwardStep
<1>6. \A s \in Stages : Forwards(s)' = IF s = stage_id THEN Forwards(s) + 1 ELSE Forwards(s)
  BY <1>2, <1>3, <1>4, <1>5 DEF Forwards
<1>7. \A s \in Stages : /\ Done(s) \in Nat
                        /\ Forwards(s) \in Nat
                        /\ stage_inputs[s] \in Seq(Data)
                        /\ Len(stage_inputs[s]) = Forwards(s)
                        /\ Len(backward_calls[s]) = Backwards(s)
  <2>1. ASSUME NEW s \in Stages PROVE Done(s) \in 0 .. 2 * m /\ Forwards(s) \in 0 .. m
    BY <1>1, RunningDone, RunningHasNotFailed, CountFacts
  <2>2. QED
    BY <2>1, <1>1, WarmupFacts DEF IInv, Counts, TypeOK
<1>8. \A s \in Stages : Backwards(s)' = Backwards(s)
  <2>1. \A s \in Stages : Backwards(s) = Done(s) - Forwards(s)
    BY DEF Backwards, BDone, Forwards
  <2>2. \A s \in Stages : Backwards(s)' = Done(s)' - Forwards(s)'
    BY <1>2 DEF Backwards, BDone, Forwards
  <2>3. QED
    BY <2>1, <2>2, <1>3, <1>6, <1>7
<1>9. Input = [mb |-> Forwards(stage_id), hops |-> stage_id, fp8 |-> 0]
  BY InputValue
<1>10. /\ stage_inputs'[stage_id] = Append(stage_inputs[stage_id], Input)
       /\ \A s \in Stages \ {stage_id} : stage_inputs'[s] = stage_inputs[s]
       /\ Input \in Data
  <2>1. stage_id \in Nat
    BY <1>1, AtOpFacts DEF Stages
  <2>2. Input \in Data
    BY <1>1, <1>7, <1>9, <2>1 DEF Data, Provenance
  <2>3. QED
    BY <1>1, <2>2 DEF TypeOK
<1>11. Counts'
  BY <1>1, <1>2, <1>6, <1>7, <1>8, <1>10 DEF Counts
<1>12. OwnActivations'
  <2>1. ASSUME NEW s \in Stages, NEW i \in 1 .. Len(stage_inputs'[s])
        PROVE  stage_inputs'[s][i] = [mb |-> i - 1, hops |-> s, fp8 |-> 0]
    <3>1. CASE s # stage_id
      BY <1>10, <2>1, <3>1 DEF IInv, OwnActivations
    <3>2. CASE s = stage_id /\ i <= Len(stage_inputs[s])
      <4>1. i \in 1 .. Len(stage_inputs[s]) /\ stage_inputs'[s][i] = stage_inputs[s][i]
        BY <1>7, <1>10, <2>1, <3>2
      <4>2. QED
        BY <4>1, <2>1 DEF IInv, OwnActivations
    <3>3. CASE s = stage_id /\ ~(i <= Len(stage_inputs[s]))
      <4>1. i = Len(stage_inputs[s]) + 1 /\ stage_inputs'[s][i] = Input
        BY <1>7, <1>10, <2>1, <3>3
      <4>2. i - 1 = Forwards(stage_id)
        BY <4>1, <1>7, <3>3
      <4>3. QED
        BY <4>1, <4>2, <1>9, <3>3
    <3>4. QED
      BY <3>1, <3>2, <3>3
  <2>2. QED
    BY <2>1, <1>2 DEF OwnActivations
<1>13. BackwardOnOwnInput'
  <2>1. ASSUME NEW s \in Stages, NEW i \in 1 .. Len(backward_calls[s])
        PROVE  /\ i <= Len(stage_inputs'[s])
               /\ backward_calls[s][i].input = stage_inputs'[s][i]
    <3>1. i <= Len(stage_inputs[s]) /\ backward_calls[s][i].input = stage_inputs[s][i]
      BY <2>1 DEF IInv, BackwardOnOwnInput
    <3>2. i \in 1 .. Len(stage_inputs[s])
      BY <3>1, <2>1, <1>7
    <3>3. CASE s = stage_id
      BY <3>1, <3>2, <3>3, <1>7, <1>10
    <3>4. CASE s # stage_id
      BY <3>1, <3>2, <3>4, <1>10
    <3>5. QED
      BY <3>3, <3>4
  <2>2. QED
    BY <2>1, <1>2 DEF BackwardOnOwnInput
<1>14. QED
  BY <1>6, <1>11, <1>12, <1>13

\* After a backward: one more backward done at its stage, on the right input.
LEMMA BackwardCounts ==
  ASSUME IInv, AtOp("backward"), ~InputMissing, UNCHANGED params, Ends, UNCHANGED stage_inputs,
         backward_calls' = [backward_calls EXCEPT ![stage_id] = Append(@, BackwardCall)]
  PROVE  /\ \A s \in Stages : Forwards(s)' = Forwards(s)
         /\ Counts' /\ OwnActivations' /\ BackwardOnOwnInput'
<1> DEFINE m == num_microbatches
<1>1. /\ stage_id \in Stages /\ result = "running" /\ TypeOK
      /\ op_idx[stage_id] \in Nat /\ op_idx[stage_id] < 2 * m /\ Op.kind # "forward"
  BY AtOpFacts DEF IInv, AtOp
<1>2. Stages' = Stages /\ m' = m /\ \A s \in Stages : Warmup(s)' = Warmup(s)
  BY ParamsFacts
<1>3. \A s \in Stages : Done(s)' = IF s = stage_id THEN Done(s) + 1 ELSE Done(s)
  BY EndsFacts
<1>4. Done(stage_id) = op_idx[stage_id]
  BY <1>1, RunningDone, RunningHasNotFailed
<1>5. FDone(Warmup(stage_id), m, op_idx[stage_id] + 1) = FDone(Warmup(stage_id), m, op_idx[stage_id])
  <2>1. ScheduledOp(Warmup(stage_id), m, op_idx[stage_id]).kind # "forward"
    BY <1>1 DEF Op
  <2>2. Warmup(stage_id) \in Nat /\ Warmup(stage_id) <= m /\ m \in Nat
    BY <1>1, WarmupFacts
  <2>3. QED
    BY <1>1, <2>1, <2>2, BackwardStep
<1>6. \A s \in Stages : Forwards(s)' = Forwards(s)
  BY <1>2, <1>3, <1>4, <1>5 DEF Forwards
<1>7. \A s \in Stages : /\ Done(s) \in Nat
                        /\ Forwards(s) \in Nat
                        /\ stage_inputs[s] \in Seq(Data)
                        /\ backward_calls[s] \in Seq(Call)
                        /\ Len(stage_inputs[s]) = Forwards(s)
                        /\ Len(backward_calls[s]) = Backwards(s)
  <2>1. ASSUME NEW s \in Stages PROVE Done(s) \in 0 .. 2 * m /\ Forwards(s) \in 0 .. m
    BY <1>1, RunningDone, RunningHasNotFailed, CountFacts
  <2>2. QED
    BY <2>1, <1>1, WarmupFacts DEF IInv, Counts, TypeOK
<1>8. \A s \in Stages : Backwards(s)' = IF s = stage_id THEN Backwards(s) + 1 ELSE Backwards(s)
  <2>1. \A s \in Stages : Backwards(s) = Done(s) - Forwards(s)
    BY DEF Backwards, BDone, Forwards
  <2>2. \A s \in Stages : Backwards(s)' = Done(s)' - Forwards(s)'
    BY <1>2 DEF Backwards, BDone, Forwards
  <2>3. QED
    BY <2>1, <2>2, <1>3, <1>6, <1>7
<1>9. /\ backward_calls'[stage_id] = Append(backward_calls[stage_id], BackwardCall)
      /\ \A s \in Stages \ {stage_id} : backward_calls'[s] = backward_calls[s]
      /\ BackwardCall \in Call
  BY <1>1, CallType DEF TypeOK, IInv
<1>10. Counts'
  BY <1>1, <1>2, <1>6, <1>7, <1>8, <1>9 DEF Counts
<1>11. OwnActivations'
  BY <1>2 DEF IInv, OwnActivations
<1>12. BackwardOnOwnInput'
  <2>1. ASSUME NEW s \in Stages, NEW i \in 1 .. Len(backward_calls'[s])
        PROVE  /\ i <= Len(stage_inputs[s])
               /\ backward_calls'[s][i].input = stage_inputs[s][i]
    <3>1. CASE s # stage_id
      BY <1>9, <2>1, <3>1 DEF IInv, BackwardOnOwnInput
    <3>2. CASE s = stage_id /\ i <= Len(backward_calls[s])
      <4>1. i \in 1 .. Len(backward_calls[s]) /\ backward_calls'[s][i] = backward_calls[s][i]
        BY <1>7, <1>9, <2>1, <3>2
      <4>2. QED
        BY <4>1, <2>1 DEF IInv, BackwardOnOwnInput
    <3>3. CASE s = stage_id /\ ~(i <= Len(backward_calls[s]))
      <4>1. i = Len(backward_calls[s]) + 1 /\ backward_calls'[s][i] = BackwardCall
        BY <1>7, <1>9, <2>1, <3>3
      <4>2. i = Op.mb + 1
        BY <4>1, <1>7, <3>3, BackwardFacts
      <4>3. QED
        BY <4>1, <4>2, <3>3, CallType DEF BackwardCall, IInv
    <3>4. QED
      BY <3>1, <3>2, <3>3
  <2>2. QED
    BY <2>1, <1>2 DEF BackwardOnOwnInput
<1>13. QED
  BY <1>6, <1>10, <1>11, <1>12
------------------------------------------------------------------------------
(* The hand-over between stages.                                           *)

\* Taking the oldest activation that waits, and adding the next one.
LEMMA TakeOldest ==
  ASSUME NEW s, NEW a \in Nat, NEW b \in Nat, a < b
  PROVE  {Handed(s, mb) : mb \in a .. b - 1} \ {Handed(s, a)}
           = {Handed(s, mb) : mb \in a + 1 .. b - 1}
<1>1. \A x, y \in Nat : Handed(s, x) = Handed(s, y) => x = y
  BY DEF Handed
<1>2. \A x \in Nat : x \in a .. b - 1 <=> x = a \/ x \in a + 1 .. b - 1
  OBVIOUS
<1>3. a \notin a + 1 .. b - 1
  OBVIOUS
<1>4. (a .. b - 1) \subseteq Nat /\ (a + 1 .. b - 1) \subseteq Nat
  OBVIOUS
<1>5. QED
  BY <1>1, <1>2, <1>3, <1>4

LEMMA AddNext ==
  ASSUME NEW s, NEW a \in Nat, NEW b \in Nat, a <= b
  PROVE  {Handed(s, mb) : mb \in a .. b - 1} \cup {Handed(s, b)}
           = {Handed(s, mb) : mb \in a .. (b + 1) - 1}
<1>1. \A x \in Nat : x \in a .. (b + 1) - 1 <=> x = b \/ x \in a .. b - 1
  OBVIOUS
<1>2. (a .. b - 1) \subseteq Nat /\ (a .. (b + 1) - 1) \subseteq Nat
  OBVIOUS
<1>3. QED
  BY <1>1, <1>2

\* After a forward, a stage waits for what the stage before is ahead by: the
\* stage has taken its oldest activation, and the next stage has one more.
LEMMA ForwardHandOver ==
  ASSUME IInv, AtOp("forward"), UNCHANGED params,
         \A s \in Stages :
           Forwards(s)' = IF s = stage_id THEN Forwards(s) + 1 ELSE Forwards(s),
         \A s \in Stages :
           /\ s = stage_id => pending_fwd'[s] = pending_fwd[s] \ Waiting
           /\ s = stage_id + 1 =>
                pending_fwd'[s] =
                  pending_fwd[s] \cup {[mb |-> Op.mb, data |-> Through(Input)]}
           /\ s # stage_id /\ s # stage_id + 1 => pending_fwd'[s] = pending_fwd[s]
  PROVE  HandOver'
<1>1. /\ stage_id \in Stages /\ num_stages \in Nat /\ result = "running" /\ TypeOK
  BY AtOpFacts DEF IInv
<1>2. Stages' = Stages
  BY ParamsFacts
<1>3. \A s \in Stages : Forwards(s) \in Nat
  <2>1. ASSUME NEW s \in Stages PROVE Forwards(s) \in 0 .. num_microbatches
    BY <1>1, RunningDone, RunningHasNotFailed, CountFacts
  <2>2. QED
    BY <2>1, <1>1, WarmupFacts
<1>4. \A s \in Stages :
        pending_fwd[s] = IF s = 0 THEN {}
                         ELSE {Handed(s, mb) : mb \in Forwards(s) .. Forwards(s - 1) - 1}
  BY <1>1, RunningHasNotFailed DEF IInv, HandOver
<1>5. ASSUME NEW s \in Stages
      PROVE  pending_fwd'[s] = IF s = 0 THEN {}
                ELSE {Handed(s, mb) : mb \in Forwards(s)' .. Forwards(s - 1)' - 1}
  <2>1. s \in Nat /\ stage_id \in Nat
    BY <1>1 DEF Stages
  <2>2. CASE s = stage_id /\ s = 0
    <3>1. pending_fwd'[s] = pending_fwd[s] \ Waiting
      BY <2>1, <2>2
    <3>2. QED
      BY <2>2, <3>1, <1>4
  <2>3. CASE s = stage_id /\ s # 0
    <3>1. s - 1 \in Stages /\ s > 0 /\ s - 1 # stage_id
      BY <1>1, <2>1, <2>3 DEF Stages
    <3>2. Forwards(s)' = Forwards(s) + 1 /\ Forwards(s - 1)' = Forwards(s - 1)
      BY <2>3, <3>1
    <3>3. Waiting = {Handed(s, Forwards(s))} /\ Forwards(s) < Forwards(s - 1)
      BY <2>3, <3>1, ForwardFacts
    <3>4. pending_fwd'[s] = pending_fwd[s] \ {Handed(s, Forwards(s))}
      BY <2>1, <2>3, <3>3
    <3>5. pending_fwd[s] \ {Handed(s, Forwards(s))}
            = {Handed(s, mb) : mb \in Forwards(s) + 1 .. Forwards(s - 1) - 1}
      <4>1. pending_fwd[s] = {Handed(s, mb) : mb \in Forwards(s) .. Forwards(s - 1) - 1}
        BY <1>4, <2>3
      <4>2. Forwards(s) \in Nat /\ Forwards(s - 1) \in Nat
        BY <1>3, <3>1
      <4>3. QED
        BY <3>3, <4>1, <4>2, TakeOldest
    <3>6. QED
      BY <2>3, <3>2, <3>4, <3>5
  <2>4. CASE s = stage_id + 1
    <3>1. s # 0 /\ s - 1 = stage_id /\ s # stage_id
      BY <2>1, <2>4
    <3>2. Forwards(s)' = Forwards(s) /\ Forwards(s - 1)' = Forwards(s - 1) + 1
      BY <3>1, <1>1
    <3>3. [mb |-> Op.mb, data |-> Through(Input)] = Handed(s, Forwards(s - 1))
      BY <2>4, <3>1, ForwardFacts, InputValue DEF Handed, Through
    <3>4. pending_fwd'[s] = pending_fwd[s] \cup {Handed(s, Forwards(s - 1))}
      BY <2>1, <2>4, <3>1, <3>3
    <3>5. Forwards(s) <= Forwards(s - 1)
      <4>1. /\ Warmup(s) \in Nat /\ Warmup(s) <= num_microbatches /\ num_microbatches \in Nat
            /\ s > 0 /\ Warmup(s) <= Warmup(s - 1) /\ Warmup(s - 1) <= Warmup(s) + 1
        BY <1>1, <2>1, <3>1, WarmupFacts
      <4>2. /\ Warmup(s - 1) \in Nat /\ Warmup(s - 1) <= num_microbatches
            /\ op_idx[stage_id] \in Nat /\ op_idx[stage_id] < 2 * num_microbatches
        BY <1>1, <3>1, WarmupFacts, AtOpFacts DEF IInv
      <4>3. op_idx[s] = op_idx[stage_id]
        BY <1>1, <2>1, <2>4 DEF IInv, Position
      <4>4. Done(s) = op_idx[stage_id] /\ Done(s - 1) = op_idx[stage_id]
        BY <1>1, <3>1, <4>3, RunningDone, RunningHasNotFailed
      <4>5. QED
        BY <4>1, <4>2, <4>4, StageBeforeLeads DEF Forwards
    <3>6. pending_fwd[s] \cup {Handed(s, Forwards(s - 1))}
            = {Handed(s, mb) : mb \in Forwards(s) .. (Forwards(s - 1) + 1) - 1}
      <4>1. pending_fwd[s] = {Handed(s, mb) : mb \in Forwards(s) .. Forwards(s - 1) - 1}
        BY <1>4, <3>1
      <4>2. Forwards(s) \in Nat /\ Forwards(s - 1) \in Nat
        BY <1>1, <1>3, <3>1
      <4>3. QED
        BY <3>5, <4>1, <4>2, AddNext
    <3>7. QED
      BY <3>1, <3>2, <3>4, <3>6
  <2>5. CASE s # stage_id /\ s # stage_id + 1
    <3>1. pending_fwd'[s] = pending_fwd[s]
      BY <2>1, <2>5
    <3>2. Forwards(s)' = Forwards(s)
      BY <2>5
    <3>3. ASSUME s # 0 PROVE Forwards(s - 1)' = Forwards(s - 1)
      <4>1. s - 1 \in Stages /\ s - 1 # stage_id
        BY <2>1, <2>5, <3>3, <1>1 DEF Stages
      <4>2. QED
        BY <4>1
    <3>4. QED
      BY <1>4, <3>1, <3>2, <3>3
  <2>6. QED
    BY <2>2, <2>3, <2>4, <2>5
<1>6. QED
  BY <1>2, <1>5 DEF HandOver
------------------------------------------------------------------------------
(* One step of each action preserves the invariant.                        *)

LEMMA ForwardLastStep ==
  ASSUME IInv, TypeOK', ForwardLast
  PROVE  IInv'
<1>1. /\ AtOp("forward") /\ ~Panics /\ Advance /\ UNCHANGED params
      /\ UNCHANGED result /\ Ends /\ stage_id = num_stages - 1
  BY DEF ForwardLast, Ends
<1>2. /\ stage_id \in Stages /\ num_stages \in Nat /\ result = "running" /\ TypeOK
  BY <1>1, AtOpFacts DEF IInv
<1>3. Position' /\ Ended' /\ NoPanic'
  BY <1>1, EndsFacts
<1>4. /\ \A s \in Stages :
           Forwards(s)' = IF s = stage_id THEN Forwards(s) + 1 ELSE Forwards(s)
      /\ Counts' /\ OwnActivations' /\ BackwardOnOwnInput'
  BY <1>1, ForwardCounts DEF ForwardLast, RunForward
<1>5. HandOver'
  <2>1. \A s \in Stages : s # stage_id + 1
    BY <1>1, <1>2 DEF Stages
  <2>2. \A s \in Stages :
          pending_fwd'[s] = IF s = stage_id THEN pending_fwd[s] \ Waiting ELSE pending_fwd[s]
    BY <1>2 DEF ForwardLast, TypeOK
  <2>3. QED
    BY <1>1, <1>4, <2>1, <2>2, ForwardHandOver
<1>6. Outside'
  <2>1. Stages' = Stages /\ num_stages' = num_stages /\ world_size' = world_size
    BY <1>1, ParamsFacts
  <2>2. ASSUME NEW s \in Stages, s >= world_size PROVE pending_fwd'[s] = {}
    <3>1. pending_fwd[s] = {} /\ pending_fwd'[s] \subseteq pending_fwd[s]
      BY <1>2, <2>2 DEF ForwardLast, IInv, Outside, TypeOK
    <3> QED
      BY <3>1
  <2>3. NoWorkBeyondWorld'
    <3>1. \A s \in Stages : s # stage_id => stage_inputs'[s] = stage_inputs[s]
      BY <1>2 DEF ForwardLast, RunForward, TypeOK
    <3>2. stage_id > 0 => stage_id < world_size
      BY <1>1, <1>2, PanicFacts DEF Stages
    <3>3. world_size \in Nat
      BY <1>2, OneF1BAssumption DEF TypeOK
    <3> QED
      BY <1>1, <1>2, <2>1, <3>1, <3>2, <3>3 DEF IInv, Outside, NoWorkBeyondWorld, Stages
  <2>4. QED
    BY <2>1, <2>2, <2>3 DEF Outside
<1>7. QED
  BY <1>3, <1>4, <1>5, <1>6 DEF IInv

LEMMA ForwardAndSendStep ==
  ASSUME IInv, TypeOK', ForwardAndSend
  PROVE  IInv'
<1>1. /\ AtOp("forward") /\ ~Panics /\ UNCHANGED params /\ stage_id < num_stages - 1
      /\ SendAndAdvance(stage_id + 1, Through(Input)) /\ Ends
  BY SendEnds DEF ForwardAndSend
<1>2. /\ stage_id \in Stages /\ num_stages \in Nat /\ result = "running" /\ TypeOK
      /\ world_size \in Nat
  BY <1>1, AtOpFacts, OneF1BAssumption DEF IInv, TypeOK
<1>3. Position' /\ Ended' /\ NoPanic'
  BY <1>1, EndsFacts
<1>4. /\ \A s \in Stages :
           Forwards(s)' = IF s = stage_id THEN Forwards(s) + 1 ELSE Forwards(s)
      /\ Counts' /\ OwnActivations' /\ BackwardOnOwnInput'
  BY <1>1, ForwardCounts DEF ForwardAndSend, RunForward
<1> DEFINE handed == IF result' = "err" THEN {}
                     ELSE {[mb |-> Op.mb, data |-> Through(Input)]}
<1>5. \A s \in Stages :
        /\ s = stage_id => pending_fwd'[s] = pending_fwd[s] \ Waiting
        /\ s = stage_id + 1 => pending_fwd'[s] = pending_fwd[s] \cup handed
        /\ s # stage_id /\ s # stage_id + 1 => pending_fwd'[s] = pending_fwd[s]
  <2>1. stage_id # stage_id + 1
    BY <1>2 DEF Stages
  <2>2. QED
    BY <2>1 DEF ForwardAndSend
<1>6. HandOver'
  <2>1. CASE result' = "err"
    BY <2>1 DEF HandOver, Failed
  <2>2. CASE result' # "err"
    BY <1>1, <1>4, <1>5, <2>2, ForwardHandOver
  <2>3. QED
    BY <2>1, <2>2
<1>7. Outside'
  <2>1. Stages' = Stages /\ num_stages' = num_stages /\ world_size' = world_size
    BY <1>1, ParamsFacts
  <2>2. stage_id < world_size /\ stage_id \in Nat
    BY <1>1, <1>2, PanicFacts DEF Stages
  <2>3. stage_id + 1 >= world_size => result' = "err" /\ handed = {}
    BY <1>1, <1>2, <2>2 DEF SendAndAdvance, IsPeer
  <2>4. ASSUME NEW s \in Stages, s >= world_size PROVE pending_fwd'[s] = {}
    <3>1. pending_fwd[s] = {} /\ s # stage_id
      BY <1>2, <2>2, <2>4 DEF IInv, Outside, Stages
    <3>2. s = stage_id + 1 => handed = {}
      BY <2>3, <2>4
    <3> QED
      BY <1>5, <3>1, <3>2
  <2>5. NoWorkBeyondWorld'
    <3>1. \A s \in Stages : s # stage_id => stage_inputs'[s] = stage_inputs[s]
      BY <1>2 DEF ForwardAndSend, RunForward, TypeOK
    <3>2. ASSUME stage_id + 1 >= world_size PROVE Len(stage_inputs'[stage_id]) <= 1
      <4>1. Len(stage_inputs[stage_id]) <= 0 /\ Forwards(stage_id) = Len(stage_inputs[stage_id])
        BY <1>1, <1>2, <2>2, <3>2 DEF IInv, Outside, NoWorkBeyondWorld, Counts
      <4>2. Len(stage_inputs'[stage_id]) = Forwards(stage_id) + 1 /\ Forwards(stage_id) \in Int
        BY <1>1, <1>2, <1>4, <2>1, ForwardFacts DEF Counts
      <4> QED
        BY <4>1, <4>2
    <3>3. ASSUME NEW s \in Stages, s < num_stages - 1, s + 1 >= world_size
          PROVE  Len(stage_inputs'[s]) <=
                   IF result' = (IF s < world_size THEN "err" ELSE "panic") THEN 1 ELSE 0
      <4>1. CASE s = stage_id
        BY <2>2, <2>3, <3>2, <3>3, <4>1
      <4>2. CASE s # stage_id
        <5>1. Len(stage_inputs[s]) <= 0 /\ stage_inputs'[s] = stage_inputs[s]
          BY <1>2, <3>1, <3>3, <4>2 DEF IInv, Outside, NoWorkBeyondWorld
        <5>2. Len(stage_inputs[s]) \in Int
          BY <1>2 DEF TypeOK
        <5> QED
          BY <5>1, <5>2
      <4> QED
        BY <4>1, <4>2
    <3>4. \A s \in Stages : s > 0 /\ s >= world_size => stage_inputs'[s] = <<>>
      BY <1>2, <2>2, <3>1 DEF IInv, Outside, NoWorkBeyondWorld, Stages
    <3> QED
      BY <2>1, <3>3, <3>4 DEF NoWorkBeyondWorld
  <2>6. QED
    BY <2>1, <2>4, <2>5 DEF Outside
<1>8. QED
  BY <1>3, <1>4, <1>6, <1>7 DEF IInv

LEMMA BackwardStepInv ==
  ASSUME IInv, TypeOK', Backward
  PROVE  IInv'
<1>1. AtOp("backward") /\ ~InputMissing /\ UNCHANGED params /\ Ends
  BY SendEnds DEF Backward, Ends, Panics
<1>2. result = "running"
  BY <1>1, AtOpFacts DEF IInv
<1>3. Position' /\ Ended' /\ NoPanic'
  BY <1>1, EndsFacts
<1>4. /\ \A s \in Stages : Forwards(s)' = Forwards(s)
      /\ Counts' /\ OwnActivations' /\ BackwardOnOwnInput'
  BY <1>1, BackwardCounts DEF Backward, RunBackward
<1>5. Stages' = Stages /\ num_stages' = num_stages /\ world_size' = world_size
  BY <1>1, ParamsFacts
<1>6. HandOver'
  <2>1. ASSUME NEW s \in Stages
        PROVE  pending_fwd'[s] = IF s = 0 THEN {}
                 ELSE {Handed(s, mb) : mb \in Forwards(s)' .. Forwards(s - 1)' - 1}
    <3>1. pending_fwd'[s] = IF s = 0 THEN {}
             ELSE {Handed(s, mb) : mb \in Forwards(s) .. Forwards(s - 1) - 1}
      BY <1>2, RunningHasNotFailed DEF Backward, IInv, HandOver
    <3>2. s # 0 => s - 1 \in Stages
      BY AtOpFacts, <1>1 DEF IInv, Stages
    <3>3. QED
      BY <1>4, <3>1, <3>2
  <2>2. QED
    BY <1>5, <2>1 DEF HandOver
<1>7. Outside'
  <2>1. \A s \in Stages : Len(stage_inputs[s]) \in Int
    BY DEF IInv, TypeOK
  <2> QED
    BY <1>2, <1>5, <2>1 DEF Backward, IInv, Outside, NoWorkBeyondWorld
<1>8. QED
  BY <1>3, <1>4, <1>6, <1>7 DEF IInv

\* Without communicators stage 0 keeps its input and computes before it panics.
LEMMA PanicStep ==
  ASSUME IInv, TypeOK', Panic
  PROVE  IInv'
<1>1. /\ AtOp("forward") /\ stage_id < num_stages - 1 /\ world_size = 0
      /\ ~InputMissing /\ UNCHANGED params
  BY PanicFacts DEF Panic
<1>2. /\ stage_id \in Stages /\ num_stages \in Nat /\ result = "running" /\ TypeOK
      /\ Op.kind = "forward"
  BY <1>1, AtOpFacts, OneF1BAssumption DEF IInv, TypeOK, AtOp
<1>3. result' = "panic" /\ RunForward /\ UNCHANGED backward_calls /\ Ends
  BY <1>1, <1>2 DEF Panic, Ends
<1>4. Position' /\ Ended' /\ NoPanic'
  BY <1>1, <1>3, EndsFacts
<1>5. Counts' /\ OwnActivations' /\ BackwardOnOwnInput'
  BY <1>1, <1>3, ForwardCounts DEF RunForward
<1>6. HandOver'
  BY <1>3 DEF HandOver, Failed
<1>7. Stages' = Stages /\ num_stages' = num_stages /\ world_size' = world_size
  BY <1>1, ParamsFacts
<1>8. pending_fwd' = [pending_fwd EXCEPT ![stage_id] = @ \ Waiting]
  BY <1>1, <1>2 DEF Panic
<1>9. \A s \in Stages : pending_fwd'[s] = {}
  <2>1. \A s \in Stages : pending_fwd[s] = {}
    BY <1>1 DEF IInv, Outside, Stages
  <2> QED
    BY <1>2, <1>8, <2>1 DEF TypeOK
<1>10. stage_id = 0
  <2>1. stage_id > 0 => Waiting # {}
    BY <1>1, ForwardFacts
  <2>2. Waiting = {}
    <3>1. pending_fwd[stage_id] = {}
      BY <1>1, <1>2 DEF IInv, Outside, Stages
    <3> QED
      BY <3>1 DEF Waiting
  <2> QED
    BY <1>2, <2>1, <2>2 DEF Stages
<1>11. NoWorkBeyondWorld'
  <2>1. \A s \in Stages : s # 0 => stage_inputs'[s] = stage_inputs[s]
    BY <1>2, <1>3, <1>10 DEF RunForward, TypeOK
  <2>2. Len(stage_inputs'[0]) <= 1
    <3>1. Len(stage_inputs[0]) <= 0 /\ Len(stage_inputs[0]) \in Nat
      BY <1>1, <1>2, <1>10 DEF IInv, Outside, NoWorkBeyondWorld, TypeOK
    <3>2. stage_inputs'[0] = Append(stage_inputs[0], Input) /\ Input \in Data
      BY <1>1, <1>2, <1>3, <1>10, InputType DEF RunForward, IInv, TypeOK
    <3>3. stage_inputs[0] \in Seq(Data)
      BY <1>2, <1>10 DEF TypeOK
    <3> QED
      BY <3>1, <3>2, <3>3
  <2>3. \A s \in Stages : Len(stage_inputs[s]) \in Int
    BY <1>2 DEF TypeOK
  <2> QED
    BY <1>1, <1>2, <1>3, <1>7, <2>1, <2>2, <2>3 DEF IInv, Outside, NoWorkBeyondWorld, Stages
<1> QED
  BY <1>4, <1>5, <1>6, <1>7, <1>9, <1>11 DEF IInv, Outside
------------------------------------------------------------------------------
(* The theorems.                                                           *)

LEMMA InitInv == Init => IInv
<1> SUFFICES ASSUME Init PROVE IInv
  OBVIOUS
<1>1. num_stages \in Nat /\ num_microbatches \in Nat /\ world_size \in Nat
  BY OneF1BAssumption DEF Init
<1>2. TypeOK
  BY <1>1 DEF Init, TypeOK, Stages, EmptySlots
<1>3. \A s \in Stages : Forwards(s) = 0 /\ Backwards(s) = 0
  <2>1. ASSUME NEW s \in Stages PROVE Forwards(s) = 0 /\ Backwards(s) = 0
    <3>1. Warmup(s) \in Nat /\ Warmup(s) <= num_microbatches
      BY <1>2, WarmupFacts
    <3>2. Done(s) = 0
      BY DEF Done, Failed, Init
    <3>3. QED
      BY <1>1, <3>1, <3>2 DEF Forwards, Backwards, BDone, FDone
  <2>2. QED
    BY <2>1
<1>4. Counts
  BY <1>3 DEF Init, Counts
<1>5. Position
  BY <1>1 DEF Init, Position, Stages
<1>6. HandOver
  <2>1. ASSUME NEW s \in Stages, s # 0 PROVE Forwards(s - 1) = 0
    BY <1>1, <1>3, <2>1 DEF Stages
  <2>2. QED
    BY <1>3, <2>1 DEF Init, HandOver
<1>7. OwnActivations /\ BackwardOnOwnInput
  BY DEF Init, OwnActivations, BackwardOnOwnInput
<1>8. QED
  BY <1>2, <1>4, <1>5, <1>6, <1>7 DEF IInv, Init, NoPanic, Outside, NoWorkBeyondWorld, Ended, Failed

\* Nothing but the result changes when the call returns.
LEMMA SameInv ==
  ASSUME IInv, TypeOK',
         UNCHANGED <<params, max_ops, stage_id, op_idx, stage_inputs, pending_fwd,
                     backward_calls, mailboxes>>,
         result' # result => ~Failed /\ ~Failed',
         NoPanic', Ended'
  PROVE  IInv'
<1>1. /\ Stages' = Stages /\ num_microbatches' = num_microbatches /\ num_stages' = num_stages
      /\ world_size' = world_size /\ \A s \in Stages : Warmup(s)' = Warmup(s)
  BY ParamsFacts
<1>2. Failed' = Failed /\ \A s \in Stages : Done(s)' = Done(s)
  BY DEF Done, Failed
<1>3. \A s \in Stages : Forwards(s)' = Forwards(s) /\ Backwards(s)' = Backwards(s)
  BY <1>1, <1>2 DEF Forwards, Backwards
<1>4. Position' /\ Counts'
  BY <1>1, <1>3 DEF IInv, Position, Counts
<1>5. HandOver'
  <2>1. ~Failed' =>
          \A s \in Stages :
            pending_fwd[s] = IF s = 0 THEN {}
                             ELSE {Handed(s, mb) : mb \in Forwards(s) .. Forwards(s - 1) - 1}
    BY <1>2 DEF IInv, HandOver
  <2>2. ASSUME NEW s \in Stages, s # 0 PROVE Forwards(s - 1)' = Forwards(s - 1)
    BY <1>3, <2>2, WarmupFacts DEF IInv, Stages
  <2>3. QED
    BY <1>1, <1>3, <2>1, <2>2 DEF HandOver
<1>6. OwnActivations' /\ BackwardOnOwnInput' /\ Outside'
  <2>1. \A s \in Stages : Len(stage_inputs[s]) \in Int
    BY DEF IInv, TypeOK
  <2>2. OwnActivations' /\ BackwardOnOwnInput'
    BY <1>1 DEF IInv, OwnActivations, BackwardOnOwnInput
  <2>3. NoWorkBeyondWorld'
    <3>1. CASE result' = result
      BY <1>1, <3>1 DEF IInv, Outside, NoWorkBeyondWorld
    <3>2. CASE result' # result
      BY <1>1, <2>1, <3>2 DEF IInv, Outside, NoWorkBeyondWorld, Failed
    <3> QED
      BY <3>1, <3>2
  <2> QED
    BY <1>1, <2>2, <2>3 DEF IInv, Outside
<1>7. QED
  BY <1>4, <1>5, <1>6 DEF IInv

LEMMA NextInv == IInv /\ [Next]_vars => IInv'
<1> SUFFICES ASSUME IInv, [Next]_vars PROVE IInv'
  OBVIOUS
<1>1. TypeOK'
  BY TypeStep DEF IInv
<1>2. CASE ForwardLast
  BY <1>1, <1>2, ForwardLastStep
<1>3. CASE ForwardAndSend
  BY <1>1, <1>3, ForwardAndSendStep
<1>4. CASE Backward
  BY <1>1, <1>4, BackwardStepInv
<1>5. CASE Panic
  BY <1>1, <1>5, PanicStep
<1>6. CASE Return
  BY <1>1, <1>6, SameInv DEF Return, NoPanic, Ended, Failed
<1>7. CASE UNCHANGED vars
  <2>1. NoPanic' /\ Ended'
    BY <1>7 DEF vars, params, NoPanic, Ended, Failed, IInv
  <2>2. QED
    BY <1>1, <1>7, <2>1, SameInv DEF vars, params
<1>8. QED
  BY <1>2, <1>3, <1>4, <1>5, <1>6, <1>7 DEF Next

LEMMA Inductive == Spec => []IInv
BY InitInv, NextInv, PTL DEF Spec

\* execute keeps every variable in its type: the round and operation counters
\* within 2 * num_microbatches, every datum and every queue well formed.
THEOREM TypeCorrect == Spec => []TypeOK
<1>1. IInv => TypeOK
  BY DEF IInv
<1>2. QED
  BY <1>1, Inductive, PTL

\* The `expect` of execute never fails and no index is out of bounds, for any
\* numbers of stages and micro-batches, given one communicator at least.
THEOREM NeverPanics == Spec => []NoPanic
<1>1. IInv => NoPanic
  BY DEF IInv
<1>2. QED
  BY <1>1, Inductive, PTL

\* Every stage is given its micro-batches in order, each after exactly the
\* stages before it.
THEOREM RightActivations == Spec => []OwnActivations
<1>1. IInv => OwnActivations
  BY DEF IInv
<1>2. QED
  BY <1>1, Inductive, PTL

\* Every backward has the input of its own forward.
THEOREM RightBackwards == Spec => []BackwardOnOwnInput
<1>1. IInv => BackwardOnOwnInput
  BY DEF IInv
<1>2. QED
  BY <1>1, Inductive, PTL

\* A stage never has more micro-batches in flight than there are stages from it
\* to the last: the bound that distinguishes 1F1B from GPipe.
THEOREM BoundedInFlight == Spec => []InFlightBound
<1>1. IInv => InFlightBound
  <2> SUFFICES ASSUME IInv, NEW s \in Stages
               PROVE  Len(stage_inputs[s]) - Len(backward_calls[s]) <= num_stages - s
    BY DEF InFlightBound
  <2>1. Done(s) \in 0 .. 2 * num_microbatches
    <3>1. TypeOK /\ num_microbatches \in Nat
      BY WarmupFacts DEF IInv
    <3>2. op_idx[s] \in 0 .. 2 * num_microbatches
      BY <3>1 DEF TypeOK
    <3>3. QED
      BY <3>1, <3>2 DEF IInv, Ended, Done
  <2>2. TypeOK
    BY DEF IInv
  <2>3. Forwards(s) - Backwards(s) <= Warmup(s) + 1
    BY <2>1, <2>2, CountFacts
  <2>4. num_stages \in Int /\ s \in Int /\ num_microbatches \in Int
    BY <2>2, OneF1BAssumption DEF TypeOK, Stages
  <2>5. Warmup(s) \in Int /\ Warmup(s) + 1 <= num_stages - s
    BY <2>4 DEF Warmup
  <2>6. Forwards(s) \in Int /\ Backwards(s) \in Int
    BY <2>1, <2>2, CountFacts
  <2> QED
    BY <2>3, <2>4, <2>5, <2>6 DEF IInv, Counts
<1>2. QED
  BY <1>1, Inductive, PTL

\* In a state where the result is Ok every counter is at its end.
LEMMA OkIsCompleteState == IInv => CompleteOnOk
<1> SUFFICES ASSUME IInv, result = "ok", NEW s \in Stages
             PROVE  /\ Len(stage_inputs[s]) = num_microbatches
                    /\ Len(backward_calls[s]) = num_microbatches
                    /\ pending_fwd[s] = {}
  BY DEF CompleteOnOk
<1>1. max_ops = 0 /\ TypeOK /\ num_microbatches \in Nat
  BY WarmupFacts DEF IInv, Ended
<1>2. stage_id = 0
  BY <1>1, OneF1BAssumption DEF IInv, Position, TypeOK, Stages
<1>3. ASSUME NEW t \in Stages
      PROVE  Forwards(t) = num_microbatches /\ Backwards(t) = num_microbatches
  <2>1. t \in Nat
    BY DEF Stages
  <2>2. Done(t) = 2 * num_microbatches
    BY <1>1, <1>2, <2>1 DEF IInv, Position, Done, Failed
  <2>3. Warmup(t) \in Nat /\ Warmup(t) <= num_microbatches
    BY <1>1, WarmupFacts
  <2>4. QED
    BY <1>1, <2>2, <2>3, DoneBounds DEF Forwards, Backwards, BDone
<1>4. s # 0 => s - 1 \in Stages
  BY <1>1, OneF1BAssumption DEF Stages, TypeOK
<1>5. pending_fwd[s] = {}
  <2>1. pending_fwd[s] = IF s = 0 THEN {}
                         ELSE {Handed(s, mb) : mb \in Forwards(s) .. Forwards(s - 1) - 1}
    BY DEF IInv, HandOver, Failed
  <2>2. s # 0 => Forwards(s) = num_microbatches /\ Forwards(s - 1) = num_microbatches
    BY <1>3, <1>4
  <2>3. (num_microbatches .. num_microbatches - 1) = {}
    BY <1>1
  <2>4. QED
    BY <2>1, <2>2, <2>3
<1>6. QED
  BY <1>3, <1>5 DEF IInv, Counts

\* When execute returns Ok, every stage has run every micro-batch both ways
\* and no activation is left behind.
THEOREM OkIsComplete == Spec => []CompleteOnOk
BY OkIsCompleteState, Inductive, PTL

\* With too few communicators the run ends at the first output that has nowhere
\* to go: its stage has then computed one micro-batch, and no stage but the first
\* ever computes outside the world.
THEOREM StopsAtTheWorld == Spec => []NoWorkBeyondWorld
<1>1. IInv => NoWorkBeyondWorld
  BY DEF IInv, Outside, NoWorkBeyondWorld
<1>2. QED
  BY <1>1, Inductive, PTL
------------------------------------------------------------------------------
(* The hand-over.                                                          *)

\* A stage is at most one forward ahead of the stage after it, whether or not
\* the round has passed the stage after it.
LEMMA StageLeadsByOne ==
  ASSUME NEW w \in Nat, NEW total \in Nat, NEW v \in Nat, v <= total,
         w <= v, v <= w + 1, NEW k \in Nat, NEW j \in Nat, k <= j, j <= k + 1, j <= 2 * total
  PROVE  FDone(v, total, j) <= FDone(w, total, k) + 1
BY SMT DEF FDone

\* HandOverBound without counting: what waits at a stage is one thing.
OneWaits == \A s \in Stages : \A p, q \in pending_fwd[s] : p = q

LEMMA OneWaitsWhileInStep == IInv /\ ~Failed => OneWaits
<1> SUFFICES ASSUME IInv, ~Failed, NEW s \in Stages, s # 0
             PROVE  \A p, q \in pending_fwd[s] : p = q
  BY DEF IInv, HandOver, OneWaits
<1>1. TypeOK /\ Position
  BY DEF IInv
<1>2. s > 0
  BY DEF Stages
<1>3. /\ s - 1 \in Stages
      /\ Warmup(s) \in Nat /\ Warmup(s - 1) \in Nat
      /\ Warmup(s - 1) <= num_microbatches /\ num_microbatches \in Nat
      /\ Warmup(s) <= Warmup(s - 1) /\ Warmup(s - 1) <= Warmup(s) + 1
  BY <1>1, <1>2, WarmupFacts
<1>4. op_idx[s - 1] = op_idx[s] \/ op_idx[s - 1] = op_idx[s] + 1
  <2>1. /\ op_idx[s] = (2 * num_microbatches - max_ops) + (IF s < stage_id THEN 1 ELSE 0)
        /\ op_idx[s - 1] = (2 * num_microbatches - max_ops) + (IF s - 1 < stage_id THEN 1 ELSE 0)
    BY <1>1, <1>3 DEF Position
  <2>2. max_ops \in Nat /\ s \in Int /\ stage_id \in Int
    BY <1>1, <1>3 DEF TypeOK, Stages
  <2> QED
    BY <1>3, <2>1, <2>2
<1>5. /\ Done(s) = op_idx[s] /\ Done(s - 1) = op_idx[s - 1]
      /\ op_idx[s] \in 0 .. 2 * num_microbatches
      /\ op_idx[s - 1] \in 0 .. 2 * num_microbatches
  BY <1>1, <1>3, RunningDone
<1>6. Forwards(s - 1) <= Forwards(s) + 1
  BY <1>3, <1>4, <1>5, StageLeadsByOne DEF Forwards
<1>7. Forwards(s) \in Nat /\ Forwards(s - 1) \in Nat
  BY <1>1, <1>3, <1>5, CountFacts
<1>8. pending_fwd[s] = {Handed(s, mb) : mb \in Forwards(s) .. Forwards(s - 1) - 1}
  BY DEF IInv, HandOver
<1>9. \A mb, nb \in Forwards(s) .. Forwards(s - 1) - 1 : mb = nb
  BY <1>6, <1>7
<1> QED
  BY <1>8, <1>9

\* A call that fails hands nothing over, and takes nothing back.
LEMMA OneWaitsStep == IInv /\ IInv' /\ OneWaits /\ [Next]_vars => OneWaits'
<1> SUFFICES ASSUME IInv, IInv', OneWaits, [Next]_vars PROVE OneWaits'
  OBVIOUS
<1>1. CASE ~Failed'
  <2>1. (IInv /\ ~Failed => OneWaits)'
    BY OneWaitsWhileInStep, PTL
  <2> QED
    BY <1>1, <2>1
<1>2. CASE Failed'
  <2>1. Stages' = Stages /\ \A s \in Stages : pending_fwd'[s] \subseteq pending_fwd[s]
    <3>1. CASE ForwardLast
      BY <1>2, <3>1 DEF ForwardLast, AtOp, Failed
    <3>2. CASE ForwardAndSend
      BY <1>2, <3>2 DEF ForwardAndSend, SendAndAdvance, AtOp, Failed, params, Stages
    <3>3. CASE Panic
      BY <3>3 DEF Panic, params, Stages, IInv, TypeOK
    <3>4. CASE Backward \/ Return \/ UNCHANGED vars
      BY <3>4 DEF Backward, Return, vars, params, Stages
    <3> QED
      BY <3>1, <3>2, <3>3, <3>4 DEF Next
  <2> QED
    BY <2>1 DEF OneWaits
<1> QED
  BY <1>1, <1>2

\* pending_fwd never holds more than one activation for a stage, after a send
\* has failed neither, for any numbers of stages, micro-batches and communicators:
\* the search in execute for the micro-batch of the operation has one candidate.
THEOREM HandsOverOne == Spec => []HandOverBound
<1>1. Init => OneWaits
  BY DEF Init, OneWaits
<1>2. OneWaits => HandOverBound
  <2> SUFFICES ASSUME OneWaits, NEW s \in Stages PROVE Cardinality(pending_fwd[s]) <= 1
    BY DEF HandOverBound
  <2>1. CASE pending_fwd[s] = {}
    <3>1. Cardinality({}) = 0
      BY FS_EmptySet, Zenon
    <3> QED
      BY <2>1, <3>1
  <2>2. CASE pending_fwd[s] # {}
    <3>1. PICK p \in pending_fwd[s] : pending_fwd[s] = {p}
      BY <2>2 DEF OneWaits
    <3>2. Cardinality({p}) = 1
      BY FS_Singleton, Zenon
    <3> QED
      BY <3>1, <3>2
  <2> QED
    BY <2>1, <2>2
<1> QED
  BY <1>1, <1>2, Inductive, OneWaitsStep, PTL DEF Spec
------------------------------------------------------------------------------
(* The schedule implements Pipeline.                                       *)

\* The cells run, by their counts: a prefix of the micro-batches of each stage.
CellsByCount ==
  /\ ForwardCells = {c \in P!Cells : c[2] < Len(stage_inputs[c[1]])}
  /\ BackwardCells = {c \in P!Cells : c[2] < Len(backward_calls[c[1]])}

LEMMA CellsRun == IInv => CellsByCount
<1> SUFFICES ASSUME IInv PROVE CellsByCount
  OBVIOUS
<1>1. \A s \in Stages : /\ Len(stage_inputs[s]) \in 0 .. num_microbatches
                        /\ Len(backward_calls[s]) \in 0 .. num_microbatches
  <2>1. ASSUME NEW s \in Stages
        PROVE  Forwards(s) \in 0 .. num_microbatches /\ Backwards(s) \in 0 .. num_microbatches
    <3>1. TypeOK /\ num_microbatches \in Nat
      BY WarmupFacts DEF IInv
    <3>2. op_idx[s] \in 0 .. 2 * num_microbatches
      BY <3>1 DEF TypeOK
    <3>3. Done(s) \in 0 .. 2 * num_microbatches
      BY <3>1, <3>2 DEF IInv, Ended, Done
    <3>4. QED
      BY <3>1, <3>3, CountFacts
  <2>2. QED
    BY <2>1 DEF IInv, Counts
<1>2. \A s \in Stages : \A i \in 1 .. Len(stage_inputs[s]) : stage_inputs[s][i].mb = i - 1
  <2>1. OwnActivations
    BY DEF IInv
  <2>2. ASSUME NEW s \in Stages, NEW i \in 1 .. Len(stage_inputs[s])
        PROVE  stage_inputs[s][i].mb = i - 1
    <3>1. stage_inputs[s][i] = [mb |-> i - 1, hops |-> s, fp8 |-> 0]
      BY <2>1 DEF OwnActivations
    <3>2. QED
      BY <3>1
  <2>3. QED
    BY <2>2
<1>3. \A s \in Stages : \A i \in 1 .. Len(backward_calls[s]) : backward_calls[s][i].input.mb = i - 1
  <2>1. ASSUME NEW s \in Stages, NEW i \in 1 .. Len(backward_calls[s])
        PROVE  backward_calls[s][i].input.mb = i - 1
    <3>1. i <= Len(stage_inputs[s]) /\ backward_calls[s][i].input = stage_inputs[s][i]
      BY DEF IInv, BackwardOnOwnInput
    <3>2. i \in 1 .. Len(stage_inputs[s])
      BY <1>1, <3>1
    <3>3. QED
      BY <1>2, <3>1, <3>2
  <2>2. QED
    BY <2>1
<1>4. num_microbatches \in Nat
  BY OneF1BAssumption DEF IInv, TypeOK
<1>5. ForwardCells = {c \in P!Cells : c[2] < Len(stage_inputs[c[1]])}
  <2>1. ForwardCells =
          UNION {{<<s, i - 1>> : i \in 1 .. Len(stage_inputs[s])} : s \in Stages}
    BY <1>2 DEF ForwardCells
  <2>2. \A s \in Stages :
          {<<s, i - 1>> : i \in 1 .. Len(stage_inputs[s])}
            = {<<s, m>> : m \in 0 .. Len(stage_inputs[s]) - 1}
    <3>1. ASSUME NEW s \in Stages
          PROVE  {<<s, i - 1>> : i \in 1 .. Len(stage_inputs[s])}
                   = {<<s, m>> : m \in 0 .. Len(stage_inputs[s]) - 1}
      <4>1. Len(stage_inputs[s]) \in Nat
        BY <1>1, <1>4
      <4>2. ASSUME NEW m \in 0 .. Len(stage_inputs[s]) - 1
            PROVE  m + 1 \in 1 .. Len(stage_inputs[s]) /\ (m + 1) - 1 = m
        BY <4>1
      <4>3. ASSUME NEW i \in 1 .. Len(stage_inputs[s])
            PROVE  i - 1 \in 0 .. Len(stage_inputs[s]) - 1
        BY <4>1
      <4>4. QED
        BY <4>2, <4>3
    <3>2. QED
      BY <3>1
  <2>3. ForwardCells = UNION {{<<s, m>> : m \in 0 .. Len(stage_inputs[s]) - 1} : s \in Stages}
    BY <2>1, <2>2
  <2>4. ASSUME NEW s \in Stages, NEW m \in 0 .. Len(stage_inputs[s]) - 1
        PROVE  <<s, m>> \in P!Cells /\ m < Len(stage_inputs[s])
    BY <1>1, <1>4 DEF P!Cells, Stages
  <2>5. ASSUME NEW c \in P!Cells, c[2] < Len(stage_inputs[c[1]])
        PROVE  c[1] \in Stages /\ c[2] \in 0 .. Len(stage_inputs[c[1]]) - 1 /\ c = <<c[1], c[2]>>
    BY <1>1, <1>4, <2>5 DEF P!Cells, Stages
  <2>6. QED
    BY <2>3, <2>4, <2>5
<1>6. BackwardCells = {c \in P!Cells : c[2] < Len(backward_calls[c[1]])}
  <2>1. BackwardCells =
          UNION {{<<s, i - 1>> : i \in 1 .. Len(backward_calls[s])} : s \in Stages}
    BY <1>3 DEF BackwardCells
  <2>2. \A s \in Stages :
          {<<s, i - 1>> : i \in 1 .. Len(backward_calls[s])}
            = {<<s, m>> : m \in 0 .. Len(backward_calls[s]) - 1}
    <3>1. ASSUME NEW s \in Stages
          PROVE  {<<s, i - 1>> : i \in 1 .. Len(backward_calls[s])}
                   = {<<s, m>> : m \in 0 .. Len(backward_calls[s]) - 1}
      <4>1. Len(backward_calls[s]) \in Nat
        BY <1>1, <1>4
      <4>2. ASSUME NEW m \in 0 .. Len(backward_calls[s]) - 1
            PROVE  m + 1 \in 1 .. Len(backward_calls[s]) /\ (m + 1) - 1 = m
        BY <4>1
      <4>3. ASSUME NEW i \in 1 .. Len(backward_calls[s])
            PROVE  i - 1 \in 0 .. Len(backward_calls[s]) - 1
        BY <4>1
      <4>4. QED
        BY <4>2, <4>3
    <3>2. QED
      BY <3>1
  <2>3. BackwardCells = UNION {{<<s, m>> : m \in 0 .. Len(backward_calls[s]) - 1} : s \in Stages}
    BY <2>1, <2>2
  <2>4. ASSUME NEW s \in Stages, NEW m \in 0 .. Len(backward_calls[s]) - 1
        PROVE  <<s, m>> \in P!Cells /\ m < Len(backward_calls[s])
    BY <1>1, <1>4 DEF P!Cells, Stages
  <2>5. ASSUME NEW c \in P!Cells, c[2] < Len(backward_calls[c[1]])
        PROVE  c[1] \in Stages /\ c[2] \in 0 .. Len(backward_calls[c[1]]) - 1 /\ c = <<c[1], c[2]>>
    BY <1>1, <1>4, <2>5 DEF P!Cells, Stages
  <2>6. QED
    BY <2>3, <2>4, <2>5
<1>7. QED
  BY <1>5, <1>6 DEF CellsByCount

\* One more forward at the current stage is one more cell of the abstract run.
LEMMA ForwardRefines ==
  ASSUME IInv, IInv', AtOp("forward"), UNCHANGED params, UNCHANGED backward_calls,
         result' \in {"running", "err", "panic"},
         stage_inputs' = [stage_inputs EXCEPT ![stage_id] = Append(@, Input)]
  PROVE  P!Next
<1> DEFINE m == Forwards(stage_id)
<1>1. /\ stage_id \in Stages /\ num_stages \in Nat /\ result = "running" /\ TypeOK
      /\ Stages' = Stages /\ UNCHANGED <<num_stages, num_microbatches>>
  BY AtOpFacts, ParamsFacts DEF IInv
<1>2. \A s \in Stages : stage_inputs[s] \in Seq(Data) /\ Len(stage_inputs[s]) = Forwards(s)
  BY <1>1 DEF IInv, TypeOK, Counts
<1>3. m \in Nat /\ (stage_id > 0 => m < Forwards(stage_id - 1))
  BY ForwardFacts
<1>4. \A s \in Stages : Len(stage_inputs'[s]) = IF s = stage_id THEN m + 1 ELSE Len(stage_inputs[s])
  BY <1>1, <1>2 DEF TypeOK
<1>5. P!Cells' = P!Cells
  BY <1>1 DEF P!Cells
<1>6. /\ ForwardCells = {c \in P!Cells : c[2] < Len(stage_inputs[c[1]])}
      /\ BackwardCells = {c \in P!Cells : c[2] < Len(backward_calls[c[1]])}
      /\ ForwardCells' = {c \in P!Cells : c[2] < Len(stage_inputs'[c[1]])}
      /\ BackwardCells' = BackwardCells
  <2>1. CellsByCount /\ CellsByCount'
    BY CellsRun, PTL
  <2>2. QED
    BY <2>1, <1>5 DEF CellsByCount
<1>7. <<stage_id, m>> \in P!Cells
  <2>1. m < num_microbatches /\ num_microbatches \in Nat
    BY <1>1, ForwardOpInRange, WarmupFacts
  <2>2. QED
    BY <2>1, <1>1, <1>3 DEF P!Cells, Stages
<1>8. P!Forward(stage_id, m)
  <2>1. <<stage_id, m>> \notin ForwardCells
    BY <1>1, <1>2, <1>3, <1>6
  <2>2. stage_id > 0 => <<stage_id - 1, m>> \in ForwardCells
    <3>1. stage_id > 0 => stage_id - 1 \in Stages
      BY <1>1 DEF Stages
    <3>2. stage_id > 0 => <<stage_id - 1, m>> \in P!Cells
      BY <3>1, <1>7 DEF P!Cells, Stages
    <3>3. QED
      BY <3>1, <3>2, <1>2, <1>3, <1>6
  <2>3. ForwardCells' = ForwardCells \cup {<<stage_id, m>>}
    <3>1. ASSUME NEW c \in P!Cells
          PROVE  c[2] < Len(stage_inputs'[c[1]])
                   <=> c[2] < Len(stage_inputs[c[1]]) \/ c = <<stage_id, m>>
      <4>1. c[1] \in Stages /\ c[2] \in Nat /\ c = <<c[1], c[2]>>
        BY <1>1, OneF1BAssumption DEF P!Cells, Stages, TypeOK
      <4>2. QED
        BY <4>1, <1>1, <1>2, <1>3, <1>4
    <3>2. QED
      BY <3>1, <1>6, <1>7
  <2>4. QED
    BY <1>1, <1>6, <2>1, <2>2, <2>3 DEF P!Forward, P!Failures
<1>9. QED
  BY <1>7, <1>8 DEF P!Next

\* One more backward likewise.
LEMMA BackwardRefines ==
  ASSUME IInv, IInv', Backward
  PROVE  P!Next
<1> DEFINE m == Backwards(stage_id)
<1>1. /\ stage_id \in Stages /\ num_stages \in Nat /\ result = "running" /\ TypeOK
      /\ Stages' = Stages /\ UNCHANGED <<num_stages, num_microbatches>>
      /\ AtOp("backward") /\ UNCHANGED stage_inputs
  BY AtOpFacts, ParamsFacts DEF IInv, Backward
<1>2. \A s \in Stages : /\ backward_calls[s] \in Seq(Call)
                        /\ Len(backward_calls[s]) = Backwards(s)
                        /\ Len(stage_inputs[s]) = Forwards(s)
  BY <1>1 DEF IInv, TypeOK, Counts
<1>3. m \in Nat /\ m < Forwards(stage_id)
  BY <1>1, BackwardFacts
<1>4. \A s \in Stages :
        Len(backward_calls'[s]) = IF s = stage_id THEN m + 1 ELSE Len(backward_calls[s])
  BY <1>1, <1>2 DEF TypeOK, Backward, RunBackward
<1>5. P!Cells' = P!Cells
  BY <1>1 DEF P!Cells
<1>6. /\ ForwardCells = {c \in P!Cells : c[2] < Len(stage_inputs[c[1]])}
      /\ BackwardCells = {c \in P!Cells : c[2] < Len(backward_calls[c[1]])}
      /\ ForwardCells' = ForwardCells
      /\ BackwardCells' = {c \in P!Cells : c[2] < Len(backward_calls'[c[1]])}
  <2>1. CellsByCount /\ CellsByCount'
    BY CellsRun, PTL
  <2>2. QED
    BY <2>1, <1>1, <1>5 DEF CellsByCount
<1>7. <<stage_id, m>> \in P!Cells
  <2>1. Forwards(stage_id) \in 0 .. num_microbatches /\ num_microbatches \in Nat
    BY <1>1, RunningDone, RunningHasNotFailed, CountFacts, WarmupFacts
  <2>2. QED
    BY <2>1, <1>1, <1>3 DEF P!Cells, Stages
<1>8. P!Backward(stage_id, m)
  <2>1. <<stage_id, m>> \in ForwardCells \ BackwardCells
    BY <1>1, <1>2, <1>3, <1>6, <1>7
  <2>2. BackwardCells' = BackwardCells \cup {<<stage_id, m>>}
    <3>1. ASSUME NEW c \in P!Cells
          PROVE  c[2] < Len(backward_calls'[c[1]])
                   <=> c[2] < Len(backward_calls[c[1]]) \/ c = <<stage_id, m>>
      <4>1. c[1] \in Stages /\ c[2] \in Nat /\ c = <<c[1], c[2]>>
        BY <1>1, OneF1BAssumption DEF P!Cells, Stages, TypeOK
      <4>2. QED
        BY <4>1, <1>1, <1>2, <1>3, <1>4
    <3>2. QED
      BY <3>1, <1>6, <1>7
  <2>3. result' \in {"running", "err"}
    BY <1>1 DEF Backward, SendAndAdvance
  <2>4. QED
    BY <1>1, <1>6, <2>1, <2>2, <2>3 DEF P!Backward, P!Failures
<1>9. QED
  BY <1>7, <1>8 DEF P!Next

\* Ok is returned when both passes are complete.
LEMMA ReturnRefines ==
  ASSUME IInv, IInv', Return
  PROVE  P!Next
<1>1. /\ result = "running" /\ result' = "ok" /\ UNCHANGED <<num_stages, num_microbatches>>
      /\ UNCHANGED <<stage_inputs, backward_calls>> /\ Stages' = Stages
  BY ParamsFacts DEF Return, params
<1>2. CompleteOnOk'
  BY OkIsCompleteState, PTL
<1>3. \A s \in Stages : /\ Len(stage_inputs[s]) = num_microbatches
                        /\ Len(backward_calls[s]) = num_microbatches
  BY <1>1, <1>2 DEF CompleteOnOk
<1>4. CellsByCount /\ CellsByCount' /\ P!Cells' = P!Cells
  <2>1. CellsByCount /\ CellsByCount'
    BY CellsRun, PTL
  <2>2. P!Cells' = P!Cells
    BY <1>1 DEF P!Cells
  <2>3. QED
    BY <2>1, <2>2
<1>5. \A c \in P!Cells : c[1] \in Stages /\ c[2] < num_microbatches
  BY OneF1BAssumption DEF P!Cells, Stages, IInv, TypeOK
<1>6. ForwardCells = P!Cells /\ BackwardCells = P!Cells
  BY <1>3, <1>4, <1>5 DEF CellsByCount
<1>7. ForwardCells' = ForwardCells /\ BackwardCells' = BackwardCells
  BY <1>1, <1>4 DEF CellsByCount
<1>8. P!Return
  BY <1>1, <1>6, <1>7 DEF P!Return
<1>9. QED
  BY <1>8 DEF P!Next

\* Every behaviour of the schedule is a behaviour of Pipeline, for every number
\* of stages, micro-batches and communicators: forwards in stage order, each
\* backward after its own forward, Ok only when all is done.
THEOREM Refinement == Spec => ImplementsPipeline
<1>1. Init => P!Init
  <2> SUFFICES ASSUME Init PROVE P!Init
    OBVIOUS
  <2>1. \A s \in Stages : Len(stage_inputs[s]) = 0 /\ Len(backward_calls[s]) = 0
    BY DEF Init
  <2>2. ForwardCells = {} /\ BackwardCells = {}
    BY <2>1 DEF ForwardCells, BackwardCells
  <2>3. QED
    BY <2>2 DEF Init, P!Init
<1>2. IInv /\ IInv' /\ [Next]_vars => [P!Next]_P!vars
  <2> SUFFICES ASSUME IInv, IInv', [Next]_vars PROVE P!Next \/ UNCHANGED P!vars
    BY DEF P!vars
  <2>1. CASE ForwardLast
    <3>1. /\ AtOp("forward") /\ UNCHANGED params /\ UNCHANGED backward_calls
          /\ result' = "running"
          /\ stage_inputs' = [stage_inputs EXCEPT ![stage_id] = Append(@, Input)]
      BY <2>1 DEF ForwardLast, RunForward, AtOp
    <3>2. QED
      BY <3>1, ForwardRefines
  <2>2. CASE ForwardAndSend
    <3>1. /\ AtOp("forward") /\ UNCHANGED params /\ UNCHANGED backward_calls
          /\ result' \in {"running", "err"}
          /\ stage_inputs' = [stage_inputs EXCEPT ![stage_id] = Append(@, Input)]
      BY <2>2 DEF ForwardAndSend, RunForward, AtOp, SendAndAdvance
    <3>2. QED
      BY <3>1, ForwardRefines
  <2>3. CASE Backward
    BY <2>3, BackwardRefines
  <2>4. CASE Panic
    <3>1. AtOp("forward") /\ ~InputMissing
      BY <2>4, PanicFacts DEF Panic
    <3>2. /\ UNCHANGED params /\ UNCHANGED backward_calls /\ result' = "panic"
          /\ stage_inputs' = [stage_inputs EXCEPT ![stage_id] = Append(@, Input)]
      BY <2>4, <3>1 DEF Panic, RunForward, AtOp
    <3>3. QED
      BY <3>1, <3>2, ForwardRefines
  <2>5. CASE Return
    BY <2>5, ReturnRefines
  <2>6. CASE UNCHANGED vars
    BY <2>6 DEF vars, params, P!vars, ForwardCells, BackwardCells, Stages
  <2>7. QED
    BY <2>1, <2>2, <2>3, <2>4, <2>5, <2>6 DEF Next
<1>3. QED
  BY <1>1, <1>2, Inductive, PTL DEF Spec, ImplementsPipeline, P!Spec
==============================================================================
