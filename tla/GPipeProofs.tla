------------------------------ MODULE GPipeProofs ------------------------------
(***************************************************************************)
(* Proofs about GPipe, for every number of stages, micro-batches,          *)
(* communicators and runs.                                                 *)
(***************************************************************************)
EXTENDS GPipe, SequenceTheorems, TLAPS

Call == [input : Data, grad : Data]
Slot == Seq(Data)

\* What is in hand after n stages and as many hops.
Passed(n) == [mb |-> <<run, mb>>, hops |-> n, fp8 |-> n]

\* A communicator with slots of its own receives nothing that another sent.
OwnSlots ==
  backend = "private" =>
    \A r, src, dst \in Ranks(world_size) : r # src => mailboxes[r][<<src, dst>>] = <<>>

\* The data in hand belongs to the micro-batch the loops stand at, and has come
\* from the stage they began with.
InHand ==
  result = "running" /\ num_stages > 0 =>
    /\ stage_idx \in Stages
    /\ carried = Passed(IF phase = "forward" THEN stage_idx ELSE num_stages - 1 - stage_idx)
    /\ mb = num_microbatches => stage_idx = IF phase = "forward" THEN 0 ELSE num_stages - 1

\* How much each stage has done, by where the loops stand.
Progress ==
  result = "running" =>
    \A s \in Stages :
      /\ Len(all_inputs[s]) = IF phase = "backward" THEN num_microbatches
                              ELSE IF s < stage_idx THEN mb + 1 ELSE mb
      /\ Len(backward_calls[s]) = IF phase = "forward" THEN 0
                                  ELSE IF s > stage_idx THEN mb + 1 ELSE mb

\* A stage is reached over its communicator.
Reached ==
  result = "running" =>
    /\ phase = "forward" /\ stage_idx > 0 => stage_idx < world_size
    /\ mb > 0 \/ (phase = "backward" /\ num_microbatches > 0) =>
         num_stages <= 1 \/ num_stages <= world_size

Inv ==
  /\ TypeOK
  /\ OwnSlots
  /\ InHand
  /\ Progress
  /\ Reached
  /\ OwnActivations
  /\ GradientChain
  /\ FailsOnlyWithoutWorld
------------------------------------------------------------------------------
(* Data, sequences and slots.                                              *)

LEMMA Parameters ==
  ASSUME TypeOK
  PROVE  /\ num_stages \in Nat /\ num_microbatches \in Nat /\ world_size \in Nat
         /\ mb \in Nat /\ mb <= num_microbatches /\ run \in Nat /\ stage_idx \in Nat
         /\ MaxRuns \in Nat
         /\ backend \in {"shared", "private", "tcp"}
         /\ \A s \in Stages : s \in Nat /\ s < num_stages
BY GPipeAssumption DEF TypeOK, Communicators, Stages

LEMMA DataTypes ==
  /\ \A data \in Data : Through(data) \in Data /\ Wire(data) \in Data
  /\ \A i, j \in Nat : Fresh(<<i, j>>) \in Data
BY DEF Data, Provenance, Through, Wire, Fresh

LEMMA PassedOn ==
  ASSUME NEW n \in Nat
  PROVE  Wire(Through(Passed(n))) = Passed(n + 1)
<1>1. Through(Passed(n)) = [mb |-> <<run, mb>>, hops |-> n + 1, fp8 |-> n]
  BY DEF Through, Passed
<1> DEFINE d == Through(Passed(n))
<1>2. Wire(d) = [d EXCEPT !.fp8 = @ + 1]
  BY DEF Wire
<1> HIDE DEF d
<1>3. Wire(d) = [mb |-> <<run, mb>>, hops |-> n + 1, fp8 |-> n + 1]
  BY <1>1, <1>2 DEF d
<1> QED
  BY <1>3 DEF d, Passed

LEMMA AppendAt ==
  ASSUME NEW S, NEW T, NEW f \in [S -> Seq(T)], NEW s \in S, NEW x \in T,
         NEW g, g = [f EXCEPT ![s] = Append(@, x)]
  PROVE  /\ g \in [S -> Seq(T)]
         /\ \A r \in S : Len(f[r]) \in Nat
         /\ \A r \in S : Len(g[r]) = IF r = s THEN Len(f[r]) + 1 ELSE Len(f[r])
         /\ \A r \in S : \A i \in 1 .. Len(f[r]) : g[r][i] = f[r][i]
         /\ g[s][Len(f[s]) + 1] = x
<1>1. /\ Append(f[s], x) \in Seq(T)
      /\ Len(Append(f[s], x)) = Len(f[s]) + 1
      /\ \A i \in 1 .. Len(f[s]) : Append(f[s], x)[i] = f[s][i]
      /\ Append(f[s], x)[Len(f[s]) + 1] = x
  BY AppendProperties
<1>2. \A r \in S : Len(f[r]) \in Nat
  BY LenProperties
<1>3. g[s] = Append(f[s], x) /\ \A r \in S : r # s => g[r] = f[r]
  OBVIOUS
<1>4. g \in [S -> Seq(T)]
  BY <1>1
<1> QED
  BY <1>1, <1>2, <1>3, <1>4

\* What a send and the receive that follows it do.
LEMMA RelayFacts ==
  ASSUME TypeOK, OwnSlots, NEW dst \in Stages, NEW data \in Data,
         stage_idx \in Stages, dst # stage_idx, Relay(dst, data), UNCHANGED fixed
  PROVE  /\ result' \in {"running", "err", "panic"}
         /\ mailboxes' \in [Ranks(world_size) -> [Ranks(world_size) \X Ranks(world_size) -> Slot]]
         /\ OwnSlots'
         /\ result' = "running" => /\ carried' = Wire(data) /\ stage_idx' = dst
                                   /\ stage_idx < world_size /\ dst < world_size
         /\ result' # "running" => carried' = carried /\ stage_idx' = stage_idx
         /\ result' = "err" => backend = "tcp" \/ dst >= world_size
         /\ result' = "panic" => backend = "private" \/ stage_idx >= world_size
<1> DEFINE src == stage_idx
           sent == Slots(src, dst, data)
<1>1. /\ world_size \in Nat /\ src \in Nat /\ dst \in Nat
      /\ backend \in {"shared", "private", "tcp"}
      /\ Wire(data) \in Data
      /\ mailboxes \in [Ranks(world_size) -> [Ranks(world_size) \X Ranks(world_size) -> Slot]]
  BY Parameters, DataTypes DEF TypeOK, Slot
<1>2. /\ result' = Outcome(src, dst, data)
      /\ result' = "err" \/ src >= world_size => mailboxes' = mailboxes
      /\ ~(result' = "err" \/ src >= world_size) => mailboxes' = sent
      /\ result' = "running" => carried' = Received(src, dst, data)[1] /\ stage_idx' = dst
      /\ result' # "running" => carried' = carried /\ stage_idx' = stage_idx
  BY DEF Relay
<1>3. ASSUME ~(result' = "err" \/ src >= world_size)
      PROVE  /\ src \in Ranks(world_size) /\ dst \in Ranks(world_size) /\ backend # "tcp"
             /\ World(src) \in Ranks(world_size) /\ World(dst) \in Ranks(world_size)
  <2>1. src < world_size /\ backend # "tcp" /\ dst < world_size
    BY <1>1, <1>2, <1>3 DEF Outcome, IsPeer
  <2> QED
    BY <1>1, <2>1 DEF Ranks, World
<1>4. ASSUME ~(result' = "err" \/ src >= world_size)
      PROVE  /\ sent \in [Ranks(world_size) -> [Ranks(world_size) \X Ranks(world_size) -> Slot]]
             /\ \A r, a, b \in Ranks(world_size) :
                  sent[r][<<a, b>>] = IF r = World(src) /\ a = src /\ b = dst
                                        THEN <<Wire(data)>> ELSE mailboxes[r][<<a, b>>]
  <2>1. <<Wire(data)>> \in Slot
    BY <1>1 DEF Slot
  <2>2. <<src, dst>> \in Ranks(world_size) \X Ranks(world_size)
    BY <1>3, <1>4
  <2>3. sent = [mailboxes EXCEPT ![World(src)] = [@ EXCEPT ![<<src, dst>>] = <<Wire(data)>>]]
    BY DEF Slots, Put
  <2> HIDE DEF sent
  <2>4. sent[World(src)] = [mailboxes[World(src)] EXCEPT ![<<src, dst>>] = <<Wire(data)>>]
    BY <1>1, <1>3, <1>4, <2>3
  <2>5. \A r \in Ranks(world_size) : r # World(src) => sent[r] = mailboxes[r]
    BY <1>1, <2>3
  <2>6. sent[World(src)] \in [Ranks(world_size) \X Ranks(world_size) -> Slot]
    BY <1>1, <1>3, <1>4, <2>1, <2>4
  <2>7. sent \in [Ranks(world_size) -> [Ranks(world_size) \X Ranks(world_size) -> Slot]]
    BY <1>1, <2>1, <2>3, <2>6
  <2>8. ASSUME NEW r \in Ranks(world_size), NEW a \in Ranks(world_size), NEW b \in Ranks(world_size)
        PROVE  sent[r][<<a, b>>] = IF r = World(src) /\ a = src /\ b = dst
                                     THEN <<Wire(data)>> ELSE mailboxes[r][<<a, b>>]
    <3>1. <<a, b>> \in Ranks(world_size) \X Ranks(world_size)
      OBVIOUS
    <3>2. <<a, b>> = <<src, dst>> <=> a = src /\ b = dst
      OBVIOUS
    <3>3. mailboxes[r] \in [Ranks(world_size) \X Ranks(world_size) -> Slot]
      BY <1>1
    <3>4. CASE r = World(src)
      BY <2>4, <3>1, <3>2, <3>3, <3>4
    <3>5. CASE r # World(src)
      BY <2>5, <3>5
    <3> QED
      BY <3>4, <3>5
  <2> QED
    BY <2>7, <2>8
<1> HIDE DEF sent
<1>5. mailboxes' \in [Ranks(world_size) -> [Ranks(world_size) \X Ranks(world_size) -> Slot]]
  BY <1>1, <1>2, <1>4
<1>6. OwnSlots'
  <2> SUFFICES ASSUME backend = "private", NEW r \in Ranks(world_size),
                      NEW a \in Ranks(world_size), NEW b \in Ranks(world_size), r # a
               PROVE  mailboxes'[r][<<a, b>>] = <<>>
    BY DEF OwnSlots, fixed
  <2>1. mailboxes[r][<<a, b>>] = <<>>
    BY DEF OwnSlots
  <2>2. World(src) = src
    BY DEF World
  <2> QED
    BY <1>2, <1>4, <2>1, <2>2
<1>7. result' \in {"running", "err", "panic"}
  BY <1>2 DEF Outcome
<1>8. ASSUME src < world_size, backend # "tcp", dst < world_size
      PROVE  Received(src, dst, data)
               = IF backend = "private" THEN <<>> ELSE <<Wire(data)>>
  <2>1. ~(result' = "err" \/ src >= world_size)
    BY <1>1, <1>2, <1>8 DEF Outcome, IsPeer
  <2>2. src \in Ranks(world_size) /\ dst \in Ranks(world_size) /\ World(dst) \in Ranks(world_size)
    BY <1>3, <2>1
  <2>3. Received(src, dst, data) = sent[World(dst)][<<src, dst>>]
    BY DEF Received, Held, sent
  <2>4. CASE backend = "private"
    <3>1. World(src) = src /\ World(dst) = dst
      BY <2>4 DEF World
    <3>2. mailboxes[dst][<<src, dst>>] = <<>>
      BY <2>2, <2>4 DEF OwnSlots
    <3> QED
      BY <1>4, <2>1, <2>2, <2>3, <2>4, <3>1, <3>2
  <2>5. CASE backend # "private"
    <3>1. World(src) = World(dst)
      BY <2>5 DEF World
    <3> QED
      BY <1>4, <2>1, <2>2, <2>3, <2>5, <3>1
  <2> QED
    BY <2>4, <2>5
<1>9. result' = "running" => /\ carried' = Wire(data) /\ stage_idx' = dst
                             /\ src < world_size /\ dst < world_size
  <2> SUFFICES ASSUME result' = "running"
               PROVE  /\ carried' = Wire(data) /\ stage_idx' = dst
                      /\ src < world_size /\ dst < world_size
    OBVIOUS
  <2>1. src < world_size /\ backend # "tcp" /\ dst < world_size /\ Received(src, dst, data) # <<>>
    BY <1>1, <1>2 DEF Outcome, IsPeer
  <2>2. Received(src, dst, data) = <<Wire(data)>>
    BY <1>8, <2>1
  <2> QED
    BY <1>2, <2>1, <2>2
<1>10. result' = "err" => backend = "tcp" \/ dst >= world_size
  BY <1>1, <1>2 DEF Outcome, IsPeer
<1>11. result' = "panic" => backend = "private" \/ src >= world_size
  <2> SUFFICES ASSUME result' = "panic", src < world_size PROVE backend = "private"
    BY <1>1
  <2>1. backend # "tcp" /\ dst < world_size /\ Received(src, dst, data) = <<>>
    BY <1>1, <1>2 DEF Outcome, IsPeer
  <2>2. <<Wire(data)>> # <<>>
    OBVIOUS
  <2> QED
    BY <1>8, <2>1, <2>2
<1> QED
  BY <1>2, <1>5, <1>6, <1>7, <1>9, <1>10, <1>11
------------------------------------------------------------------------------
(* The steps.                                                              *)

LEMMA InitInv == Init => Inv
<1> SUFFICES ASSUME Init PROVE Inv
  OBVIOUS
<1>1. /\ num_stages \in Nat /\ num_microbatches \in Nat /\ world_size \in Nat
      /\ 1 \in 1 .. MaxRuns
  BY GPipeAssumption DEF Init
<1>2. <<>> \in Seq(Data) /\ <<>> \in Seq(Call) /\ Len(<<>>) = 0
  BY EmptySeq
<1>3. \A s \in Stages : /\ all_inputs[s] = <<>> /\ backward_calls[s] = <<>>
                        /\ Len(all_inputs[s]) = 0 /\ Len(backward_calls[s]) = 0
  BY <1>2 DEF Init
<1>4. TypeOK
  <2>1. mailboxes \in [Ranks(world_size) -> [Ranks(world_size) \X Ranks(world_size) -> Seq(Data)]]
    BY <1>2 DEF Init, EmptySlots
  <2>2. carried \in Data
    BY DataTypes DEF Init
  <2>3. all_inputs \in [Stages -> Seq(Data)] /\ backward_calls \in [Stages -> Seq(Call)]
    BY <1>2 DEF Init
  <2>4. mb \in 0 .. num_microbatches /\ outputs \in Seq(Data)
    BY <1>1, <1>2 DEF Init
  <2>5. /\ num_stages \in StageCounts /\ num_microbatches \in MicrobatchCounts
        /\ world_size \in WorldSizes /\ backend \in Backends
        /\ run \in 1 .. MaxRuns /\ phase \in {"forward", "backward"}
        /\ stage_idx \in Stages \cup {0} /\ result \in {"running", "ok", "err", "panic"}
    BY <1>1 DEF Init
  <2> QED
    BY <2>1, <2>2, <2>3, <2>4, <2>5 DEF TypeOK, Call
<1>5. OwnSlots
  BY DEF Init, OwnSlots, EmptySlots
<1>6. InHand
  BY <1>1 DEF Init, InHand, Passed, Fresh, Stages
<1>7. Progress
  BY <1>3 DEF Init, Progress, Stages
<1>8. Reached
  BY <1>1 DEF Init, Reached
<1>9. OwnActivations /\ GradientChain
  BY <1>3 DEF OwnActivations, GradientChain
<1>10. FailsOnlyWithoutWorld
  BY DEF Init, FailsOnlyWithoutWorld
<1> QED
  BY <1>4, <1>5, <1>6, <1>7, <1>8, <1>9, <1>10 DEF Inv

\* Keeping an input.
LEMMA InputKept ==
  ASSUME Inv, At("forward"), stage_idx \in Stages, UNCHANGED <<fixed, run, backward_calls>>,
         all_inputs' = [all_inputs EXCEPT ![stage_idx] = Append(@, carried)]
  PROVE  /\ all_inputs' \in [Stages -> Seq(Data)]
         /\ \A s \in Stages : Len(all_inputs[s]) = IF s < stage_idx THEN mb + 1 ELSE mb
         /\ \A s \in Stages : Len(all_inputs'[s]) = IF s <= stage_idx THEN mb + 1 ELSE mb
         /\ \A s \in Stages : Len(backward_calls[s]) = 0
         /\ OwnActivations' /\ GradientChain'
<1>1. /\ TypeOK /\ result = "running" /\ num_stages > 0 /\ phase = "forward"
      /\ OwnActivations /\ Stages' = Stages
  BY DEF Inv, At, fixed, Stages
<1>2. mb \in Nat /\ stage_idx \in Nat /\ \A s \in Stages : s \in Nat
  BY <1>1, Parameters
<1>3. all_inputs \in [Stages -> Seq(Data)] /\ carried \in Data
  BY <1>1 DEF TypeOK
<1>4. carried = [mb |-> <<run, mb>>, hops |-> stage_idx, fp8 |-> stage_idx]
  BY <1>1 DEF Inv, InHand, Passed
<1>5. \A s \in Stages : /\ Len(all_inputs[s]) = IF s < stage_idx THEN mb + 1 ELSE mb
                        /\ Len(backward_calls[s]) = 0
  BY <1>1 DEF Inv, Progress
<1>6. /\ all_inputs' \in [Stages -> Seq(Data)]
      /\ \A s \in Stages : Len(all_inputs'[s]) = IF s = stage_idx THEN Len(all_inputs[s]) + 1
                                                 ELSE Len(all_inputs[s])
      /\ \A s \in Stages : \A i \in 1 .. Len(all_inputs[s]) : all_inputs'[s][i] = all_inputs[s][i]
      /\ all_inputs'[stage_idx][Len(all_inputs[stage_idx]) + 1] = carried
  BY <1>3, AppendAt
<1>7. \A s \in Stages : Len(all_inputs'[s]) = IF s <= stage_idx THEN mb + 1 ELSE mb
  BY <1>2, <1>5, <1>6
<1>8. OwnActivations'
  <2> SUFFICES ASSUME NEW s \in Stages, NEW i \in 1 .. Len(all_inputs'[s])
               PROVE  all_inputs'[s][i] = [mb |-> <<run, i - 1>>, hops |-> s, fp8 |-> s]
    BY <1>1 DEF OwnActivations
  <2>1. CASE i \in 1 .. Len(all_inputs[s])
    BY <1>1, <1>6, <2>1 DEF OwnActivations
  <2>2. CASE i \notin 1 .. Len(all_inputs[s])
    <3>1. s = stage_idx /\ i = Len(all_inputs[s]) + 1 /\ Len(all_inputs[s]) = mb
      BY <1>2, <1>5, <1>6, <2>2
    <3>2. i - 1 = mb
      BY <1>2, <3>1
    <3> QED
      BY <1>4, <1>6, <3>1, <3>2
  <2> QED
    BY <2>1, <2>2
<1>9. GradientChain'
  <2>1. \A s \in Stages : 1 .. Len(backward_calls[s]) = {}
    BY <1>5
  <2> QED
    BY <1>1, <2>1 DEF GradientChain
<1> QED
  BY <1>5, <1>6, <1>7, <1>8, <1>9

LEMMA ForwardAndRelayInv ==
  ASSUME Inv, ForwardAndRelay
  PROVE  Inv'
<1>1. /\ At("forward") /\ stage_idx < num_stages - 1
      /\ all_inputs' = [all_inputs EXCEPT ![stage_idx] = Append(@, carried)]
      /\ Relay(stage_idx + 1, Through(carried))
      /\ UNCHANGED <<fixed, num_microbatches, run, phase, mb, outputs, backward_calls>>
  BY DEF ForwardAndRelay
<1>2. /\ TypeOK /\ OwnSlots /\ result = "running" /\ num_stages > 0 /\ phase = "forward"
      /\ mb < num_microbatches
      /\ num_stages' = num_stages /\ world_size' = world_size /\ backend' = backend
      /\ Stages' = Stages
  BY <1>1 DEF Inv, At, fixed, Stages
<1>3. /\ mb \in Nat /\ num_stages \in Nat /\ world_size \in Nat /\ stage_idx \in Nat
      /\ \A s \in Stages : s \in Nat /\ s < num_stages
  BY <1>2, Parameters
<1>4. stage_idx \in Stages /\ stage_idx + 1 \in Stages /\ stage_idx + 1 # stage_idx
  BY <1>1, <1>3 DEF Stages
<1>5. carried = Passed(stage_idx) /\ Through(carried) \in Data /\ Passed(stage_idx)' = Passed(stage_idx')
  BY <1>1, <1>2, DataTypes DEF Inv, InHand, TypeOK, Passed
<1>6. /\ all_inputs' \in [Stages -> Seq(Data)]
      /\ \A s \in Stages : Len(all_inputs'[s]) = IF s <= stage_idx THEN mb + 1 ELSE mb
      /\ \A s \in Stages : Len(backward_calls[s]) = 0
      /\ OwnActivations' /\ GradientChain'
  BY <1>1, <1>4, InputKept
<1>7. /\ result' \in {"running", "err", "panic"}
      /\ mailboxes' \in [Ranks(world_size) -> [Ranks(world_size) \X Ranks(world_size) -> Slot]]
      /\ OwnSlots'
      /\ result' = "running" => /\ carried' = Wire(Through(carried)) /\ stage_idx' = stage_idx + 1
                                /\ stage_idx < world_size /\ stage_idx + 1 < world_size
      /\ result' # "running" => carried' = carried /\ stage_idx' = stage_idx
      /\ result' = "err" => backend = "tcp" \/ stage_idx + 1 >= world_size
      /\ result' = "panic" => backend = "private" \/ stage_idx >= world_size
  BY <1>1, <1>2, <1>4, <1>5, RelayFacts
<1>8. TypeOK'
  <2>1. carried' \in Data
    BY <1>2, <1>5, <1>7, DataTypes DEF TypeOK
  <2>2. stage_idx' \in Stages
    BY <1>4, <1>7
  <2> QED
    BY <1>1, <1>2, <1>6, <1>7, <2>1, <2>2 DEF TypeOK, Slot
<1>9. InHand'
  <2> SUFFICES ASSUME result' = "running" PROVE InHand'
    BY DEF InHand
  <2>1. carried' = Passed(stage_idx + 1)
    BY <1>3, <1>5, <1>7, PassedOn
  <2>2. carried' = Passed(stage_idx)'
    BY <1>1, <1>7, <2>1 DEF Passed
  <2>3. mb' # num_microbatches'
    BY <1>1, <1>2, <1>3
  <2> QED
    BY <1>1, <1>2, <1>4, <1>7, <2>2, <2>3 DEF InHand
<1>10. Progress'
  <2> SUFFICES ASSUME result' = "running" PROVE Progress'
    BY DEF Progress
  <2>1. stage_idx' = stage_idx + 1 /\ phase' = "forward" /\ mb' = mb
    BY <1>1, <1>2, <1>7
  <2>2. \A s \in Stages : s <= stage_idx <=> s < stage_idx'
    BY <1>3, <2>1
  <2>3. \A s \in Stages : Len(all_inputs'[s]) = IF s < stage_idx' THEN mb + 1 ELSE mb
    BY <1>6, <2>2
  <2> QED
    BY <1>1, <1>2, <1>6, <2>1, <2>3 DEF Progress
<1>11. Reached'
  BY <1>1, <1>2, <1>3, <1>7 DEF Inv, Reached
<1>12. FailsOnlyWithoutWorld'
  <2>1. stage_idx >= world_size => world_size = 0
    BY <1>2, <1>3 DEF Inv, Reached
  <2>2. stage_idx + 1 >= world_size => world_size < num_stages
    BY <1>1, <1>3
  <2> QED
    BY <1>2, <1>7, <2>1, <2>2 DEF FailsOnlyWithoutWorld
<1> QED
  BY <1>6, <1>7, <1>8, <1>9, <1>10, <1>11, <1>12 DEF Inv

LEMMA ForwardLastInv ==
  ASSUME Inv, ForwardLast
  PROVE  Inv'
<1>1. /\ At("forward") /\ stage_idx = num_stages - 1
      /\ all_inputs' = [all_inputs EXCEPT ![stage_idx] = Append(@, carried)]
      /\ outputs' = Append(outputs, Through(carried))
      /\ mb' = mb + 1 /\ stage_idx' = 0 /\ carried' = Fresh(<<run, mb + 1>>)
      /\ UNCHANGED <<fixed, num_microbatches, run, phase, backward_calls, mailboxes, result>>
  BY DEF ForwardLast
<1>2. /\ TypeOK /\ OwnSlots /\ result = "running" /\ num_stages > 0 /\ phase = "forward"
      /\ mb < num_microbatches
      /\ num_stages' = num_stages /\ world_size' = world_size /\ backend' = backend
      /\ Stages' = Stages
  BY <1>1 DEF Inv, At, fixed, Stages
<1>3. /\ mb \in Nat /\ num_stages \in Nat /\ world_size \in Nat /\ num_microbatches \in Nat
      /\ run \in Nat /\ \A s \in Stages : s \in Nat /\ s < num_stages
  BY <1>2, Parameters
<1>4. stage_idx \in Stages /\ 0 \in Stages
  BY <1>1, <1>2, <1>3 DEF Stages
<1>5. /\ all_inputs' \in [Stages -> Seq(Data)]
      /\ \A s \in Stages : Len(all_inputs'[s]) = IF s <= stage_idx THEN mb + 1 ELSE mb
      /\ \A s \in Stages : Len(backward_calls[s]) = 0
      /\ OwnActivations' /\ GradientChain'
  BY <1>1, <1>4, InputKept
<1>6. TypeOK'
  <2>1. outputs' \in Seq(Data)
    BY <1>1, <1>2, DataTypes, AppendProperties DEF TypeOK
  <2>2. carried' \in Data
    BY <1>1, <1>3, DataTypes
  <2>3. mb' \in 0 .. num_microbatches
    BY <1>1, <1>2, <1>3
  <2> QED
    BY <1>1, <1>2, <1>4, <1>5, <2>1, <2>2, <2>3 DEF TypeOK, Slot
<1>7. OwnSlots'
  BY <1>1, <1>2 DEF OwnSlots
<1>8. InHand'
  BY <1>1, <1>2, <1>4 DEF InHand, Passed, Fresh
<1>9. Progress'
  <2>1. \A s \in Stages : s <= stage_idx /\ ~(s < 0)
    BY <1>1, <1>3
  <2> QED
    BY <1>1, <1>2, <1>5, <2>1 DEF Progress
<1>10. Reached'
  <2>1. num_stages <= 1 \/ num_stages <= world_size
    BY <1>1, <1>2, <1>3 DEF Inv, Reached
  <2> QED
    BY <1>1, <1>2, <2>1 DEF Reached
<1>11. FailsOnlyWithoutWorld'
  BY <1>1, <1>2 DEF FailsOnlyWithoutWorld
<1> QED
  BY <1>5, <1>6, <1>7, <1>8, <1>9, <1>10, <1>11 DEF Inv

LEMMA TurnAroundInv ==
  ASSUME Inv, TurnAround
  PROVE  Inv'
<1>1. /\ result = "running" /\ num_stages > 0 /\ phase = "forward" /\ mb = num_microbatches
      /\ phase' = "backward" /\ mb' = 0 /\ stage_idx' = num_stages - 1
      /\ carried' = Fresh(<<run, 0>>)
      /\ UNCHANGED <<fixed, num_microbatches, run, all_inputs, outputs, backward_calls,
                     mailboxes, result>>
  BY DEF TurnAround
<1>2. /\ TypeOK /\ OwnSlots
      /\ num_stages' = num_stages /\ world_size' = world_size /\ backend' = backend
      /\ Stages' = Stages
  BY <1>1 DEF Inv, fixed, Stages
<1>3. /\ num_stages \in Nat /\ world_size \in Nat /\ num_microbatches \in Nat
      /\ run \in Nat /\ \A s \in Stages : s \in Nat /\ s < num_stages
  BY <1>2, Parameters
<1>4. num_stages - 1 \in Stages /\ stage_idx = 0
  BY <1>1, <1>3 DEF Stages, Inv, InHand
<1>5. \A s \in Stages : Len(all_inputs[s]) = num_microbatches /\ Len(backward_calls[s]) = 0
  BY <1>1, <1>3, <1>4 DEF Inv, Progress
<1>6. TypeOK'
  <2>1. carried' \in Data
    BY <1>1, <1>3, DataTypes
  <2>2. mb' \in 0 .. num_microbatches /\ stage_idx' \in Stages /\ phase' \in {"forward", "backward"}
    BY <1>1, <1>3, <1>4
  <2>3. UNCHANGED <<num_microbatches, run, all_inputs, outputs, backward_calls, mailboxes, result>>
    BY <1>1
  <2> QED
    BY <1>2, <2>1, <2>2, <2>3 DEF TypeOK
<1>7. OwnSlots'
  BY <1>1, <1>2 DEF OwnSlots
<1>8. InHand'
  <2>1. num_stages - 1 - (num_stages - 1) = 0
    BY <1>3
  <2> QED
    BY <1>1, <1>2, <1>4, <2>1 DEF InHand, Passed, Fresh
<1>9. Progress'
  <2>1. \A s \in Stages : ~(s > num_stages - 1)
    BY <1>3
  <2> QED
    BY <1>1, <1>2, <1>5, <2>1 DEF Progress
<1>10. Reached'
  BY <1>1, <1>2, <1>3 DEF Inv, Reached
<1>11. OwnActivations' /\ GradientChain' /\ FailsOnlyWithoutWorld'
  BY <1>1, <1>2 DEF Inv, OwnActivations, GradientChain, FailsOnlyWithoutWorld
<1> QED
  BY <1>6, <1>7, <1>8, <1>9, <1>10, <1>11 DEF Inv

\* A backward call.
LEMMA BackwardMade ==
  ASSUME Inv, At("backward"), stage_idx \in Stages, UNCHANGED <<fixed, run, all_inputs>>,
         backward_calls' = [backward_calls EXCEPT ![stage_idx] = Append(@, BackwardCall)]
  PROVE  /\ backward_calls' \in [Stages -> Seq(Call)]
         /\ \A s \in Stages : Len(backward_calls[s]) = IF s > stage_idx THEN mb + 1 ELSE mb
         /\ \A s \in Stages : Len(backward_calls'[s]) = IF s >= stage_idx THEN mb + 1 ELSE mb
         /\ \A s \in Stages : Len(all_inputs[s]) = num_microbatches
         /\ OwnActivations' /\ GradientChain'
<1>1. /\ TypeOK /\ result = "running" /\ num_stages > 0 /\ phase = "backward"
      /\ GradientChain /\ mb < num_microbatches /\ Stages' = Stages /\ num_stages' = num_stages
  BY DEF Inv, At, fixed, Stages
<1>2. /\ mb \in Nat /\ num_microbatches \in Nat /\ stage_idx \in Nat /\ num_stages \in Nat
      /\ \A s \in Stages : s \in Nat
  BY <1>1, Parameters
<1>3. carried = [mb |-> <<run, mb>>, hops |-> num_stages - 1 - stage_idx,
                 fp8 |-> num_stages - 1 - stage_idx]
  BY <1>1 DEF Inv, InHand, Passed
<1>4. \A s \in Stages : /\ Len(backward_calls[s]) = IF s > stage_idx THEN mb + 1 ELSE mb
                        /\ Len(all_inputs[s]) = num_microbatches
  BY <1>1 DEF Inv, Progress
<1>5. BackwardCall \in Call
  <2>1. all_inputs[stage_idx] \in Seq(Data) /\ carried \in Data
    BY <1>1 DEF TypeOK
  <2>2. mb + 1 \in 1 .. Len(all_inputs[stage_idx])
    BY <1>1, <1>2, <1>4
  <2>3. all_inputs[stage_idx][mb + 1] \in Data
    BY <2>1, <2>2, ElementOfSeq
  <2> QED
    BY <2>1, <2>3 DEF BackwardCall, Call
<1>6. backward_calls \in [Stages -> Seq(Call)]
  BY <1>1 DEF TypeOK, Call
<1>7. /\ backward_calls' \in [Stages -> Seq(Call)]
      /\ \A s \in Stages : Len(backward_calls'[s]) = IF s = stage_idx THEN Len(backward_calls[s]) + 1
                                                     ELSE Len(backward_calls[s])
      /\ \A s \in Stages : \A i \in 1 .. Len(backward_calls[s]) :
           backward_calls'[s][i] = backward_calls[s][i]
      /\ backward_calls'[stage_idx][Len(backward_calls[stage_idx]) + 1] = BackwardCall
  BY <1>5, <1>6, AppendAt
<1>8. \A s \in Stages : Len(backward_calls'[s]) = IF s >= stage_idx THEN mb + 1 ELSE mb
  BY <1>2, <1>4, <1>7
<1>9. GradientChain'
  <2> SUFFICES ASSUME NEW s \in Stages, NEW i \in 1 .. Len(backward_calls'[s])
               PROVE  backward_calls'[s][i] =
                        [input |-> all_inputs[s][i],
                         grad |-> [mb |-> <<run, i - 1>>, hops |-> num_stages - 1 - s,
                                   fp8 |-> num_stages - 1 - s]]
    BY <1>1 DEF GradientChain
  <2>1. CASE i \in 1 .. Len(backward_calls[s])
    BY <1>1, <1>7, <2>1 DEF GradientChain
  <2>2. CASE i \notin 1 .. Len(backward_calls[s])
    <3>1. s = stage_idx /\ i = Len(backward_calls[s]) + 1 /\ Len(backward_calls[s]) = mb
      BY <1>2, <1>4, <1>7, <2>2
    <3>2. i = mb + 1 /\ i - 1 = mb
      BY <1>2, <3>1
    <3>3. BackwardCall = [input |-> all_inputs[s][i], grad |-> carried]
      BY <3>1, <3>2 DEF BackwardCall
    <3> QED
      BY <1>3, <1>7, <3>1, <3>2, <3>3
  <2> QED
    BY <2>1, <2>2
<1>10. OwnActivations'
  BY <1>1 DEF Inv, OwnActivations
<1> QED
  BY <1>4, <1>7, <1>8, <1>9, <1>10

LEMMA BackwardAndRelayInv ==
  ASSUME Inv, BackwardAndRelay
  PROVE  Inv'
<1>1. /\ At("backward") /\ stage_idx > 0
      /\ backward_calls' = [backward_calls EXCEPT ![stage_idx] = Append(@, BackwardCall)]
      /\ Relay(stage_idx - 1, Through(carried))
      /\ UNCHANGED <<fixed, num_microbatches, run, phase, mb, all_inputs, outputs>>
  BY DEF BackwardAndRelay
<1>2. /\ TypeOK /\ OwnSlots /\ result = "running" /\ num_stages > 0 /\ phase = "backward"
      /\ mb < num_microbatches
      /\ num_stages' = num_stages /\ world_size' = world_size /\ backend' = backend
      /\ Stages' = Stages
  BY <1>1 DEF Inv, At, fixed, Stages
<1>3. /\ mb \in Nat /\ num_stages \in Nat /\ world_size \in Nat /\ stage_idx \in Nat
      /\ num_microbatches \in Nat
      /\ \A s \in Stages : s \in Nat /\ s < num_stages
  BY <1>2, Parameters
<1>4. stage_idx \in Stages
  BY <1>2 DEF Inv, InHand
<1>5. /\ stage_idx - 1 \in Stages /\ stage_idx - 1 # stage_idx /\ stage_idx < num_stages
      /\ num_stages - 1 - stage_idx \in Nat
      /\ num_stages - 1 - (stage_idx - 1) = (num_stages - 1 - stage_idx) + 1
  BY <1>1, <1>3, <1>4 DEF Stages
<1>6. carried = Passed(num_stages - 1 - stage_idx) /\ Through(carried) \in Data
  BY <1>1, <1>2, DataTypes DEF Inv, InHand, TypeOK
<1>7. /\ backward_calls' \in [Stages -> Seq(Call)]
      /\ \A s \in Stages : Len(backward_calls'[s]) = IF s >= stage_idx THEN mb + 1 ELSE mb
      /\ \A s \in Stages : Len(all_inputs[s]) = num_microbatches
      /\ OwnActivations' /\ GradientChain'
  BY <1>1, <1>4, BackwardMade
<1>8. /\ result' \in {"running", "err", "panic"}
      /\ mailboxes' \in [Ranks(world_size) -> [Ranks(world_size) \X Ranks(world_size) -> Slot]]
      /\ OwnSlots'
      /\ result' = "running" => /\ carried' = Wire(Through(carried)) /\ stage_idx' = stage_idx - 1
                                /\ stage_idx < world_size /\ stage_idx - 1 < world_size
      /\ result' # "running" => carried' = carried /\ stage_idx' = stage_idx
      /\ result' = "err" => backend = "tcp" \/ stage_idx - 1 >= world_size
      /\ result' = "panic" => backend = "private" \/ stage_idx >= world_size
  BY <1>1, <1>2, <1>4, <1>5, <1>6, RelayFacts
<1>9. TypeOK'
  <2>1. carried' \in Data
    BY <1>2, <1>6, <1>8, DataTypes DEF TypeOK
  <2>2. stage_idx' \in Stages
    BY <1>4, <1>5, <1>8
  <2> QED
    BY <1>1, <1>2, <1>7, <1>8, <2>1, <2>2 DEF TypeOK, Slot, Call
<1>10. InHand'
  <2> SUFFICES ASSUME result' = "running" PROVE InHand'
    BY DEF InHand
  <2>1. carried' = Passed((num_stages - 1 - stage_idx) + 1)
    BY <1>5, <1>6, <1>8, PassedOn
  <2>2. carried' = Passed(num_stages - 1 - (stage_idx - 1))
    BY <1>5, <2>1
  <2>3. carried' = Passed(num_stages - 1 - stage_idx)'
    BY <1>1, <1>2, <1>8, <2>2 DEF Passed
  <2>4. mb' # num_microbatches'
    BY <1>1, <1>2, <1>3
  <2> QED
    BY <1>1, <1>2, <1>5, <1>8, <2>3, <2>4 DEF InHand
<1>11. Progress'
  <2> SUFFICES ASSUME result' = "running" PROVE Progress'
    BY DEF Progress
  <2>1. stage_idx' = stage_idx - 1 /\ phase' = "backward" /\ mb' = mb
    BY <1>1, <1>2, <1>8
  <2>2. \A s \in Stages : s >= stage_idx <=> s > stage_idx'
    BY <1>3, <2>1
  <2>3. \A s \in Stages : Len(backward_calls'[s]) = IF s > stage_idx' THEN mb + 1 ELSE mb
    BY <1>7, <2>2
  <2> QED
    BY <1>1, <1>2, <1>7, <2>1, <2>3 DEF Progress
<1>12. num_stages <= world_size
  BY <1>1, <1>2, <1>3, <1>5 DEF Inv, Reached
<1>13. Reached'
  BY <1>1, <1>2, <1>12 DEF Reached
<1>14. FailsOnlyWithoutWorld'
  <2>1. ~(stage_idx >= world_size) /\ ~(stage_idx - 1 >= world_size)
    BY <1>3, <1>5, <1>12
  <2> QED
    BY <1>2, <1>8, <2>1 DEF FailsOnlyWithoutWorld
<1> QED
  BY <1>7, <1>8, <1>9, <1>10, <1>11, <1>13, <1>14 DEF Inv

LEMMA BackwardFirstInv ==
  ASSUME Inv, BackwardFirst
  PROVE  Inv'
<1>1. /\ At("backward") /\ stage_idx = 0
      /\ backward_calls' = [backward_calls EXCEPT ![stage_idx] = Append(@, BackwardCall)]
      /\ mb' = mb + 1 /\ stage_idx' = num_stages - 1 /\ carried' = Fresh(<<run, mb + 1>>)
      /\ UNCHANGED <<fixed, num_microbatches, run, phase, all_inputs, outputs, mailboxes, result>>
  BY DEF BackwardFirst
<1>2. /\ TypeOK /\ OwnSlots /\ result = "running" /\ num_stages > 0 /\ phase = "backward"
      /\ mb < num_microbatches
      /\ num_stages' = num_stages /\ world_size' = world_size /\ backend' = backend
      /\ Stages' = Stages
  BY <1>1 DEF Inv, At, fixed, Stages
<1>3. /\ mb \in Nat /\ num_stages \in Nat /\ world_size \in Nat /\ num_microbatches \in Nat
      /\ run \in Nat /\ \A s \in Stages : s \in Nat /\ s < num_stages
  BY <1>2, Parameters
<1>4. stage_idx \in Stages /\ num_stages - 1 \in Stages /\ num_stages - 1 - (num_stages - 1) = 0
  BY <1>1, <1>2, <1>3 DEF Stages
<1>5. /\ backward_calls' \in [Stages -> Seq(Call)]
      /\ \A s \in Stages : Len(backward_calls'[s]) = IF s >= stage_idx THEN mb + 1 ELSE mb
      /\ \A s \in Stages : Len(all_inputs[s]) = num_microbatches
      /\ OwnActivations' /\ GradientChain'
  BY <1>1, <1>4, BackwardMade
<1>6. TypeOK'
  <2>1. carried' \in Data
    BY <1>1, <1>3, DataTypes
  <2>2. mb' \in 0 .. num_microbatches
    BY <1>1, <1>2, <1>3
  <2> QED
    BY <1>1, <1>2, <1>4, <1>5, <2>1, <2>2 DEF TypeOK, Call
<1>7. OwnSlots'
  BY <1>1, <1>2 DEF OwnSlots
<1>8. InHand'
  BY <1>1, <1>2, <1>4 DEF InHand, Passed, Fresh
<1>9. Progress'
  <2>1. \A s \in Stages : s >= stage_idx /\ ~(s > num_stages - 1)
    BY <1>1, <1>3
  <2> QED
    BY <1>1, <1>2, <1>5, <2>1 DEF Progress
<1>10. Reached'
  BY <1>1, <1>2, <1>3 DEF Inv, Reached
<1>11. FailsOnlyWithoutWorld'
  BY <1>1, <1>2 DEF FailsOnlyWithoutWorld
<1> QED
  BY <1>5, <1>6, <1>7, <1>8, <1>9, <1>10, <1>11 DEF Inv

LEMMA ReturnInv ==
  ASSUME Inv, Return
  PROVE  Inv'
<1>1. /\ result' = "ok"
      /\ UNCHANGED <<fixed, num_microbatches, run, locals, mailboxes>>
  BY DEF Return
<1>2. /\ num_stages' = num_stages /\ world_size' = world_size /\ backend' = backend
      /\ Stages' = Stages
      /\ UNCHANGED <<phase, mb, stage_idx, carried, all_inputs, outputs, backward_calls>>
  BY <1>1 DEF fixed, locals, Stages
<1>3. TypeOK' /\ OwnSlots'
  <2>1. /\ UNCHANGED <<num_stages, world_size, backend, num_microbatches, run, mailboxes>>
        /\ Stages' = Stages
    BY <1>1, <1>2
  <2>2. TypeOK'
    BY <1>1, <1>2, <2>1 DEF Inv, TypeOK
  <2>3. OwnSlots'
    BY <2>1 DEF Inv, OwnSlots
  <2> QED
    BY <2>2, <2>3
<1>4. OwnActivations' /\ GradientChain'
  BY <1>1, <1>2 DEF Inv, OwnActivations, GradientChain
<1>5. InHand' /\ Progress' /\ Reached' /\ FailsOnlyWithoutWorld'
  BY <1>1 DEF InHand, Progress, Reached, FailsOnlyWithoutWorld
<1> QED
  BY <1>3, <1>4, <1>5 DEF Inv

LEMMA RunAgainInv ==
  ASSUME Inv, RunAgain
  PROVE  Inv'
<1>1. /\ run < MaxRuns /\ run' = run + 1
      /\ num_microbatches' \in MicrobatchCounts
      /\ phase' = "forward" /\ mb' = 0 /\ stage_idx' = 0 /\ carried' = Fresh(<<run + 1, 0>>)
      /\ all_inputs' = [s \in Stages |-> <<>>] /\ outputs' = <<>>
      /\ backward_calls' = [s \in Stages |-> <<>>]
      /\ result' = "running" /\ UNCHANGED <<fixed, mailboxes>>
  BY DEF RunAgain
<1>2. /\ TypeOK /\ OwnSlots
      /\ num_stages' = num_stages /\ world_size' = world_size /\ backend' = backend
      /\ Stages' = Stages
  BY <1>1 DEF Inv, fixed, Stages
<1>3. /\ num_stages \in Nat /\ world_size \in Nat /\ run \in Nat /\ MaxRuns \in Nat
      /\ num_microbatches' \in Nat
  BY <1>1, <1>2, Parameters, GPipeAssumption
<1>4. <<>> \in Seq(Data) /\ <<>> \in Seq(Call) /\ Len(<<>>) = 0
  BY EmptySeq
<1>5. \A s \in Stages : /\ all_inputs'[s] = <<>> /\ backward_calls'[s] = <<>>
                        /\ Len(all_inputs'[s]) = 0 /\ Len(backward_calls'[s]) = 0
  BY <1>1, <1>4
<1>6. TypeOK'
  <2>1. carried' \in Data
    BY <1>1, <1>3, DataTypes
  <2>2. all_inputs' \in [Stages -> Seq(Data)] /\ backward_calls' \in [Stages -> Seq(Call)]
    BY <1>1, <1>4
  <2>3. run' \in 1 .. MaxRuns /\ mb' \in 0 .. num_microbatches'
    BY <1>1, <1>3
  <2> QED
    BY <1>1, <1>2, <1>4, <2>1, <2>2, <2>3 DEF TypeOK, Call
<1>7. OwnSlots'
  BY <1>1, <1>2 DEF OwnSlots
<1>8. InHand'
  BY <1>1, <1>2, <1>3 DEF InHand, Passed, Fresh, Stages
<1>9. Progress'
  <2>1. \A s \in Stages : ~(s < 0)
    BY <1>3 DEF Stages
  <2> QED
    BY <1>1, <1>2, <1>5, <2>1 DEF Progress
<1>10. Reached'
  BY <1>1, <1>3 DEF Reached
<1>11. OwnActivations' /\ GradientChain'
  <2>1. \A s \in Stages : 1 .. Len(all_inputs'[s]) = {} /\ 1 .. Len(backward_calls'[s]) = {}
    BY <1>5
  <2> QED
    BY <1>2, <2>1 DEF OwnActivations, GradientChain
<1>12. FailsOnlyWithoutWorld'
  BY <1>1 DEF FailsOnlyWithoutWorld
<1> QED
  BY <1>6, <1>7, <1>8, <1>9, <1>10, <1>11, <1>12 DEF Inv

LEMMA SameInv ==
  ASSUME Inv, UNCHANGED vars
  PROVE  Inv'
<1>1. /\ UNCHANGED <<num_stages, world_size, backend, num_microbatches, run, mailboxes, result>>
      /\ UNCHANGED <<phase, mb, stage_idx, carried, all_inputs, outputs, backward_calls>>
      /\ Stages' = Stages
  BY DEF vars, fixed, locals, Stages
<1>2. TypeOK' /\ OwnSlots'
  <2>1. TypeOK'
    BY <1>1 DEF Inv, TypeOK
  <2>2. OwnSlots'
    BY <1>1 DEF Inv, OwnSlots
  <2> QED
    BY <2>1, <2>2
<1>3. InHand' /\ Progress' /\ Reached' /\ FailsOnlyWithoutWorld'
  BY <1>1 DEF Inv, InHand, Passed, Progress, Reached, FailsOnlyWithoutWorld
<1>4. OwnActivations' /\ GradientChain'
  BY <1>1 DEF Inv, OwnActivations, GradientChain
<1> QED
  BY <1>2, <1>3, <1>4 DEF Inv

LEMMA NextInv == Inv /\ [Next]_vars => Inv'
<1> SUFFICES ASSUME Inv, [Next]_vars PROVE Inv'
  OBVIOUS
<1> QED
  BY ForwardAndRelayInv, ForwardLastInv, TurnAroundInv, BackwardAndRelayInv, BackwardFirstInv,
     ReturnInv, RunAgainInv, SameInv DEF Next, Execute

LEMMA Inductive == Spec => []Inv
BY InitInv, NextInv, PTL DEF Spec

\* The types of a run.
THEOREM TypeCorrect == Spec => []TypeOK
<1>1. Inv => TypeOK
  BY DEF Inv
<1> QED
  BY <1>1, Inductive, PTL

\* Every stage is given its own micro-batch of this run, after exactly the stages
\* and the FP8 round trips before it (gpipe.rs: the receive after the send).
THEOREM RightActivations == Spec => []OwnActivations
<1>1. Inv => OwnActivations
  BY DEF Inv
<1> QED
  BY <1>1, Inductive, PTL

\* Backward runs on the input of that micro-batch and on a gradient that came all
\* the way from the last stage (gpipe.rs: the second loop).
THEOREM RightGradients == Spec => []GradientChain
<1>1. Inv => GradientChain
  BY DEF Inv
<1> QED
  BY <1>1, Inductive, PTL

\* A run fails only for want of communicators that share their slots (gpipe.rs,
\* mock.rs: the bound tests, the empty slot).
THEOREM FailsForWantOfWorld == Spec => []FailsOnlyWithoutWorld
<1>1. Inv => FailsOnlyWithoutWorld
  BY DEF Inv
<1> QED
  BY <1>1, Inductive, PTL
------------------------------------------------------------------------------
(* The schedule implements Pipeline.                                       *)

\* The cells computed, by their counts: a prefix of the micro-batches of each stage.
CellsByCount ==
  /\ ForwardCells = {c \in Stages \X Nat : c[2] < Len(all_inputs[c[1]])}
  /\ BackwardCells = {c \in Stages \X Nat : c[2] < Len(backward_calls[c[1]])}

LEMMA CellsRun == Inv => CellsByCount
<1> SUFFICES ASSUME Inv PROVE CellsByCount
  OBVIOUS
<1>1. \A s \in Stages : /\ Len(all_inputs[s]) \in Nat
                        /\ DOMAIN all_inputs[s] = 1 .. Len(all_inputs[s])
                        /\ Len(backward_calls[s]) \in Nat
                        /\ DOMAIN backward_calls[s] = 1 .. Len(backward_calls[s])
  BY LenProperties DEF Inv, TypeOK
<1>2. ASSUME NEW s \in Stages, NEW i \in 1 .. Len(all_inputs[s])
      PROVE  all_inputs[s][i].mb[2] = i - 1
  <2>1. all_inputs[s][i] = [mb |-> <<run, i - 1>>, hops |-> s, fp8 |-> s]
    BY DEF Inv, OwnActivations
  <2> QED
    BY <2>1
<1>3. ASSUME NEW s \in Stages, NEW i \in 1 .. Len(backward_calls[s])
      PROVE  backward_calls[s][i].grad.mb[2] = i - 1
  <2> DEFINE grad == [mb |-> <<run, i - 1>>, hops |-> num_stages - 1 - s, fp8 |-> num_stages - 1 - s]
  <2>1. backward_calls[s][i] = [input |-> all_inputs[s][i], grad |-> grad]
    BY DEF Inv, GradientChain
  <2>2. backward_calls[s][i].grad = grad
    BY <2>1
  <2> QED
    BY <2>2
<1>4. ForwardCells = {c \in Stages \X Nat : c[2] < Len(all_inputs[c[1]])}
  <2>1. ASSUME NEW s \in Stages, NEW i \in 1 .. Len(all_inputs[s])
        PROVE  /\ <<s, all_inputs[s][i].mb[2]>> \in Stages \X Nat
               /\ all_inputs[s][i].mb[2] < Len(all_inputs[s])
    <3>1. i - 1 \in Nat /\ i - 1 < Len(all_inputs[s])
      BY <1>1
    <3> QED
      BY <1>2, <3>1
  <2>2. ASSUME NEW c \in Stages \X Nat, c[2] < Len(all_inputs[c[1]])
        PROVE  c[2] + 1 \in 1 .. Len(all_inputs[c[1]]) /\ c = <<c[1], all_inputs[c[1]][c[2] + 1].mb[2]>>
    <3>1. c[1] \in Stages /\ c[2] \in Nat /\ c = <<c[1], c[2]>>
      OBVIOUS
    <3>2. c[2] + 1 \in 1 .. Len(all_inputs[c[1]]) /\ (c[2] + 1) - 1 = c[2]
      BY <1>1, <2>2, <3>1
    <3>3. all_inputs[c[1]][c[2] + 1].mb[2] = (c[2] + 1) - 1
      BY <1>2, <3>1, <3>2
    <3> QED
      BY <3>1, <3>2, <3>3
  <2>3. ASSUME NEW c \in Stages \X Nat, c[2] < Len(all_inputs[c[1]])
        PROVE  c \in ForwardCells
    BY <1>1, <2>2, <2>3 DEF ForwardCells
  <2>4. ASSUME NEW c \in ForwardCells
        PROVE  c \in Stages \X Nat /\ c[2] < Len(all_inputs[c[1]])
    <3>1. PICK s \in Stages : c \in {<<s, all_inputs[s][i].mb[2]>> : i \in DOMAIN all_inputs[s]}
      BY DEF ForwardCells
    <3>2. PICK i \in 1 .. Len(all_inputs[s]) : c = <<s, all_inputs[s][i].mb[2]>>
      BY <1>1, <3>1
    <3> QED
      BY <2>1, <3>2
  <2> QED
    BY <2>3, <2>4
<1>5. BackwardCells = {c \in Stages \X Nat : c[2] < Len(backward_calls[c[1]])}
  <2>1. ASSUME NEW s \in Stages, NEW i \in 1 .. Len(backward_calls[s])
        PROVE  /\ <<s, backward_calls[s][i].grad.mb[2]>> \in Stages \X Nat
               /\ backward_calls[s][i].grad.mb[2] < Len(backward_calls[s])
    <3>1. i - 1 \in Nat /\ i - 1 < Len(backward_calls[s])
      BY <1>1
    <3> QED
      BY <1>3, <3>1
  <2>2. ASSUME NEW c \in Stages \X Nat, c[2] < Len(backward_calls[c[1]])
        PROVE  /\ c[2] + 1 \in 1 .. Len(backward_calls[c[1]])
               /\ c = <<c[1], backward_calls[c[1]][c[2] + 1].grad.mb[2]>>
    <3>1. c[1] \in Stages /\ c[2] \in Nat /\ c = <<c[1], c[2]>>
      OBVIOUS
    <3>2. c[2] + 1 \in 1 .. Len(backward_calls[c[1]]) /\ (c[2] + 1) - 1 = c[2]
      BY <1>1, <2>2, <3>1
    <3>3. backward_calls[c[1]][c[2] + 1].grad.mb[2] = (c[2] + 1) - 1
      BY <1>3, <3>1, <3>2
    <3> QED
      BY <3>1, <3>2, <3>3
  <2>3. ASSUME NEW c \in Stages \X Nat, c[2] < Len(backward_calls[c[1]])
        PROVE  c \in BackwardCells
    BY <1>1, <2>2, <2>3 DEF BackwardCells
  <2>4. ASSUME NEW c \in BackwardCells
        PROVE  c \in Stages \X Nat /\ c[2] < Len(backward_calls[c[1]])
    <3>1. PICK s \in Stages :
            c \in {<<s, backward_calls[s][i].grad.mb[2]>> : i \in DOMAIN backward_calls[s]}
      BY DEF BackwardCells
    <3>2. PICK i \in 1 .. Len(backward_calls[s]) : c = <<s, backward_calls[s][i].grad.mb[2]>>
      BY <1>1, <3>1
    <3> QED
      BY <2>1, <3>2
  <2> QED
    BY <2>3, <2>4
<1> QED
  BY <1>4, <1>5 DEF CellsByCount

\* One more input kept is one more cell run forward.
LEMMA ForwardRefines ==
  ASSUME Inv, Inv', At("forward"), stage_idx \in Stages,
         UNCHANGED <<fixed, num_microbatches, run, backward_calls>>,
         result' \in {"running", "err", "panic"},
         all_inputs' = [all_inputs EXCEPT ![stage_idx] = Append(@, carried)]
  PROVE  P!Next
<1>1. /\ TypeOK /\ result = "running" /\ mb < num_microbatches
      /\ num_stages' = num_stages /\ num_microbatches' = num_microbatches /\ Stages' = Stages
  BY DEF Inv, At, fixed, Stages
<1>2. /\ mb \in Nat /\ num_stages \in Nat /\ num_microbatches \in Nat /\ stage_idx \in Nat
      /\ \A s \in Stages : s \in Nat /\ s < num_stages
  BY <1>1, Parameters
<1>3. /\ \A s \in Stages : Len(all_inputs[s]) = IF s < stage_idx THEN mb + 1 ELSE mb
      /\ \A s \in Stages : Len(all_inputs'[s]) = IF s <= stage_idx THEN mb + 1 ELSE mb
  BY InputKept
<1>4. CellsByCount /\ CellsByCount'
  BY CellsRun, PTL
<1>5. /\ ForwardCells = {c \in Stages \X Nat : c[2] < Len(all_inputs[c[1]])}
      /\ ForwardCells' = {c \in Stages \X Nat : c[2] < Len(all_inputs'[c[1]])}
      /\ BackwardCells' = BackwardCells
  BY <1>1, <1>4 DEF CellsByCount
<1>6. <<stage_idx, mb>> \in P!Cells
  BY <1>1, <1>2 DEF P!Cells, Stages
<1>7. <<stage_idx, mb>> \notin ForwardCells
  BY <1>2, <1>3, <1>5
<1>8. stage_idx > 0 => <<stage_idx - 1, mb>> \in ForwardCells
  <2> SUFFICES ASSUME stage_idx > 0 PROVE <<stage_idx - 1, mb>> \in ForwardCells
    OBVIOUS
  <2>1. stage_idx - 1 \in Stages /\ stage_idx - 1 < stage_idx
    BY <1>2 DEF Stages
  <2>2. mb < Len(all_inputs[stage_idx - 1])
    BY <1>2, <1>3, <2>1
  <2> QED
    BY <1>2, <1>5, <2>1, <2>2
<1>9. ForwardCells' = ForwardCells \cup {<<stage_idx, mb>>}
  <2>1. ASSUME NEW c \in Stages \X Nat
        PROVE  c[2] < Len(all_inputs'[c[1]]) <=> c[2] < Len(all_inputs[c[1]]) \/ c = <<stage_idx, mb>>
    <3>1. c[1] \in Stages /\ c[2] \in Nat /\ c = <<c[1], c[2]>>
      OBVIOUS
    <3>2. c[1] \in Nat
      BY <1>2, <3>1
    <3> QED
      BY <1>2, <1>3, <3>1, <3>2
  <2>2. <<stage_idx, mb>> \in Stages \X Nat
    BY <1>2
  <2> QED
    BY <1>5, <2>1, <2>2
<1>10. P!Forward(stage_idx, mb)
  BY <1>1, <1>5, <1>7, <1>8, <1>9 DEF P!Forward, P!Failures
<1> QED
  BY <1>6, <1>10 DEF P!Next

\* One more backward call is one more cell run backward, after the stage behind it.
LEMMA BackwardRefines ==
  ASSUME Inv, Inv', At("backward"), stage_idx \in Stages,
         UNCHANGED <<fixed, num_microbatches, run, all_inputs>>,
         result' \in {"running", "err", "panic"},
         backward_calls' = [backward_calls EXCEPT ![stage_idx] = Append(@, BackwardCall)]
  PROVE  P!Next
<1>1. /\ TypeOK /\ result = "running" /\ mb < num_microbatches
      /\ num_stages' = num_stages /\ num_microbatches' = num_microbatches /\ Stages' = Stages
  BY DEF Inv, At, fixed, Stages
<1>2. /\ mb \in Nat /\ num_stages \in Nat /\ num_microbatches \in Nat /\ stage_idx \in Nat
      /\ \A s \in Stages : s \in Nat /\ s < num_stages
  BY <1>1, Parameters
<1>3. /\ \A s \in Stages : Len(backward_calls[s]) = IF s > stage_idx THEN mb + 1 ELSE mb
      /\ \A s \in Stages : Len(backward_calls'[s]) = IF s >= stage_idx THEN mb + 1 ELSE mb
      /\ \A s \in Stages : Len(all_inputs[s]) = num_microbatches
  BY BackwardMade
<1>4. CellsByCount /\ CellsByCount'
  BY CellsRun, PTL
<1>5. /\ ForwardCells = {c \in Stages \X Nat : c[2] < Len(all_inputs[c[1]])}
      /\ ForwardCells' = ForwardCells
      /\ BackwardCells = {c \in Stages \X Nat : c[2] < Len(backward_calls[c[1]])}
      /\ BackwardCells' = {c \in Stages \X Nat : c[2] < Len(backward_calls'[c[1]])}
  BY <1>1, <1>4 DEF CellsByCount
<1>6. <<stage_idx, mb>> \in P!Cells
  BY <1>1, <1>2 DEF P!Cells, Stages
<1>7. <<stage_idx, mb>> \in ForwardCells \ BackwardCells
  BY <1>1, <1>2, <1>3, <1>5
<1>8. stage_idx < num_stages - 1 => <<stage_idx + 1, mb>> \in BackwardCells
  <2> SUFFICES ASSUME stage_idx < num_stages - 1 PROVE <<stage_idx + 1, mb>> \in BackwardCells
    OBVIOUS
  <2>1. stage_idx + 1 \in Stages /\ stage_idx + 1 > stage_idx
    BY <1>2 DEF Stages
  <2>2. mb < Len(backward_calls[stage_idx + 1])
    BY <1>2, <1>3, <2>1
  <2> QED
    BY <1>2, <1>5, <2>1, <2>2
<1>9. BackwardCells' = BackwardCells \cup {<<stage_idx, mb>>}
  <2>1. ASSUME NEW c \in Stages \X Nat
        PROVE  c[2] < Len(backward_calls'[c[1]])
                 <=> c[2] < Len(backward_calls[c[1]]) \/ c = <<stage_idx, mb>>
    <3>1. c[1] \in Stages /\ c[2] \in Nat /\ c = <<c[1], c[2]>>
      OBVIOUS
    <3>2. c[1] \in Nat
      BY <1>2, <3>1
    <3> QED
      BY <1>2, <1>3, <3>1, <3>2
  <2>2. <<stage_idx, mb>> \in Stages \X Nat
    BY <1>2
  <2> QED
    BY <1>5, <2>1, <2>2
<1>10. P!Backward(stage_idx, mb)
  BY <1>1, <1>5, <1>7, <1>8, <1>9 DEF P!Backward, P!Failures
<1> QED
  BY <1>6, <1>10 DEF P!Next

\* Ok is returned when all cells are run.
LEMMA ReturnRefines ==
  ASSUME Inv, Inv', Return
  PROVE  P!Next
<1>1. /\ result = "running" /\ result' = "ok"
      /\ num_stages = 0 \/ (phase = "backward" /\ mb = num_microbatches)
      /\ UNCHANGED <<num_stages, num_microbatches, all_inputs, backward_calls>> /\ Stages' = Stages
  BY DEF Return, fixed, locals, Stages
<1>2. /\ num_stages \in Nat /\ num_microbatches \in Nat
      /\ \A s \in Stages : s \in Nat /\ s < num_stages
  BY Parameters DEF Inv
<1>3. CellsByCount /\ CellsByCount'
  BY CellsRun, PTL
<1>4. ForwardCells' = ForwardCells /\ BackwardCells' = BackwardCells
  BY <1>1, <1>3 DEF CellsByCount
<1>5. \A s \in Stages : /\ Len(all_inputs[s]) = num_microbatches
                        /\ Len(backward_calls[s]) = num_microbatches
  <2> SUFFICES ASSUME NEW s \in Stages
               PROVE  /\ Len(all_inputs[s]) = num_microbatches
                      /\ Len(backward_calls[s]) = num_microbatches
    OBVIOUS
  <2>1. num_stages > 0 /\ s \in Nat /\ s < num_stages
    BY <1>2
  <2>2. phase = "backward" /\ mb = num_microbatches
    BY <1>1, <2>1
  <2>3. stage_idx = num_stages - 1
    BY <1>1, <2>1, <2>2 DEF Inv, InHand
  <2>4. ~(s > stage_idx)
    BY <1>2, <2>1, <2>3
  <2> QED
    BY <1>1, <2>2, <2>4 DEF Inv, Progress
<1>6. P!Cells = {c \in Stages \X Nat : c[2] < num_microbatches}
  <2>1. 0 .. num_microbatches - 1 = {m \in Nat : m < num_microbatches}
    BY <1>2
  <2>2. P!Cells = Stages \X {m \in Nat : m < num_microbatches}
    BY <2>1 DEF P!Cells, Stages
  <2> QED
    BY <2>2
<1>7. ForwardCells = P!Cells /\ BackwardCells = P!Cells
  BY <1>3, <1>5, <1>6 DEF CellsByCount
<1> QED
  BY <1>1, <1>4, <1>7 DEF P!Next, P!Return

\* A new run begins with no cells.
LEMMA RunAgainRefines ==
  ASSUME Inv, Inv', RunAgain
  PROVE  P!Next
<1>1. /\ result \in {"ok", "err"} /\ result' = "running"
      /\ num_microbatches' \in MicrobatchCounts
      /\ all_inputs' = [s \in Stages |-> <<>>] /\ backward_calls' = [s \in Stages |-> <<>>]
      /\ num_stages' = num_stages /\ Stages' = Stages
  BY DEF RunAgain, fixed, Stages
<1>2. \A s \in Stages : Len(all_inputs'[s]) = 0 /\ Len(backward_calls'[s]) = 0
  BY <1>1, EmptySeq
<1>3. CellsByCount'
  BY CellsRun, PTL
<1>4. ForwardCells' = {} /\ BackwardCells' = {}
  <2>1. \A c \in Stages \X Nat : /\ ~(c[2] < Len(all_inputs'[c[1]]))
                                 /\ ~(c[2] < Len(backward_calls'[c[1]]))
    BY <1>2
  <2> QED
    BY <1>1, <1>3, <2>1 DEF CellsByCount
<1> QED
  BY <1>1, <1>4 DEF P!Next, P!RunAgain

\* Every run is a run of Pipeline with chained gradients: forwards in stage order,
\* backwards in the opposite order, Ok only when all is done; failed runs and
\* later ones included.
THEOREM Refinement == Spec => ImplementsPipeline
<1>1. Init => P!Init
  <2> SUFFICES ASSUME Init PROVE P!Init
    OBVIOUS
  <2>1. \A s \in Stages : Len(all_inputs[s]) = 0 /\ Len(backward_calls[s]) = 0
    BY EmptySeq DEF Init
  <2>2. CellsByCount
    BY InitInv, CellsRun
  <2>3. ForwardCells = {} /\ BackwardCells = {}
    <3>1. \A c \in Stages \X Nat : /\ ~(c[2] < Len(all_inputs[c[1]]))
                                   /\ ~(c[2] < Len(backward_calls[c[1]]))
      BY <2>1
    <3> QED
      BY <2>2, <3>1 DEF CellsByCount
  <2> QED
    BY <2>3 DEF Init, P!Init
<1>2. Inv /\ Inv' /\ [Next]_vars => [P!Next]_P!vars
  <2> SUFFICES ASSUME Inv, Inv', [Next]_vars PROVE P!Next \/ UNCHANGED P!vars
    BY DEF P!vars
  <2>0. At("forward") \/ At("backward") => stage_idx \in Stages
    BY DEF Inv, InHand, At
  <2>1. CASE ForwardAndRelay
    <3>1. /\ At("forward") /\ UNCHANGED <<fixed, num_microbatches, run, backward_calls>>
          /\ result' \in {"running", "err", "panic"}
          /\ all_inputs' = [all_inputs EXCEPT ![stage_idx] = Append(@, carried)]
      BY <2>1 DEF ForwardAndRelay, Relay, Outcome
    <3> QED
      BY <2>0, <3>1, ForwardRefines
  <2>2. CASE ForwardLast
    <3>1. /\ At("forward") /\ UNCHANGED <<fixed, num_microbatches, run, backward_calls>>
          /\ result' = "running"
          /\ all_inputs' = [all_inputs EXCEPT ![stage_idx] = Append(@, carried)]
      BY <2>2 DEF ForwardLast, At
    <3> QED
      BY <2>0, <3>1, ForwardRefines
  <2>3. CASE TurnAround
    <3>1. /\ UNCHANGED <<num_stages, num_microbatches, all_inputs, backward_calls, result>>
          /\ Stages' = Stages
      BY <2>3 DEF TurnAround, fixed, Stages
    <3> QED
      BY <3>1 DEF P!vars, ForwardCells, BackwardCells
  <2>4. CASE BackwardAndRelay
    <3>1. /\ At("backward") /\ UNCHANGED <<fixed, num_microbatches, run, all_inputs>>
          /\ result' \in {"running", "err", "panic"}
          /\ backward_calls' = [backward_calls EXCEPT ![stage_idx] = Append(@, BackwardCall)]
      BY <2>4 DEF BackwardAndRelay, Relay, Outcome
    <3> QED
      BY <2>0, <3>1, BackwardRefines
  <2>5. CASE BackwardFirst
    <3>1. /\ At("backward") /\ UNCHANGED <<fixed, num_microbatches, run, all_inputs>>
          /\ result' = "running" /\ stage_idx = 0
          /\ backward_calls' = [backward_calls EXCEPT ![0] = Append(@, BackwardCall)]
      BY <2>5 DEF BackwardFirst, At
    <3> QED
      BY <2>0, <3>1, BackwardRefines
  <2>6. CASE Return
    BY <2>6, ReturnRefines
  <2>7. CASE RunAgain
    BY <2>7, RunAgainRefines
  <2>8. CASE UNCHANGED vars
    BY <2>8 DEF vars, fixed, locals, P!vars, ForwardCells, BackwardCells, Stages
  <2> QED
    BY <2>1, <2>2, <2>3, <2>4, <2>5, <2>6, <2>7, <2>8 DEF Next, Execute
<1> QED
  BY <1>1, <1>2, Inductive, PTL DEF Spec, ImplementsPipeline, P!Spec
==============================================================================
