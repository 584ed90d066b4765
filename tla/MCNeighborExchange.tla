-------------------------- MODULE MCNeighborExchange --------------------------
(***************************************************************************)
(* NeighborExchange for TLC: worlds of up to 2 ranks that make up to 2     *)
(* calls each, on tori that are smaller than the world, as large as it and *)
(* larger, with axes of one, two and three nodes.  What the collectives of *)
(* the same communicator answer, for words of two bytes and of 16 values.  *)
(***************************************************************************)
EXTENDS NeighborExchange

MCWorldSizes == 1 .. 2
MCDimensions == {<<1, 1>>, <<2, 1>>, <<1, 3>>, <<1, 1, 2>>}
MCMaxCalls == 2

C == INSTANCE Collectives WITH WordBytes <- 2, Modulus <- 16

Payloads == [words : {<<>>, <<3>>, <<7>>, <<2, 5>>, <<1, 2, 4>>, <<1, 9, 3>>}, tail : {0, 1}]

\* The chunks the ranks keep of a reduction are consecutive pieces of it, which
\* leave out fewer bytes than there are ranks; where the ranks share out the
\* words evenly every chunk begins with a whole word and nothing is left out.
ASSUME ScatterShares ==
  \A payload \in Payloads, n \in 1 .. 3 :
    LET whole == C!apply_reduce("Sum", n, payload)
        kept(rank) == C!perform_collective("ReduceScatter", payload, rank, n, FALSE)
        chunks == C!FlattenSeq([k \in 1 .. n |-> kept(k - 1).bytes])
    IN  /\ \A rank \in 0 .. n - 1 : kept(rank).is = "ok"
        /\ C!IsPrefix(chunks, whole) /\ Len(whole) - Len(chunks) < n
        /\ Len(payload.words) % n = 0 =>
             /\ chunks = whole
             /\ \A rank \in 0 .. n - 1 : kept(rank).bytes # <<>> => kept(rank).bytes[1].place = 0

\* The mean of equal words is that word, but where their sum is too large for
\* one: there a build that checks arithmetic panics, and another is wrong.
ASSUME MeanOfEqualWords ==
  \A n \in 1 .. 4, word \in 0 .. 15 :
    LET mean == C!all_reduce("Mean", n, [words |-> <<word>>, tail |-> 0], TRUE)
    IN  /\ (C!reduce("Mean", C!Copies(n, word)) = word) = (n * word < 16)
        /\ mean = IF n * word < 16 THEN C!Ok(C!WordsToBytes(<<word>>)) ELSE C!Panic

\* What a rank is answered is the sum of what two ranks pass if both pass the same
\* word, and only then (below half the values of a word).
ASSUME SumOfEqualWordsOnly ==
  \A own, other \in 0 .. 7 :
    (C!apply_reduce("Sum", 2, [words |-> <<own>>, tail |-> 0]) = C!WordsToBytes(<<own + other>>))
      = (own = other)

\* Rank 0, the root of perform_collective, is in every world; another root is
\* refused by all ranks alike, and route_collective then answers nothing.
ASSUME RootOutside ==
  \A payload \in Payloads, n \in 1 .. 3 :
    /\ C!perform_collective("Broadcast", payload, n - 1, n, TRUE) = C!Ok(C!Bytes(payload))
    /\ C!unwrap_or_default(C!broadcast(payload, n, n)) = C!Ok(<<>>)
==============================================================================
