----------------------------- MODULE QueueLemmas -----------------------------
(* Which elements a queue holds after one joins at the end or the front one *)
(* leaves: the facts about sequences that the proofs of the components use. *)
EXTENDS Integers, Sequences, TLAPS

LEMMA AppendOccurs ==
    ASSUME NEW S, NEW s \in Seq(S), NEW t \in S, NEW u
    PROVE  (\E i \in DOMAIN Append(s, t) : Append(s, t)[i] = u)
              <=> (\E i \in DOMAIN s : s[i] = u) \/ u = t
<1>1. /\ DOMAIN s = 1 .. Len(s)
      /\ Len(s) \in Nat
      /\ DOMAIN Append(s, t) = 1 .. Len(s) + 1
      /\ Append(s, t)[Len(s) + 1] = t
      /\ \A i \in 1 .. Len(s) : Append(s, t)[i] = s[i]
  OBVIOUS
<1>2. \A i \in 1 .. Len(s) + 1 : i \in 1 .. Len(s) \/ i = Len(s) + 1
  BY <1>1
<1>3. Len(s) + 1 \in 1 .. Len(s) + 1 /\ \A i \in 1 .. Len(s) : i \in 1 .. Len(s) + 1
  BY <1>1
<1> QED
  BY <1>1, <1>2, <1>3, Zenon

(* The front element leaves; the others stay. *)
LEMMA TailOccurs ==
    ASSUME NEW S, NEW s \in Seq(S), s # <<>>, NEW u
    PROVE  (\E i \in DOMAIN s : s[i] = u)
              <=> (\E i \in DOMAIN Tail(s) : Tail(s)[i] = u) \/ u = Head(s)
<1>1. /\ DOMAIN s = 1 .. Len(s)
      /\ Len(s) \in Nat \ {0}
      /\ DOMAIN Tail(s) = 1 .. Len(s) - 1
      /\ Head(s) = s[1]
      /\ \A i \in 1 .. Len(s) - 1 : Tail(s)[i] = s[i + 1]
  OBVIOUS
<1>2. ASSUME NEW i \in 1 .. Len(s) PROVE i = 1 \/ i - 1 \in 1 .. Len(s) - 1
  BY <1>1
<1>3. ASSUME NEW i \in 1 .. Len(s), s[i] = u
      PROVE  (\E j \in 1 .. Len(s) - 1 : Tail(s)[j] = u) \/ u = Head(s)
  <2>1. CASE i = 1
    BY <1>1, <1>3, <2>1
  <2>2. CASE i - 1 \in 1 .. Len(s) - 1
    <3>1. Tail(s)[i - 1] = s[i]
      BY <1>1, <2>2
    <3> QED
      BY <1>3, <2>2, <3>1
  <2> QED
    BY <1>2, <2>1, <2>2
<1>4. ASSUME NEW j \in 1 .. Len(s) - 1, Tail(s)[j] = u
      PROVE  \E i \in 1 .. Len(s) : s[i] = u
  <2>1. j + 1 \in 1 .. Len(s) /\ s[j + 1] = u
    BY <1>1, <1>4
  <2> QED
    BY <2>1
<1>5. 1 \in 1 .. Len(s)
  BY <1>1
<1> QED
  BY <1>1, <1>3, <1>4, <1>5

(* ... and if no element is there twice, the one that left is gone. *)
LEMMA HeadLeaves ==
    ASSUME NEW S, NEW s \in Seq(S), s # <<>>,
           \A i, j \in DOMAIN s : s[i] = s[j] => i = j
    PROVE  \A i \in DOMAIN Tail(s) : Tail(s)[i] # Head(s)
<1>1. /\ DOMAIN s = 1 .. Len(s)
      /\ Len(s) \in Nat \ {0}
      /\ DOMAIN Tail(s) = 1 .. Len(s) - 1
      /\ Head(s) = s[1]
      /\ \A i \in 1 .. Len(s) - 1 : Tail(s)[i] = s[i + 1]
  OBVIOUS
<1>2. ASSUME NEW i \in 1 .. Len(s) - 1
      PROVE  1 \in 1 .. Len(s) /\ i + 1 \in 1 .. Len(s) /\ i + 1 # 1
  BY <1>1
<1> QED
  BY <1>1, <1>2
=============================================================================
