---------------------------- MODULE WatchLemmas ----------------------------
(***************************************************************************)
(* What the proofs need about an informer: a cache and the sequence of     *)
(* events that are on their way to it.  The operator writes to the API     *)
(* server only, and every write is followed by its event, so the last      *)
(* event, or the cache if there is none, always shows the object as it is. *)
(***************************************************************************)
EXTENDS Naturals, Sequences, SequenceTheorems, TLAPS

(* What a cache will show once it has received the events  s . *)
Latest(s, cache) == IF s = <<>> THEN cache ELSE s[Len(s)]

(* The event of a write becomes the latest one. *)
LEMMA LatestAppend ==
    ASSUME NEW S, NEW s \in Seq(S), NEW e \in S, NEW cache
    PROVE  /\ Append(s, e) \in Seq(S) /\ Append(s, e) # <<>>
           /\ Latest(Append(s, e), cache) = e
  BY DEF Latest

(* Dropping the first event does not change the latest one... *)
LEMMA LatestShift ==
    ASSUME NEW S, NEW s \in Seq(S), s # <<>>, NEW t \in Seq(S), NEW cache,
           Len(t) = Len(s) - 1, \A i \in 1..Len(t) : t[i] = s[i + 1]
    PROVE  Latest(t, s[1]) = Latest(s, cache)
<1>1. Len(s) \in Nat \ {0} /\ Len(t) \in Nat
  BY EmptySeq, LenProperties
<1>2. CASE t = <<>>
  BY <1>1, <1>2 DEF Latest
<1>3. CASE t # <<>>
  BY <1>1, <1>3, EmptySeq DEF Latest
<1>4. QED
  BY <1>2, <1>3

(* ... so the delivery of an event changes the cache, not what it will show. *)
LEMMA LatestTail ==
    ASSUME NEW S, NEW s \in Seq(S), s # <<>>, NEW cache
    PROVE  /\ Head(s) \in S /\ Tail(s) \in Seq(S)
           /\ Latest(Tail(s), Head(s)) = Latest(s, cache)
<1>1. /\ Head(s) \in S /\ Tail(s) \in Seq(S) /\ Len(Tail(s)) = Len(s) - 1
      /\ \A i \in 1..Len(Tail(s)) : Tail(s)[i] = s[i + 1]
  BY HeadTailProperties
<1>2. Head(s) = s[1]
  OBVIOUS
<1>3. QED
  BY <1>1, <1>2, LatestShift, Zenon

(* Without events the cache shows what it shows. *)
LEMMA LatestEmpty ==
    ASSUME NEW cache
    PROVE  Latest(<<>>, cache) = cache
  BY DEF Latest

(* An event of a sequence is the first one or comes after it. *)
LEMMA HeadOrTail ==
    ASSUME NEW S, NEW s \in Seq(S), s # <<>>
    PROVE  /\ s[1] = Head(s)
           /\ \A i \in DOMAIN s : i # 1 => i - 1 \in DOMAIN Tail(s) /\ s[i] = Tail(s)[i - 1]
           /\ \A i \in DOMAIN Tail(s) : i + 1 \in DOMAIN s /\ Tail(s)[i] = s[i + 1]
  OBVIOUS

(* The events before a write are still there after it. *)
LEMMA AppendKeeps ==
    ASSUME NEW S, NEW s \in Seq(S), NEW e \in S
    PROVE  /\ \A i \in DOMAIN s : i \in DOMAIN Append(s, e) /\ Append(s, e)[i] = s[i]
           /\ Len(s) + 1 \in DOMAIN Append(s, e) /\ Append(s, e)[Len(s) + 1] = e
  OBVIOUS
=============================================================================
