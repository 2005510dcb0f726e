----------------------------- MODULE Detectors -----------------------------
(***************************************************************************)
(* The detectors that remember earlier writes (detectors/write_rate.py and *)
(* detectors/drift.py) and the query the second one is the streaming form  *)
(* of (query/drift.py).                                                    *)
(*                                                                         *)
(* An embedding has two components here, natural numbers, and length Norm  *)
(* or zero, so that the cosine is exact: the thresholds are compared       *)
(* multiplied out, the second one squared.  (HashingEmbedder's have 256,   *)
(* none negative: they count words.)  The five trust levels fall into two  *)
(* classes, trusted and suspect.                                           *)
(***************************************************************************)
EXTENDS SequencesExt, Integers

CONSTANTS
    Source,          \* the sources of writes
    TrustedSource,   \* those whose trust level is trusted or system
    Text,            \* the contents written
    Embed,           \* the embedding of each
    Norm,            \* the length of an embedding that is not zero
    WindowSeconds, MaxWrites   \* the thresholds of the rate detector

Dot(v, w) == v[1] * w[1] + v[2] * w[2]

ASSUME EmbedAssumption ==
    /\ TrustedSource \subseteq Source
    /\ Norm \in Nat \ {0}
    /\ Embed \in [Text -> Nat \X Nat]
    /\ \A t \in Text : Dot(Embed[t], Embed[t]) \in {0, Norm * Norm}

ASSUME RateAssumption == WindowSeconds \in Nat /\ MaxWrites \in Nat

-----------------------------------------------------------------------------
(* WriteRateDetector.inspect, for one (namespace, source) *)

\* Mutant: only the oldest entry is dropped.
SlideOnce(window, now) ==
    LET w == Append(window, now)
    IN  IF now - w[1] > WindowSeconds THEN Tail(w) ELSE w

\* The deque after a write: the old entries are popped from the left, up to
\* the first one inside the window.
Slide(window, now) ==
    LET w == Append(window, now)
        keep == CHOOSE i \in 1..Len(w) :
                    /\ now - w[i] <= WindowSeconds
                    /\ \A j \in 1..(i - 1) : now - w[j] > WindowSeconds
    IN  SubSeq(w, keep, Len(w))

IsBurst(window) == Len(window) > MaxWrites

-----------------------------------------------------------------------------
(* DriftDetector.inspect, for one namespace, and drift *)

\* cosine(a, b) >= 0.5
SameTopic(v, w) == 2 * Dot(v, w) >= Norm * Norm

VectorSum(vs) ==
    FoldLeft(LAMBDA sum, v : <<sum[1] + v[1], sum[2] + v[2]>>, <<0, 0>>, vs)

\* cosine(v, centroid(vs)) < 0.8: the centroid has the direction of the sum.
Contradicts(v, vs) ==
    LET c == VectorSum(vs)
    IN  25 * Dot(v, c) * Dot(v, c) < 16 * Norm * Norm * Dot(c, c)

\* The places in I up to which there are k of them: one place, for a set of numbers.
Ranked(I, k) == {i \in I : Cardinality({j \in I : j <= i}) = k}

\* The items of s at the places in I, in their order.
ItemsAt(s, I) == [k \in 1..Cardinality(I) |-> s[CHOOSE i \in Ranked(I, k) : TRUE]]

Neighbors(trusted, v) ==
    ItemsAt(trusted, {i \in 1..Len(trusted) : SameTopic(trusted[i], v)})

FlagsDrift(trusted, src, v) ==
    LET neighbors == Neighbors(trusted, v)
    IN  src \notin TrustedSource /\ neighbors # <<>> /\ Contradicts(v, neighbors)

\* Mutant: every write joins the consensus.
RememberAll(trusted, src, v) == Append(trusted, v)

Remember(trusted, src, v) ==
    IF src \in TrustedSource THEN Append(trusted, v) ELSE trusted

\* The payloads about a topic, and the vectors of the trusted ones.
Cluster(payloads, topic) ==
    {i \in 1..Len(payloads) : SameTopic(Embed[topic], Embed[payloads[i].text])}

TrustedVectors(payloads, topic) ==
    ItemsAt([i \in 1..Len(payloads) |-> Embed[payloads[i].text]],
            {i \in Cluster(payloads, topic) : payloads[i].src \in TrustedSource})

\* The query: the positions of the payloads it reports for a topic.  It reads
\* the whole ledger: the writes of every process and namespace.
drift(payloads, topic) ==
    LET consensus == TrustedVectors(payloads, topic)
    IN  {i \in Cluster(payloads, topic) :
            /\ payloads[i].src \notin TrustedSource
            /\ consensus # <<>>
            /\ Contradicts(Embed[payloads[i].text], consensus)}
=============================================================================
