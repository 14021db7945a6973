------------------------------ MODULE Batches ------------------------------
(***************************************************************************)
(* What the three trainers feed the optimizer and rank with: the splits,   *)
(* the batches of the loaders and of the P x K sampler, the rows each      *)
(* objective pulls together, the learning-rate schedule and the retrieval  *)
(* metrics.  A session is its index in the corpus and a corpus is the      *)
(* sequence of its identity labels.  What a seeded generator draws is the  *)
(* set of its possible outcomes.                                           *)
(***************************************************************************)
EXTENDS Integers, Sequences, FiniteSets, FiniteSetsExt, SequencesExt

\* A finite set of numbers in ascending order, and the part of a sequence at
\* such a set of positions.
Ascending(S) ==
    [n \in 1 .. Cardinality(S) |-> CHOOSE x \in S : Cardinality({y \in S : y < x}) = n - 1]
At(seq, S) == [n \in 1 .. Cardinality(S) |-> seq[Ascending(S)[n]]]

SessionsOf(labels, i) == {n \in DOMAIN labels : labels[n] = i}
Counts(labels) == [i \in Range(labels) |-> Cardinality(SessionsOf(labels, i))]

\* Python's round of a / b: halves go to the even neighbour.
Round(a, b) ==
    LET q == a \div b  r == a % b
    IN  IF 2 * r > b \/ (2 * r = b /\ q % 2 = 1) THEN q + 1 ELSE q

\* make_identity_corpus: per sessions of every identity, shuffled.
IdentityCorpora(ids, per) ==
    {c \in [1 .. per * Cardinality(ids) -> ids] :
        per >= 2 /\ \A i \in ids : Cardinality(SessionsOf(c, i)) = per}

-----------------------------------------------------------------------------
(* The splits. *)

\* _split_sessions: the sessions held out for validation; frac is num / den.
ValidationSets(n, frac) == kSubset(Max({1, Round(n * frac.num, frac.den)}), 1 .. n)

\* Mutant: an identity may lose all its sessions to the probes.
ProbeSetsAll(labels, nProbe) ==
    {P \in SUBSET DOMAIN labels :
        \A i \in Range(labels) :
            Cardinality(P \cap SessionsOf(labels, i)) = Min({nProbe, Counts(labels)[i]})}

\* reconnection_split: every identity gives nProbe sessions but keeps one.
ProbeSets(labels, nProbe) ==
    {P \in SUBSET DOMAIN labels :
        \A i \in Range(labels) :
            Cardinality(P \cap SessionsOf(labels, i)) = Min({nProbe, Counts(labels)[i] - 1})}

-----------------------------------------------------------------------------
(* The batches. *)

\* torch's DataLoader over the sessions left in this epoch.
Served(left, size, dropLast) ==
    IF left = {} \/ (dropLast /\ Cardinality(left) < size) THEN {}
    ELSE {Ascending(S) : S \in kSubset(Min({size, Cardinality(left)}), left)}
LoaderLen(n, size, dropLast) ==
    IF dropLast THEN n \div size ELSE (n + size - 1) \div size

\* fit_reid shrinks the batch so that two fit, and keeps the rest otherwise.
ReidBatchSize(cfg, g) == Min({cfg, Max({2, g \div 2})})

ReidDropsLast(g, size) == g >= 2 * size

\* PKBatchSampler.__init__: when it refuses the labels it is given.
SamplerRefuses(labels, p, k) == p < 2 \/ k < 1 \/ Cardinality(Range(labels)) < p

\* k sessions of one identity: a sample, or all of them and then repetitions.
Picks(available, k) ==
    IF Cardinality(available) >= k THEN {Ascending(S) : S \in kSubset(k, available)}
    ELSE {Ascending(available) \o again : again \in [1 .. k - Cardinality(available) -> available]}

\* PKBatchSampler.__iter__: positions in the labels the sampler was given.
PKBatches(labels, p, k) ==
    UNION {LET ids == SetToSeq(chosen)
               picks == [j \in 1 .. p |-> Picks(SessionsOf(labels, ids[j]), k)]
           IN  {FlattenSeq(row) : row \in {r \in [1 .. p -> UNION Range(picks)] :
                                              \A j \in 1 .. p : r[j] \in picks[j]}}
           : chosen \in kSubset(p, Range(labels))}

-----------------------------------------------------------------------------
(* The objectives: the pairs of sessions of a batch they pull together. *)

\* NTXentLoss: the two views are stacked and the target is the other view.
NTXentTarget(n, r) == IF r <= n THEN r + n ELSE r - n
NTXentPairs(batch) ==
    LET n == Len(batch)  rows == batch \o batch
    IN  {<<r, NTXentTarget(n, r), rows[r], rows[NTXentTarget(n, r)]>> : r \in 1 .. 2 * n}

\* SupConLoss: an anchor needs a row of its label, other than itself, and a
\* label that is not the ignored one.
SupConAnchors(labels, ignore) == {r \in DOMAIN labels : labels[r] # ignore}
SupConPairs(batch, labels, ignore) ==
    {<<x[1], x[2], batch[x[1]], batch[x[2]]>> :
        x \in {y \in SupConAnchors(labels, ignore) \X DOMAIN labels :
                 y[1] # y[2] /\ labels[y[1]] = labels[y[2]]}}

\* CampaignAwareReIDLoss: the identities, and the toolkits that are known.
CampaignAwarePairs(batch, labels, kit, unknown, none) ==
    LET ids == [r \in DOMAIN batch |-> labels[batch[r]]]
    IN  SupConPairs(batch, ids, none)
            \cup SupConPairs(batch, [r \in DOMAIN batch |-> kit[ids[r]]], unknown)

-----------------------------------------------------------------------------
(* cosine_warmup_schedule. *)

ScheduleRefuses(warmup, total) == total <= 0 \/ warmup > total

\* lr_lambda: a fraction of the peak while warming up, then how far the
\* cosine has come; the floor is reached at progress 1.
LrLambda(step, warmup, total) ==
    IF warmup > 0 /\ step < warmup
    THEN [warm |-> TRUE, num |-> step + 1, den |-> warmup + 1]
    ELSE LET den == Max({1, total - warmup})
         IN  [warm |-> FALSE, num |-> Min({step - warmup, den}), den |-> den]

-----------------------------------------------------------------------------
(* The metrics of one probe: relevant[r] says that the gallery session at   *)
(* rank r has the probe's identity.                                         *)

\* recall_at_k.
Hit(relevant, k) == \E r \in 1 .. Min({k, Len(relevant)}) : relevant[r]

\* average_precision, times scale: the mean over the hits of hits / rank; the
\* sum over the hits is the number of its units.
AveragePrecision(relevant, scale) ==
    LET hits == {r \in DOMAIN relevant : relevant[r]}
        precision(r) == (scale * Cardinality({q \in hits : q <= r})) \div r
        units == {x \in hits \X (1 .. scale) : x[2] <= precision(x[1])}
    IN  IF hits = {} THEN 0 ELSE Cardinality(units) \div Cardinality(hits)

=============================================================================
