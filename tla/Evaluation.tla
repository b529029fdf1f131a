----------------------------- MODULE Evaluation -----------------------------
(***************************************************************************)
(* eval/metrics.py: how predicted entities are scored against the gold     *)
(* ones.  Ratios are pairs <<numerator, denominator>>.  A prediction that  *)
(* is not a JSON list of entities is Malformed.                            *)
(***************************************************************************)
EXTENDS Spans, FiniteSetsExt

CONSTANT Malformed

NoCounts == [tp |-> 0, fp |-> 0, fn |-> 0]

AddCounts(a, b) == [tp |-> a.tp + b.tp, fp |-> a.fp + b.fp, fn |-> a.fn + b.fn]

Intersection(a, b) ==
  Max({0, Min({a.end, b.end}) - Max({a.start, b.start})})

Union(a, b) == Length(a) + Length(b) - Intersection(a, b)

\* compute_iou(a, b) > compute_iou(c, d), of spans with characters.
CloserThan(a, b, c, d) ==
  Intersection(a, b) * Union(c, d) > Intersection(c, d) * Union(a, b)

Key(e) == <<e.type, e.start, e.end>>

\* Type, start and end agree.
MatchExact(pred, gold) ==
  LET p == {Key(pred[i]) : i \in DOMAIN pred}
      g == {Key(gold[i]) : i \in DOMAIN gold}
  IN [tp |-> Cardinality(p \cap g), fp |-> Cardinality(p \ g), fn |-> Cardinality(g \ p)]

\* Mutant: any common character makes a pair.
MatchPartialTouching(pred, gold) ==
  LET met == {p \in DOMAIN pred : \E g \in DOMAIN gold :
                pred[p].type = gold[g].type /\ Intersection(pred[p], gold[g]) > 0}
      tp == Min({Cardinality(met), Len(gold)})
  IN [tp |-> tp, fp |-> Len(pred) - tp, fn |-> Len(gold) - tp]

\* Pairs of one type that share more than half of their characters, the
\* closest first; no entity is in two.
MatchPartial(pred, gold) ==
  LET similar(p, g) == /\ p.type = g.type
                       /\ 2 * Intersection(p, g) > Union(p, g)
      candidates == {c \in (DOMAIN pred) \X (DOMAIN gold) : similar(pred[c[1]], gold[c[2]])}
      before(c, d) ==
        \/ CloserThan(pred[c[1]], gold[c[2]], pred[d[1]], gold[d[2]])
        \/ /\ ~ CloserThan(pred[d[1]], gold[d[2]], pred[c[1]], gold[c[2]])
           /\ c[1] < d[1] \/ (c[1] = d[1] /\ c[2] < d[2])
      match(matched, c) ==
        IF \E m \in matched : m[1] = c[1] \/ m[2] = c[2] THEN matched ELSE matched \cup {c}
      tp == Cardinality(FoldLeft(match, {}, SetToSortSeq(candidates, before)))
  IN [tp |-> tp, fp |-> Len(pred) - tp, fn |-> Len(gold) - tp]

\* Harmonic mean of precision and recall: 2 tp / (2 tp + fp + fn), or zero.
ComputeF1(c) ==
  [precision |-> <<c.tp, c.tp + c.fp>>, recall |-> <<c.tp, c.tp + c.fn>>,
   f1 |-> <<2 * c.tp, 2 * c.tp + c.fp + c.fn>>, support |-> c.tp + c.fn]

\* The pairs <<type of gold, type of prediction>> of one example: each gold
\* entity takes the closest prediction, of any type, that is still free.
ConfusionPairs(pred, gold) ==
  LET free(acc, g) == {i \in DOMAIN pred \ acc.used : Intersection(pred[i], g) > 0}
      best(acc, g) == CHOOSE i \in free(acc, g) : \A j \in free(acc, g) :
                        /\ ~ CloserThan(pred[j], g, pred[i], g)
                        /\ CloserThan(pred[i], g, pred[j], g) \/ i <= j
      step(acc, g) ==
        IF free(acc, g) # {} /\ 2 * Intersection(pred[best(acc, g)], g) >= Union(pred[best(acc, g)], g)
          THEN [used |-> acc.used \cup {best(acc, g)},
                pairs |-> Append(acc.pairs, <<g.type, pred[best(acc, g)].type>>)]
          ELSE [acc EXCEPT !.pairs = Append(@, <<g.type, "MISS">>)]
      done == FoldLeft(step, [used |-> {}, pairs |-> <<>>], gold)
      spurious == SelectSeq([i \in DOMAIN pred |-> i], LAMBDA i : i \notin done.used)
  IN done.pairs \o [i \in DOMAIN spurious |-> <<"SPURIOUS", pred[spurious[i]].type>>]

OfType(entities, t) == SelectSeq(entities, LAMBDA e : e.type = t)

Types(entities) == {entities[i].type : i \in DOMAIN entities}

NewReport ==
  [examples |-> 0, valid |-> 0, hardNegatives |-> 0, falseAlarms |-> 0, predictions |-> 0,
   gold |-> 0, exact |-> NoCounts, partial |-> NoCounts, perType |-> <<>>, confusion |-> <<>>]

\* One iteration of evaluate: the counts of an example are added.
EvaluateStep(report, prediction, gold, isHardNegative) ==
  LET pred == IF prediction = Malformed THEN <<>> ELSE prediction
      types == Types(pred) \cup Types(gold)
      counts(t) == MatchExact(OfType(pred, t), OfType(gold, t))
      old(t) == IF t \in DOMAIN report.perType THEN report.perType[t] ELSE NoCounts
      one(b) == IF b THEN 1 ELSE 0
  IN [report EXCEPT
        !.examples = @ + 1,
        !.valid = @ + one(prediction # Malformed),
        !.hardNegatives = @ + one(isHardNegative),
        !.falseAlarms = @ + one(isHardNegative /\ pred # <<>>),
        !.predictions = @ + Len(pred),
        !.gold = @ + Len(gold),
        !.exact = AddCounts(@, MatchExact(pred, gold)),
        !.partial = AddCounts(@, MatchPartial(pred, gold)),
        !.perType = [t \in DOMAIN @ \cup types |->
                       IF t \in types THEN AddCounts(old(t), counts(t)) ELSE @[t]],
        !.confusion = @ \o ConfusionPairs(pred, gold)]

\* _load_test_data of ner_evaluate.py: an example without entities is a hard
\* negative unless it names another source.
IsHardNegative(source, entities) ==
  source = "hard_negatives" \/ (source = "" /\ entities = <<>>)

\* _collect_diffs of benchmark_fusion.py.
Verdict(gold, before, after) ==
  LET found(pred) == Cardinality({i \in DOMAIN pred : \E j \in DOMAIN gold :
                                                        Key(pred[i]) = Key(gold[j])})
  IN CASE found(after) > found(before) -> "SUCCESS"
       [] found(after) < found(before) -> "REGRESSION"
       [] OTHER -> "NEUTRAL"
=============================================================================
