-------------------------- MODULE SpanFusionProofs --------------------------
(***************************************************************************)
(* The result of fuse_spans is sorted and free of overlaps, for texts and   *)
(* lists of spans of any length; what no overlapping span can beat is      *)
(* hidden, and fusing twice is fusing once.  A text whose spans are        *)
(* replaced by tokens and restored comes back, up to the gaps of merged    *)
(* spans.                                                                  *)
(***************************************************************************)
EXTENDS SpanFusion, SequenceTheorems, TLAPS

\* Taking the first element of a sequence off.
LEMMA HeadTail ==
  ASSUME NEW S, NEW q \in Seq(S), q # <<>>
  PROVE  /\ Head(q) \in S /\ Head(q) = q[1]
         /\ Tail(q) \in Seq(S)
         /\ Len(q) \in Nat \ {0}
         /\ Len(Tail(q)) = Len(q) - 1
         /\ \A i \in 1..Len(q) - 1 : Tail(q)[i] = q[i + 1]
OBVIOUS

\* Replacing the last element of a sequence.
LEMMA ReplaceLast ==
  ASSUME NEW S, NEW q \in Seq(S), q # <<>>, NEW x \in S
  PROVE  /\ Last(q) = q[Len(q)]
         /\ Last(q) \in S
         /\ Len(q) \in Nat \ {0}
         /\ Append(Front(q), x) \in Seq(S)
         /\ Len(Append(Front(q), x)) = Len(q)
         /\ \A i \in 1..Len(q) - 1 : Append(Front(q), x)[i] = q[i]
         /\ Append(Front(q), x)[Len(q)] = x
<1> DEFINE f == Front(q)
<1>1. Len(q) \in Nat \ {0}
  OBVIOUS
<1>2. f \in Seq(S) /\ Len(f) = Len(q) - 1 /\ \A i \in 1..Len(q) - 1 : f[i] = q[i]
  <2>1. /\ Len(q) - 1 \in Nat
        /\ \A i \in 1..Len(q) - 1 : q[i] \in S
    BY <1>1
  <2> DEFINE m == Len(q) - 1
  <2>2. m \in Nat /\ \A i \in 1..m : q[i] \in S
    BY <2>1
  <2> HIDE DEF m
  <2>3. /\ SubSeq(q, 1, m) \in Seq(S)
        /\ Len(SubSeq(q, 1, m)) = m
        /\ \A i \in 1..m : SubSeq(q, 1, m)[i] = q[i]
    BY <2>2, SubSeqProperties
  <2> QED
    BY <2>3 DEF Front, m
<1> HIDE DEF f
<1>3. /\ Append(f, x) \in Seq(S) /\ Len(Append(f, x)) = Len(q)
      /\ \A i \in 1..Len(q) - 1 : Append(f, x)[i] = f[i]
      /\ Append(f, x)[Len(q)] = x
  BY <1>1, <1>2
<1>4. Last(q) = q[Len(q)] /\ Last(q) \in S
  BY <1>1 DEF Last
<1> QED
  BY <1>1, <1>2, <1>3, <1>4 DEF f

\* Adding an element at the end of a sequence.
LEMMA AddLast ==
  ASSUME NEW S, NEW q \in Seq(S), NEW x \in S
  PROVE  /\ Append(q, x) \in Seq(S)
         /\ Append(q, x) # <<>>
         /\ Len(q) \in Nat
         /\ Len(Append(q, x)) = Len(q) + 1
         /\ \A i \in 1..Len(q) : Append(q, x)[i] = q[i]
         /\ Append(q, x)[Len(q) + 1] = x
OBVIOUS

-----------------------------------------------------------------------------
LEMMA InitInv == Init => FusionInv
<1> SUFFICES ASSUME Init PROVE FusionInv
  OBVIOUS
<1> USE DEF Init
<1>1. TypeOK
  BY DEF TypeOK
<1>2. Disjoint
  BY DEF Disjoint, InOrder
<1> QED
  BY <1>1, <1>2 DEF FusionInv

\* What a detector reports is a span.
LEMMA SpanAtType ==
  ASSUME TypeOK, NEW start \in Nat, NEW end \in Nat, start < end,
         NEW type \in Type, NEW source \in {"regex", "slm"}
  PROVE  SpanAt(start, end, type, source) \in Span
<1> DEFINE n == IF end < Len(text) THEN end ELSE Len(text)
<1>1. n \in Int /\ n <= Len(text) /\ \A i \in start + 1..n : text[i] \in DOMAIN Width
  BY DEF TypeOK
<1> HIDE DEF n
<1>2. SubSeq(text, start + 1, n) \in Seq(DOMAIN Width)
  BY <1>1, SubSeqProperties
<1> QED
  BY <1>2 DEF SpanAt, Slice, Span, n

LEMMA DetectInv ==
  ASSUME FusionInv, NEW source \in Detector, NEW type \in Type,
         NEW start \in 0..MaxLength, NEW end \in 0..MaxLength,
         Detect(start, end, type, source)
  PROVE  FusionInv'
<1> DEFINE s == SpanAt(start, end, type, source)
<1> USE DEF FusionInv
<1>1. s \in Span
  BY SpanAtType, DetectorAssumption, BoundAssumption DEF Detect
<1>2. s.start \in Nat
  BY <1>1 DEF Span
<1>3. /\ pc = "detect" /\ pc' = pc /\ resolved' = resolved /\ fused' = fused
      /\ text' = text /\ pass' = pass /\ first' = first
      /\ todo' = Append(todo, s) /\ found' = found \cup {s}
      /\ todo # <<>> => SortedBefore(Last(todo), s)
  BY DEF Detect
<1> HIDE DEF s
<1>4. todo \in Seq(Span)
  BY DEF TypeOK
<1>5. TypeOK'
  BY <1>1, <1>3, <1>4, AddLast DEF TypeOK
<1>6. Disjoint'
  BY <1>3 DEF Disjoint, InOrder
<1>7. \A i \in 1..Len(todo') - 1 : todo'[i].start <= todo'[i + 1].start
  <2>1. CASE todo = <<>>
    BY <1>3, <1>1, <1>4, <2>1, AddLast
  <2>2. CASE todo # <<>>
    <3>1. todo[Len(todo)].start <= s.start
      BY <1>1, <1>3, <1>4, <2>2 DEF SortedBefore, Last, Span
    <3> QED
      BY <1>1, <1>3, <1>4, <3>1, AddLast
  <2> QED
    BY <2>1, <2>2
<1> QED
  BY <1>3, <1>5, <1>6, <1>7

LEMMA ResolveInv == ASSUME FusionInv, Resolve PROVE FusionInv'
<1> DEFINE s == Head(todo)
           n == Len(resolved)
<1> USE DEF FusionInv
<1>1. /\ todo \in Seq(Span) /\ resolved \in Seq(Span)
      /\ pc = "resolve" /\ pc' = pc /\ todo # <<>> /\ todo' = Tail(todo)
      /\ text' = text /\ pass' = pass /\ found' = found
      /\ fused' = fused /\ first' = first
  BY DEF Resolve, TypeOK
<1>2. s \in Span /\ s = todo[1]
  BY <1>1, HeadTail
<1>3. \A x \in Span : x.start \in Nat /\ x.end \in Nat /\ x.start < x.end
  BY DEF Span
<1>4. /\ todo' \in Seq(Span)
      /\ \A i \in 1..Len(todo') - 1 : todo'[i].start <= todo'[i + 1].start
      /\ todo' # <<>> => s.start <= todo'[1].start
  <2>1. /\ Tail(todo) \in Seq(Span) /\ Len(todo) \in Nat \ {0}
        /\ Len(Tail(todo)) = Len(todo) - 1
        /\ \A i \in 1..Len(todo) - 1 : Tail(todo)[i] = todo[i + 1]
    BY <1>1, HeadTail
  <2>2. ASSUME Tail(todo) # <<>> PROVE Len(todo) - 1 >= 1
    BY <2>1, <2>2
  <2> QED
    BY <1>1, <1>2, <2>1, <2>2
<1>5. /\ resolved' \in Seq(Span)
      /\ InOrder(resolved)'
      /\ resolved' # <<>> /\ todo' # <<>> =>
           resolved'[Len(resolved')].start <= todo'[1].start
  <2> HIDE DEF s
  <2>1. CASE resolved = <<>> \/ ~ Overlaps(Last(resolved), s)
    <3>1. resolved' = Append(resolved, s)
      BY <2>1 DEF Resolve, ResolveStep, s
    <3>2. resolved # <<>> => resolved[n].end <= s.start
      <4> SUFFICES ASSUME resolved # <<>> PROVE resolved[n].end <= s.start
        OBVIOUS
      <4>1. Last(resolved) = resolved[n] /\ resolved[n] \in Span
        BY <1>1 DEF Last
      <4> QED
        BY <1>1, <1>2, <1>3, <2>1, <4>1 DEF Overlaps
    <3>3. /\ resolved' \in Seq(Span) /\ n \in Nat /\ Len(resolved') = n + 1
          /\ \A i \in 1..n : resolved'[i] = resolved[i]
          /\ resolved'[n + 1] = s
      BY <1>1, <1>2, <3>1, AddLast
    <3>4. InOrder(resolved)'
      <4> SUFFICES ASSUME NEW i \in 1..n
                   PROVE  resolved'[i].end <= resolved'[i + 1].start
        BY <3>3 DEF InOrder
      <4>1. CASE i < n
        BY <3>3, <4>1 DEF InOrder, Disjoint
      <4>2. CASE i = n
        <5>1. resolved # <<>>
          BY <1>1, <4>2
        <5> QED
          BY <3>2, <3>3, <4>2, <5>1
      <4> QED
        BY <3>3, <4>1, <4>2
    <3> QED
      BY <1>4, <3>3, <3>4
  <2>2. CASE /\ ~ (resolved = <<>> \/ ~ Overlaps(Last(resolved), s))
             /\ Replaces(s, Last(resolved))
    <3>1. resolved' = Append(Front(resolved), s)
      BY <2>2 DEF Resolve, ResolveStep, s
    <3>2. /\ resolved' \in Seq(Span) /\ n \in Nat \ {0} /\ Len(resolved') = n
          /\ \A i \in 1..n - 1 : resolved'[i] = resolved[i]
          /\ resolved'[n] = s
      <4>1. resolved # <<>>
        BY <2>2
      <4> DEFINE q == Append(Front(resolved), s)
      <4>2. /\ q \in Seq(Span) /\ n \in Nat \ {0} /\ Len(q) = n
            /\ \A i \in 1..n - 1 : q[i] = resolved[i]
            /\ q[n] = s
        <5> HIDE DEF FusionInv, n, q
        <5>1. s \in Span /\ resolved \in Seq(Span)
          BY <1>1, <1>2
        <5>2. /\ Len(resolved) \in Nat \ {0}
              /\ q \in Seq(Span)
              /\ Len(q) = Len(resolved)
              /\ \A i \in 1..Len(resolved) - 1 : q[i] = resolved[i]
              /\ q[Len(resolved)] = s
          BY <4>1, <5>1, ReplaceLast DEF q
        <5> QED
          BY <5>2 DEF n
      <4>3. resolved' = q
        BY <3>1
      <4> QED
        BY <4>2, <4>3
    <3>3. InOrder(resolved)'
      <4> SUFFICES ASSUME NEW i \in 1..n - 1
                   PROVE  resolved'[i].end <= resolved'[i + 1].start
        BY <3>2 DEF InOrder
      <4>1. resolved[i].end <= resolved[i + 1].start
        BY <3>2 DEF InOrder, Disjoint
      <4>2. CASE i < n - 1
        BY <3>2, <4>1, <4>2
      <4>3. CASE i = n - 1
        <5>1. resolved[n].start <= s.start
          BY <1>1, <1>2, <3>2, <2>2
        <5>2. resolved[i] \in Span /\ resolved[n] \in Span
          BY <1>1, <3>2
        <5> QED
          BY <1>2, <1>3, <3>2, <4>1, <4>3, <5>1, <5>2
      <4> QED
        BY <3>2, <4>2, <4>3
    <3> QED
      BY <1>4, <3>2, <3>3
  <2>3. CASE /\ ~ (resolved = <<>> \/ ~ Overlaps(Last(resolved), s))
             /\ ~ Replaces(s, Last(resolved))
    <3>1. resolved' = resolved
      BY <2>3 DEF Resolve, ResolveStep, s
    <3>2. todo' # <<>> => resolved[n].start <= todo'[1].start
      <4> SUFFICES ASSUME todo' # <<>> PROVE resolved[n].start <= todo'[1].start
        OBVIOUS
      <4>1. resolved[n].start <= s.start /\ s.start <= todo'[1].start
        BY <1>1, <1>2, <1>4, <2>3
      <4>2. resolved[n] \in Span /\ todo'[1] \in Span
        BY <1>1, <1>4, <2>3
      <4> QED
        BY <1>2, <1>3, <4>1, <4>2
    <3> QED
      BY <1>1, <3>1, <3>2 DEF Disjoint, InOrder
  <2> QED
    BY <2>1, <2>2, <2>3
<1>6. TypeOK' /\ Disjoint'
  BY <1>1, <1>4, <1>5 DEF TypeOK, Disjoint, InOrder
<1> QED
  BY <1>1, <1>4, <1>5, <1>6

\* Merging keeps the start of the first and the end of the second span.
LEMMA MergedSpan ==
  ASSUME NEW a \in Span, NEW b \in Span, a.end <= b.start, Blank \in DOMAIN Width
  PROVE  Merged(a, b) \in Span /\ Merged(a, b).start = a.start /\ Merged(a, b).end = b.end
<1> DEFINE g == IF b.start - a.end = 1 THEN <<Blank>> ELSE <<>>
<1>1. a.text \in Seq(DOMAIN Width) /\ b.text \in Seq(DOMAIN Width)
  BY DEF Span
<1>4. g \in Seq(DOMAIN Width)
  <2>1. <<Blank>> \in Seq(DOMAIN Width) /\ <<>> \in Seq(DOMAIN Width)
    OBVIOUS
  <2> QED
    BY <2>1
<1> HIDE DEF g
<1>2. a.text \o g \o b.text \in Seq(DOMAIN Width)
  BY <1>1, <1>4
<1>3. a.start \in Nat /\ b.end \in Nat /\ a.start < b.end
  BY DEF Span
<1> QED
  BY <1>2, <1>3 DEF Merged, Span, g

LEMMA MergeInv == ASSUME FusionInv, Merge PROVE FusionInv'
<1> DEFINE s == Head(resolved)
           n == Len(fused)
<1> USE DEF FusionInv
<1>1. /\ resolved \in Seq(Span) /\ fused \in Seq(Span)
      /\ pc = "merge" /\ pc' = pc /\ resolved # <<>> /\ resolved' = Tail(resolved)
      /\ text' = text /\ pass' = pass /\ found' = found
      /\ todo' = todo /\ todo = <<>> /\ first' = first
  BY DEF Merge, TypeOK
<1>2. s \in Span /\ s = resolved[1]
  BY <1>1, HeadTail
<1>3. \A x \in Span : x.start \in Nat /\ x.end \in Nat /\ x.start < x.end
  BY DEF Span
<1>4. /\ resolved' \in Seq(Span)
      /\ InOrder(resolved)'
      /\ resolved' # <<>> => s.end <= resolved'[1].start
  <2>1. /\ Tail(resolved) \in Seq(Span) /\ Len(resolved) \in Nat \ {0}
        /\ Len(Tail(resolved)) = Len(resolved) - 1
        /\ \A i \in 1..Len(resolved) - 1 : Tail(resolved)[i] = resolved[i + 1]
    BY <1>1, HeadTail
  <2>2. ASSUME Tail(resolved) # <<>> PROVE Len(resolved) - 1 >= 1
    BY <2>1, <2>2
  <2> QED
    BY <1>1, <1>2, <2>1, <2>2 DEF Disjoint, InOrder
<1>5. fused # <<>> => fused[n] \in Span /\ fused[n].end <= s.start
  BY <1>1, <1>2
<1>6. /\ fused' \in Seq(Span)
      /\ InOrder(fused)'
      /\ fused' # <<>> /\ resolved' # <<>> =>
           fused'[Len(fused')].end <= resolved'[1].start
  <2> HIDE DEF s
  <2>1. CASE fused # <<>> /\ Mergeable(Last(fused), s)
    <3> DEFINE x == Merged(Last(fused), s)
    <3>1. fused' = Append(Front(fused), x)
      BY <2>1 DEF Merge, MergeStep, s
    <3>2. Last(fused) = fused[n]
      BY <1>1, <2>1 DEF Last
    <3>3. x \in Span /\ x.start = fused[n].start /\ x.end = s.end
      BY <1>2, <1>5, <2>1, <3>2, MergedSpan, WidthAssumption
    <3> HIDE DEF x
    <3>4. /\ fused' \in Seq(Span) /\ n \in Nat \ {0} /\ Len(fused') = n
          /\ \A i \in 1..n - 1 : fused'[i] = fused[i]
          /\ fused'[n] = x
      <4>1. fused # <<>>
        BY <2>1
      <4> DEFINE q == Append(Front(fused), x)
      <4>2. /\ q \in Seq(Span) /\ n \in Nat \ {0} /\ Len(q) = n
            /\ \A i \in 1..n - 1 : q[i] = fused[i]
            /\ q[n] = x
        <5> HIDE DEF FusionInv, n, q
        <5>1. x \in Span /\ fused \in Seq(Span)
          BY <1>1, <3>3
        <5>2. /\ Len(fused) \in Nat \ {0}
              /\ q \in Seq(Span)
              /\ Len(q) = Len(fused)
              /\ \A i \in 1..Len(fused) - 1 : q[i] = fused[i]
              /\ q[Len(fused)] = x
          BY <4>1, <5>1, ReplaceLast DEF q
        <5> QED
          BY <5>2 DEF n
      <4>3. fused' = q
        BY <3>1
      <4> QED
        BY <4>2, <4>3
    <3>5. InOrder(fused)'
      <4> SUFFICES ASSUME NEW i \in 1..n - 1
                   PROVE  fused'[i].end <= fused'[i + 1].start
        BY <3>4 DEF InOrder
      <4>1. fused[i].end <= fused[i + 1].start
        BY <3>4 DEF InOrder, Disjoint
      <4> QED
        BY <3>3, <3>4, <4>1
    <3> QED
      BY <1>4, <3>3, <3>4, <3>5
  <2>2. CASE ~ (fused # <<>> /\ Mergeable(Last(fused), s))
    <3>1. fused' = Append(fused, s)
      BY <2>2 DEF Merge, MergeStep, s
    <3>2. /\ fused' \in Seq(Span) /\ n \in Nat /\ Len(fused') = n + 1
          /\ \A i \in 1..n : fused'[i] = fused[i]
          /\ fused'[n + 1] = s
      BY <1>1, <1>2, <3>1, AddLast
    <3>3. InOrder(fused)'
      <4> SUFFICES ASSUME NEW i \in 1..n
                   PROVE  fused'[i].end <= fused'[i + 1].start
        BY <3>2 DEF InOrder
      <4>1. CASE i < n
        BY <3>2, <4>1 DEF InOrder, Disjoint
      <4>2. CASE i = n
        <5>1. fused # <<>>
          BY <1>1, <4>2
        <5> QED
          BY <1>5, <3>2, <4>2, <5>1
      <4> QED
        BY <3>2, <4>1, <4>2
    <3> QED
      BY <1>4, <3>2, <3>3
  <2> QED
    BY <2>1, <2>2
<1>7. TypeOK' /\ Disjoint'
  BY <1>1, <1>4, <1>6 DEF TypeOK, Disjoint, InOrder
<1> QED
  BY <1>1, <1>4, <1>6, <1>7

\* The second pass starts from spans that are in order already.
LEMMA FuseAgainInv == ASSUME FusionInv, FuseAgain PROVE FusionInv'
<1> USE DEF FusionInv
<1>1. /\ pc' = "resolve" /\ pass' = 2 /\ todo' = fused /\ first' = fused
      /\ fused' = <<>> /\ text' = text /\ found' = found
      /\ resolved = <<>> /\ resolved' = <<>>
  BY DEF FuseAgain
<1>2. fused \in Seq(Span)
  BY DEF TypeOK
<1>3. TypeOK'
  BY <1>1 DEF TypeOK
<1>4. Disjoint'
  BY <1>1 DEF Disjoint, InOrder
<1>5. ASSUME NEW i \in 1..Len(fused) - 1
      PROVE  fused[i].start <= fused[i + 1].start
  <2>1. fused[i] \in Span /\ fused[i + 1] \in Span
    BY <1>2
  <2>2. fused[i].end <= fused[i + 1].start
    BY DEF Disjoint, InOrder
  <2> QED
    BY <2>1, <2>2 DEF Span
<1> QED
  BY <1>1, <1>3, <1>4, <1>5

\* So does the replacement of the spans.
LEMMA ReplaceInv == ASSUME FusionInv, Replace PROVE FusionInv'
<1> USE DEF FusionInv
<1>1. /\ pc' = "replace" /\ todo' = fused /\ resolved = <<>>
      /\ UNCHANGED <<text, pass, found, resolved, fused, first>>
  BY DEF Replace
<1>2. fused \in Seq(Span)
  BY DEF TypeOK
<1>3. TypeOK'
  BY <1>1 DEF TypeOK
<1>4. Disjoint'
  BY <1>1 DEF Disjoint, InOrder
<1>5. ASSUME NEW i \in 1..Len(fused) - 1
      PROVE  fused[i].start <= fused[i + 1].start
  <2>1. fused[i] \in Span /\ fused[i + 1] \in Span
    BY <1>2
  <2>2. fused[i].end <= fused[i + 1].start
    BY DEF Disjoint, InOrder
  <2> QED
    BY <2>1, <2>2 DEF Span
<1> QED
  BY <1>1, <1>3, <1>4, <1>5

\* All but the last element of a sequence.
LEMMA FrontOf ==
  ASSUME NEW S, NEW q \in Seq(S), q # <<>>
  PROVE  /\ Len(q) \in Nat \ {0}
         /\ Front(q) \in Seq(S)
         /\ Len(Front(q)) = Len(q) - 1
         /\ \A i \in 1..Len(q) - 1 : Front(q)[i] = q[i]
<1> DEFINE m == Len(q) - 1
<1>1. m \in Nat /\ Len(q) \in Nat \ {0} /\ \A i \in 1..m : q[i] \in S
  OBVIOUS
<1> HIDE DEF m
<1>2. /\ SubSeq(q, 1, m) \in Seq(S)
      /\ Len(SubSeq(q, 1, m)) = m
      /\ \A i \in 1..m : SubSeq(q, 1, m)[i] = q[i]
  BY <1>1, SubSeqProperties
<1> QED
  BY <1>1, <1>2 DEF Front, m

LEMMA ReplaceSpanInv == ASSUME FusionInv, ReplaceSpan PROVE FusionInv'
<1>1. /\ todo \in Seq(Span) /\ todo # <<>> /\ todo' = Front(todo) /\ pc = "replace"
      /\ UNCHANGED <<text, pc, pass, found, resolved, fused, first>>
  BY DEF ReplaceSpan, FusionInv, TypeOK
<1>2. /\ Len(todo) \in Nat \ {0} /\ todo' \in Seq(Span) /\ Len(todo') = Len(todo) - 1
      /\ \A i \in 1..Len(todo) - 1 : todo'[i] = todo[i]
  BY <1>1, FrontOf
<1>3. \A i \in 1..Len(todo') - 1 : todo'[i].start <= todo'[i + 1].start
  BY <1>2 DEF FusionInv
<1>4. todo' # <<>> => todo'[1] = todo[1]
  BY <1>2
<1>5. TypeOK' /\ Disjoint'
  BY <1>1, <1>2 DEF FusionInv, TypeOK, Disjoint, InOrder
<1> QED
  BY <1>1, <1>3, <1>4, <1>5 DEF FusionInv

LEMMA NextInv == FusionInv /\ [Next]_vars => FusionInv'
<1> SUFFICES ASSUME FusionInv, [Next]_vars PROVE FusionInv'
  OBVIOUS
<1>1. ASSUME NEW t \in Texts, Start(t) PROVE FusionInv'
  BY <1>1, TextsAssumption DEF FusionInv, TypeOK, Disjoint, InOrder, Start
<1>2. ASSUME NEW source \in Detector, NEW type \in Type,
             NEW start \in 0..MaxLength, NEW end \in 0..MaxLength,
             Detect(start, end, type, source)
      PROVE  FusionInv'
  BY <1>2, DetectInv
<1>3. CASE DetectDone
  BY <1>3 DEF FusionInv, TypeOK, Disjoint, InOrder, DetectDone
<1>4. CASE Resolve
  BY <1>4, ResolveInv
<1>5. CASE ResolveDone
  BY <1>5 DEF FusionInv, TypeOK, Disjoint, InOrder, ResolveDone
<1>6. CASE Merge
  BY <1>6, MergeInv
<1>7. CASE FuseAgain
  BY <1>7, FuseAgainInv
<1>8. CASE Replace
  BY <1>8, ReplaceInv
<1>9. CASE ReplaceSpan
  BY <1>9, ReplaceSpanInv
<1>10. CASE ReplaceDone
  BY <1>10 DEF FusionInv, TypeOK, Disjoint, InOrder, ReplaceDone
<1>11. CASE Rehydrate
  BY <1>11 DEF FusionInv, TypeOK, Disjoint, InOrder, Rehydrate
<1>12. CASE RestoreToken
  BY <1>12 DEF FusionInv, TypeOK, Disjoint, InOrder, RestoreToken
<1>13. CASE RestoreDone
  BY <1>13 DEF FusionInv, TypeOK, Disjoint, InOrder, RestoreDone
<1>14. CASE Return
  BY <1>14 DEF FusionInv, TypeOK, Disjoint, InOrder, Return
<1>15. CASE UNCHANGED vars
  BY <1>15 DEF FusionInv, TypeOK, Disjoint, InOrder, vars
<1> QED
  BY <1>1, <1>2, <1>3, <1>4, <1>5, <1>6, <1>7, <1>8, <1>9, <1>10, <1>11, <1>12, <1>13,
     <1>14, <1>15 DEF Next

\* The loops of fuse_spans keep their lists in order in every state.
THEOREM FusionInvariant == Spec => []FusionInv
<1> QED
  BY InitInv, NextInv, PTL DEF Spec

\* fuse_spans returns spans that are sorted and do not overlap, whatever the
\* detectors report, and so does every intermediate result.
THEOREM FusionDisjoint == Spec => []Disjoint
<1>1. FusionInv => Disjoint
  BY DEF FusionInv
<1> QED
  BY FusionInvariant, <1>1, PTL

-----------------------------------------------------------------------------
\* The elements of a sequence whose ends change.
LEMMA HeadElements ==
  ASSUME NEW S, NEW q \in Seq(S), q # <<>>
  PROVE  ToSet(q) = {Head(q)} \cup ToSet(Tail(q))
<1>1. /\ Head(q) = q[1] /\ Tail(q) \in Seq(S) /\ Len(q) \in Nat \ {0}
      /\ Len(Tail(q)) = Len(q) - 1 /\ \A i \in 1..Len(q) - 1 : Tail(q)[i] = q[i + 1]
  BY HeadTail
<1>2. ASSUME NEW x \in ToSet(q) PROVE x \in {Head(q)} \cup ToSet(Tail(q))
  <2>1. PICK i \in 1..Len(q) : q[i] = x
    BY DEF ToSet
  <2>2. CASE i = 1
    BY <1>1, <2>1, <2>2
  <2>3. CASE i # 1
    <3>1. i - 1 \in 1..Len(Tail(q)) /\ Tail(q)[i - 1] = x
      BY <1>1, <2>1, <2>3
    <3>2. DOMAIN Tail(q) = 1..Len(Tail(q))
      BY <1>1
    <3> QED BY ONLY <3>1, <3>2 DEF ToSet
  <2> QED BY <2>2, <2>3
<1>3. ASSUME NEW x \in ToSet(Tail(q)) PROVE x \in ToSet(q)
  <2>1. PICK i \in 1..Len(Tail(q)) : Tail(q)[i] = x
    BY <1>1 DEF ToSet
  <2>2. i + 1 \in 1..Len(q) /\ q[i + 1] = x
    BY <1>1, <2>1
  <2> QED BY <2>2 DEF ToSet
<1>4. Head(q) \in ToSet(q)
  BY <1>1 DEF ToSet
<1> QED BY <1>2, <1>3, <1>4

LEMMA AddElements ==
  ASSUME NEW S, NEW q \in Seq(S), NEW x \in S
  PROVE  ToSet(Append(q, x)) = ToSet(q) \cup {x}
<1>1. /\ Append(q, x) \in Seq(S) /\ Len(q) \in Nat /\ Len(Append(q, x)) = Len(q) + 1
      /\ \A i \in 1..Len(q) : Append(q, x)[i] = q[i]
      /\ Append(q, x)[Len(q) + 1] = x
  BY AddLast
<1> DEFINE new == Append(q, x)
<1> HIDE DEF new
<1>2. ASSUME NEW y \in ToSet(new) PROVE y \in ToSet(q) \cup {x}
  BY <1>1, <1>2 DEF ToSet, new
<1>3. ASSUME NEW y \in ToSet(q) \cup {x} PROVE y \in ToSet(new)
  BY <1>1, <1>3 DEF ToSet, new
<1> QED BY <1>2, <1>3 DEF new

LEMMA LastElements ==
  ASSUME NEW S, NEW q \in Seq(S), q # <<>>, NEW x \in S
  PROVE  /\ Last(q) \in ToSet(q) /\ x \in ToSet(Append(Front(q), x))
         /\ ToSet(Append(Front(q), x)) \subseteq ToSet(q) \cup {x}
         /\ ToSet(q) \ {Last(q)} \subseteq ToSet(Append(Front(q), x))
<1> DEFINE new == Append(Front(q), x)
           n == Len(q)
<1>1. /\ Last(q) = q[n] /\ n \in Nat \ {0} /\ new \in Seq(S) /\ Len(new) = n
      /\ \A i \in 1..n - 1 : new[i] = q[i]
      /\ new[n] = x
  BY ReplaceLast
<1> HIDE DEF new
<1>2. DOMAIN q = 1..n /\ DOMAIN new = 1..n
  BY <1>1
<1> HIDE DEF n
<1>3. Last(q) \in ToSet(q) /\ x \in ToSet(new)
  BY <1>1, <1>2 DEF ToSet
<1>4. ASSUME NEW y \in ToSet(new) PROVE y \in ToSet(q) \cup {x}
  <2>1. PICK i \in 1..n : new[i] = y
    BY <1>2 DEF ToSet
  <2>2. i = n \/ i \in 1..n - 1
    BY <1>1
  <2> QED BY <1>1, <1>2, <2>1, <2>2 DEF ToSet
<1>5. ASSUME NEW y \in ToSet(q) \ {Last(q)} PROVE y \in ToSet(new)
  <2>1. PICK i \in 1..n : q[i] = y
    BY <1>2 DEF ToSet
  <2>2. i \in 1..n - 1
    BY <1>1, <1>5, <2>1
  <2> QED BY <1>1, <1>2, <2>1, <2>2 DEF ToSet
<1> QED BY <1>3, <1>4, <1>5 DEF new

\* Moving an element from one sequence to the one before it.
LEMMA MoveOne ==
  ASSUME NEW S, NEW p \in Seq(S), NEW q \in Seq(S), q # <<>>
  PROVE  Append(p, Head(q)) \o Tail(q) = p \o q
OBVIOUS

LEMMA Neighbours ==
  ASSUME NEW S, NEW p \in Seq(S), NEW q \in Seq(S), p # <<>>, q # <<>>
  PROVE  /\ Len(p) \in 1..Len(p \o q) - 1
         /\ (p \o q)[Len(p)] = Last(p) /\ (p \o q)[Len(p) + 1] = Head(q)
BY DEF Last

-----------------------------------------------------------------------------
LEMMA SpanFields ==
  ASSUME NEW x \in Span
  PROVE  x.start \in Nat /\ x.end \in Nat /\ x.start < x.end /\ x.source \in {"regex", "slm"}
BY DEF Span

LEMMA KeptElements ==
  ASSUME NEW q \in Seq(Span) PROVE ToSet(q) \subseteq Span
BY DEF ToSet

\* One more span is found.
LEMMA DetectKept ==
  ASSUME FusionInv, KeptInv, NEW source \in Detector, NEW type \in Type,
         NEW start \in 0..MaxLength, NEW end \in 0..MaxLength,
         Detect(start, end, type, source)
  PROVE  KeptInv'
<1> DEFINE s == SpanAt(start, end, type, source)
<1>1. s \in Span /\ todo \in Seq(Span)
  BY SpanAtType, DetectorAssumption, BoundAssumption DEF Detect, FusionInv, TypeOK
<1>2. /\ pc = "detect" /\ pc' = pc /\ pass' = pass
      /\ todo' = Append(todo, s) /\ found' = found \cup {s}
  BY DEF Detect
<1> HIDE DEF s
<1>3. ToSet(todo)' = found'
  BY <1>1, <1>2, AddElements DEF KeptInv
<1> QED BY <1>2, <1>3 DEF KeptInv

\* A span that nothing beats is kept when its turn comes, and is not given up
\* for the spans that follow.
LEMMA ResolveKept ==
  ASSUME FusionInv, KeptInv, pass = 1, Resolve PROVE KeptInv'
<1> DEFINE s == Head(todo)
           new == ResolveStep(resolved, s)
<1>1. /\ todo \in Seq(Span) /\ resolved \in Seq(Span)
      /\ pc = "resolve" /\ pc' = pc /\ todo # <<>> /\ todo' = Tail(todo)
      /\ resolved' = new /\ UNCHANGED <<pass, found>>
  BY DEF Resolve, FusionInv, TypeOK
<1>2. /\ ToSet(todo) \cup ToSet(resolved) \subseteq found
      /\ Unbeaten \subseteq ToSet(todo) \cup ToSet(resolved)
  BY <1>1 DEF KeptInv
<1>3. ToSet(todo) = {s} \cup ToSet(Tail(todo)) /\ s \in Span /\ s = todo[1]
  BY <1>1, HeadElements, HeadTail
<1>4. resolved # <<>> => /\ Last(resolved) \in ToSet(resolved)
                         /\ Last(resolved) \in Span
                         /\ Last(resolved).start <= s.start
  <2> SUFFICES ASSUME resolved # <<>>
               PROVE  /\ Last(resolved) \in ToSet(resolved)
                      /\ Last(resolved) \in Span
                      /\ Last(resolved).start <= s.start
    OBVIOUS
  <2>1. Last(resolved) = resolved[Len(resolved)]
    BY DEF Last
  <2>2. resolved[Len(resolved)].start <= todo[1].start
    BY <1>1 DEF FusionInv
  <2> QED BY <1>1, <1>3, <2>1, <2>2, LastElements, ReplaceLast
<1>5. Unbeaten \subseteq Span /\ Unbeaten \subseteq found
  BY DEF Unbeaten, FusionInv, TypeOK
<1> HIDE DEF s
<1>6. ToSet(new) \subseteq ToSet(resolved) \cup {s}
  BY <1>1, <1>3, AddElements, LastElements DEF ResolveStep
<1>7. ASSUME NEW u \in Unbeaten, u \in ToSet(resolved) PROVE u \in ToSet(new)
  <2>1. CASE resolved = <<>> \/ ~ Overlaps(Last(resolved), s)
    BY <1>1, <1>3, <1>7, <2>1, AddElements DEF ResolveStep
  <2>2. CASE /\ resolved # <<>> /\ Overlaps(Last(resolved), s)
             /\ Replaces(s, Last(resolved))
    <3>1. new = Append(Front(resolved), s)
      BY <2>2 DEF ResolveStep
    <3>2. s = u \/ Last(resolved) # u
      <4> SUFFICES ASSUME Last(resolved) = u, s # u PROVE FALSE
        OBVIOUS
      <4>1. s \in found \ {u} /\ Overlaps(u, s) /\ Replaces(s, u)
        BY <1>2, <1>3, <2>2
      <4>2. Beats(s, u)
        BY <4>1 DEF Beats, Replaces
      <4> QED BY <4>1, <4>2 DEF Unbeaten
    <3> QED BY <1>1, <1>3, <1>7, <2>2, <3>1, <3>2, LastElements
  <2>3. CASE /\ resolved # <<>> /\ Overlaps(Last(resolved), s)
             /\ ~ Replaces(s, Last(resolved))
    BY <1>7, <2>3 DEF ResolveStep
  <2> QED BY <2>1, <2>2, <2>3
<1>8. ASSUME s \in Unbeaten PROVE s \in ToSet(new)
  <2>1. CASE resolved = <<>> \/ ~ Overlaps(Last(resolved), s)
    BY <1>1, <1>3, <2>1, AddElements DEF ResolveStep
  <2>2. CASE resolved # <<>> /\ Overlaps(Last(resolved), s)
    <3> DEFINE last == Last(resolved)
    <3>1. CASE last = s
      BY <1>4, <1>7, <1>8, <2>2, <3>1
    <3>2. CASE last # s
      <4>1. last \in found \ {s}
        BY <1>2, <1>4, <2>2, <3>2
      <4>2. ~ Beats(last, s)
        BY <1>8, <4>1 DEF Unbeaten
      <4>3. /\ last \in Span /\ last.start <= s.start
            /\ Overlaps(last, s)
        BY <1>4, <2>2
      <4>4. Overlaps(s, last)
        BY <4>3 DEF Overlaps
      <4>5. /\ last.start \in Nat /\ last.end \in Nat /\ s.start \in Nat /\ s.end \in Nat
        BY <1>3, <4>3, SpanFields
      <4>6. Replaces(s, last)
        BY <4>2, <4>3, <4>4, <4>5 DEF Beats, Replaces, Length, SourcePriority
      <4>7. new = Append(Front(resolved), s)
        BY <2>2, <4>6 DEF ResolveStep
      <4> QED BY <1>1, <1>3, <2>2, <4>7, LastElements
    <3> QED BY <3>1, <3>2
  <2> QED BY <2>1, <2>2
<1>9. Unbeaten' = Unbeaten
  BY <1>1 DEF Unbeaten
<1> HIDE DEF new
<1>10. /\ (ToSet(todo) \cup ToSet(resolved) \subseteq found)'
       /\ (Unbeaten \subseteq ToSet(todo) \cup ToSet(resolved))'
  BY <1>1, <1>2, <1>3, <1>6, <1>7, <1>8, <1>9
<1> QED BY <1>1, <1>10 DEF KeptInv

\* The second pass finds no overlap.
LEMMA ResolveAgain ==
  ASSUME FusionInv, KeptInv, pass = 2, Resolve PROVE KeptInv'
<1> DEFINE s == Head(todo)
<1>1. /\ todo \in Seq(Span) /\ resolved \in Seq(Span)
      /\ pc = "resolve" /\ pc' = pc /\ todo # <<>> /\ todo' = Tail(todo)
      /\ resolved' = ResolveStep(resolved, s) /\ UNCHANGED <<pass, found, first>>
  BY DEF Resolve, FusionInv, TypeOK
<1>2. resolved \o todo = first /\ InOrder(first)
  BY <1>1 DEF KeptInv
<1>3. resolved # <<>> => ~ Overlaps(Last(resolved), s)
  <2> SUFFICES ASSUME resolved # <<>> PROVE ~ Overlaps(Last(resolved), s)
    OBVIOUS
  <2>1. /\ Len(resolved) \in 1..Len(first) - 1
        /\ first[Len(resolved)] = Last(resolved) /\ first[Len(resolved) + 1] = s
    BY <1>1, <1>2, Neighbours
  <2>2. Last(resolved).end <= s.start
    BY <1>2, <2>1 DEF InOrder
  <2>3. Last(resolved) \in Span /\ s \in Span
    BY <1>1, ReplaceLast, HeadTail
  <2>4. ~ (s.start < Last(resolved).end)
    BY <2>2, <2>3, SpanFields
  <2> QED BY <2>4 DEF Overlaps
<1>4. resolved' = Append(resolved, s)
  BY <1>1, <1>3 DEF ResolveStep
<1>5. (resolved \o todo)' = first'
  BY <1>1, <1>2, <1>4, MoveOne
<1>6. Unbeaten' = Unbeaten
  BY <1>1 DEF Unbeaten
<1>7. (\A u \in Unbeaten : Covered(u, first))' /\ InOrder(first)' /\ Apart(first)'
  BY <1>1, <1>6 DEF KeptInv, InOrder, Apart, Covered
<1>8. pass' = 2 /\ pc' = "resolve"
  BY <1>1
<1> QED BY <1>5, <1>7, <1>8 DEF KeptInv

\* Merging keeps what is covered, and a merged span is no neighbour of the one
\* before it if its first part was none.
LEMMA MergeKept ==
  ASSUME FusionInv, KeptInv, pass = 1, Merge PROVE KeptInv'
<1> DEFINE s == Head(resolved)
           n == Len(fused)
           new == MergeStep(fused, s)
<1>1. /\ resolved \in Seq(Span) /\ fused \in Seq(Span)
      /\ pc = "merge" /\ pc' = pc /\ resolved # <<>> /\ resolved' = Tail(resolved)
      /\ fused' = new /\ UNCHANGED <<pass, found>>
  BY DEF Merge, FusionInv, TypeOK
<1>2. /\ \A u \in Unbeaten : Covered(u, resolved) \/ Covered(u, fused)
      /\ Apart(fused)
  BY <1>1 DEF KeptInv
<1>3. ToSet(resolved) = {s} \cup ToSet(Tail(resolved)) /\ s \in Span /\ s = resolved[1]
  BY <1>1, HeadElements, HeadTail
<1>4. fused # <<>> => /\ Last(fused) = fused[n] /\ Last(fused) \in Span /\ n \in Nat \ {0}
                      /\ Last(fused).end <= s.start
  BY <1>1, <1>3, ReplaceLast DEF FusionInv
<1>5. Unbeaten' = Unbeaten /\ Unbeaten \subseteq Span
  BY <1>1 DEF Unbeaten, FusionInv, TypeOK
<1> HIDE DEF s
<1>6. CASE fused # <<>> /\ Mergeable(Last(fused), s)
  <2> DEFINE x == Merged(Last(fused), s)
  <2>1. new = Append(Front(fused), x)
    BY <1>6 DEF MergeStep
  <2>2. /\ x \in Span /\ x.start = Last(fused).start /\ x.end = s.end
        /\ x.type = Last(fused).type
    <3>1. x \in Span /\ x.start = Last(fused).start /\ x.end = s.end
      BY <1>3, <1>4, <1>6, MergedSpan, WidthAssumption
    <3> QED BY <3>1 DEF Merged
  <2> HIDE DEF x
  <2>3. /\ x \in ToSet(new) /\ ToSet(fused) \ {Last(fused)} \subseteq ToSet(new)
    BY <1>1, <1>6, <2>1, <2>2, LastElements
  <2>4. ASSUME NEW u \in Unbeaten PROVE Covered(u, Tail(resolved)) \/ Covered(u, new)
    <3>1. PICK y \in ToSet(resolved) \cup ToSet(fused) : y.start <= u.start /\ u.end <= y.end
      BY <1>2, <2>4 DEF Covered
    <3>2. y \in Span /\ u \in Span
      BY <1>1, <1>5, KeptElements
    <3>3. CASE y = s \/ y = Last(fused)
      <4>1. /\ Last(fused).start <= s.start /\ Last(fused).end <= s.end
            /\ Last(fused).start <= y.start /\ y.end <= s.end
        BY <1>3, <1>4, <1>6, <3>3, SpanFields
      <4>2. x.start <= u.start /\ u.end <= x.end
        BY <1>3, <1>4, <1>6, <2>2, <3>1, <3>2, <4>1, SpanFields
      <4> QED BY <2>3, <4>2 DEF Covered
    <3>4. CASE y # s /\ y # Last(fused)
      BY <1>3, <2>3, <3>1, <3>4 DEF Covered
    <3> QED BY <3>3, <3>4
  <2>5. Apart(new)
    <3> HIDE DEF n
    <3>1. /\ n \in Nat \ {0} /\ Len(new) = n /\ new[n] = x
          /\ \A i \in 1..n - 1 : new[i] = fused[i]
      <4> HIDE DEF new
      <4>1. fused \in Seq(Span) /\ fused # <<>> /\ x \in Span
        BY <1>1, <1>6, <2>2
      <4>2. /\ Len(fused) \in Nat \ {0}
            /\ Len(Append(Front(fused), x)) = Len(fused)
            /\ \A i \in 1..Len(fused) - 1 : Append(Front(fused), x)[i] = fused[i]
            /\ Append(Front(fused), x)[Len(fused)] = x
        BY ONLY <4>1, ReplaceLast
      <4> QED BY ONLY <2>1, <4>2 DEF n
    <3> HIDE DEF new
    <3> SUFFICES ASSUME NEW i \in 1..n - 1 PROVE ~ Mergeable(new[i], new[i + 1])
      BY <3>1 DEF Apart
    <3>2. ~ Mergeable(fused[i], fused[i + 1])
      BY <1>2 DEF Apart, n
    <3>3. CASE i + 1 = n
      <4>1. new[i + 1].start = fused[i + 1].start /\ new[i + 1].type = fused[i + 1].type
        BY <1>4, <1>6, <2>2, <3>1, <3>3 DEF n
      <4> QED BY <3>1, <3>2, <4>1 DEF Mergeable
    <3>4. CASE i + 1 # n
      <4>1. i + 1 \in 1..n - 1
        BY <3>1, <3>4
      <4> QED BY <3>1, <3>2, <4>1
    <3> QED BY <3>3, <3>4
  <2> HIDE DEF new
  <2> QED BY <1>1, <1>5, <2>4, <2>5 DEF KeptInv
<1>7. CASE ~ (fused # <<>> /\ Mergeable(Last(fused), s))
  <2>1. new = Append(fused, s)
    BY <1>7 DEF MergeStep
  <2>2. ToSet(new) = ToSet(fused) \cup {s}
    BY <1>1, <1>3, <2>1, AddElements
  <2>3. ASSUME NEW u \in Unbeaten PROVE Covered(u, Tail(resolved)) \/ Covered(u, new)
    BY <1>2, <1>3, <2>2, <2>3 DEF Covered
  <2>4. Apart(new)
    <3> HIDE DEF n
    <3>1. /\ n \in Nat /\ Len(new) = n + 1 /\ new[n + 1] = s
          /\ \A i \in 1..n : new[i] = fused[i]
      BY <1>1, <1>3, <2>1, AddLast DEF n
    <3> HIDE DEF new
    <3> SUFFICES ASSUME NEW i \in 1..n PROVE ~ Mergeable(new[i], new[i + 1])
      BY <3>1 DEF Apart
    <3>2. CASE i = n
      <4>1. fused # <<>>
        BY <1>1, <3>2 DEF n
      <4> QED BY <1>4, <1>7, <3>1, <3>2, <4>1 DEF n
    <3>3. CASE i # n
      <4>1. i \in 1..n - 1 /\ i + 1 \in 1..n
        BY <3>1, <3>3
      <4>2. ~ Mergeable(fused[i], fused[i + 1])
        BY <1>2, <4>1 DEF Apart, n
      <4> QED BY <3>1, <4>1, <4>2
    <3> QED BY <3>2, <3>3
  <2> HIDE DEF new
  <2> QED BY <1>1, <1>5, <2>3, <2>4 DEF KeptInv
<1> QED BY <1>6, <1>7

\* The second pass finds nothing to merge.
LEMMA MergeAgain ==
  ASSUME FusionInv, KeptInv, pass = 2, Merge PROVE KeptInv'
<1> DEFINE s == Head(resolved)
<1>1. /\ resolved \in Seq(Span) /\ fused \in Seq(Span)
      /\ pc = "merge" /\ pc' = pc /\ resolved # <<>> /\ resolved' = Tail(resolved)
      /\ fused' = MergeStep(fused, s) /\ UNCHANGED <<pass, found, first>>
  BY DEF Merge, FusionInv, TypeOK
<1>2. fused \o resolved = first /\ Apart(first)
  BY <1>1 DEF KeptInv
<1>3. fused # <<>> => ~ Mergeable(Last(fused), s)
  <2> SUFFICES ASSUME fused # <<>> PROVE ~ Mergeable(Last(fused), s)
    OBVIOUS
  <2>1. /\ Len(fused) \in 1..Len(first) - 1
        /\ first[Len(fused)] = Last(fused) /\ first[Len(fused) + 1] = s
    BY <1>1, <1>2, Neighbours
  <2> QED BY <1>2, <2>1 DEF Apart
<1>4. fused' = Append(fused, s)
  BY <1>1, <1>3 DEF MergeStep
<1>5. (fused \o resolved)' = first'
  BY <1>1, <1>2, <1>4, MoveOne
<1>6. Unbeaten' = Unbeaten
  BY <1>1 DEF Unbeaten
<1>7. (\A u \in Unbeaten : Covered(u, first))' /\ InOrder(first)' /\ Apart(first)'
  BY <1>1, <1>6 DEF KeptInv, InOrder, Apart, Covered
<1>8. pass' = 2 /\ pc' = "merge"
  BY <1>1
<1> QED BY <1>5, <1>7, <1>8 DEF KeptInv

\* Where one phase hands over to the next.
LEMMA PhaseKept ==
  ASSUME FusionInv, KeptInv, DetectDone \/ ResolveDone \/ FuseAgain \/ Replace
  PROVE  KeptInv'
<1>1. /\ UNCHANGED found /\ Unbeaten' = Unbeaten
      /\ resolved \in Seq(Span) /\ fused \in Seq(Span) /\ todo \in Seq(Span)
      /\ pass \in 1..2
  BY DEF DetectDone, ResolveDone, FuseAgain, Replace, Unbeaten, FusionInv, TypeOK
<1>2. ToSet(<<>>) = {}
  BY DEF ToSet
<1>3. CASE DetectDone
  <2>1. /\ pc = "detect" /\ pc' = "resolve" /\ pass = 1 /\ todo = todo' /\ pass = pass'
        /\ resolved = <<>> /\ resolved' = <<>> /\ ToSet(todo) = found
    BY <1>3 DEF DetectDone, KeptInv, FusionInv
  <2>2. Unbeaten \subseteq found
    BY DEF Unbeaten
  <2> QED BY <1>1, <1>2, <2>1, <2>2 DEF KeptInv
<1>4. CASE ResolveDone
  <2>1. /\ pc = "resolve" /\ pc' = "merge" /\ todo = <<>> /\ fused = <<>>
        /\ UNCHANGED <<pass, todo, resolved, fused, first>>
    BY <1>4 DEF ResolveDone, FusionInv
  <2>2. CASE pass = 1
    <3>1. Unbeaten \subseteq ToSet(resolved) /\ Unbeaten \subseteq Span
      BY <1>2, <2>1, <2>2 DEF KeptInv, Unbeaten, FusionInv, TypeOK
    <3>2. \A u \in Unbeaten : Covered(u, resolved)
      BY <3>1, SpanFields DEF Covered
    <3>3. Apart(fused)
      BY <2>1 DEF Apart
    <3> QED BY <1>1, <2>1, <2>2, <3>2, <3>3 DEF KeptInv
  <2>3. CASE pass = 2
    <3>1. fused \o resolved = first
      BY <1>1, <2>1, <2>3 DEF KeptInv
    <3> QED BY <1>1, <2>1, <2>3, <3>1 DEF KeptInv
  <2> QED BY <1>1, <2>2, <2>3
<1>5. CASE FuseAgain
  <2>1. /\ pc = "merge" /\ pc' = "resolve" /\ pass = 1 /\ pass' = 2
        /\ resolved = <<>> /\ resolved' = <<>> /\ todo' = fused /\ first' = fused
    BY <1>5 DEF FuseAgain
  <2>2. /\ \A u \in Unbeaten : Covered(u, fused)
        /\ InOrder(fused) /\ Apart(fused)
    BY <1>2, <2>1 DEF KeptInv, FusionInv, Disjoint, Covered
  <2>3. resolved' \o todo' = first'
    BY <1>1, <2>1
  <2> QED BY <1>1, <2>1, <2>2, <2>3 DEF KeptInv
<1>6. CASE Replace
  <2>1. /\ pc = "merge" /\ pc' = "replace" /\ pass = 2 /\ pass' = 2 /\ resolved = <<>>
        /\ UNCHANGED <<fused, first>>
    BY <1>6 DEF Replace
  <2>2. fused = first
    <3>1. fused \o resolved = first
      BY <2>1 DEF KeptInv
    <3> QED BY <1>1, <2>1, <3>1
  <2> QED BY <1>1, <2>1, <2>2 DEF KeptInv
<1> QED BY <1>3, <1>4, <1>5, <1>6

\* What is done to the output changes no span.
LEMMA OutputKept ==
  ASSUME FusionInv, KeptInv,
         ReplaceSpan \/ ReplaceDone \/ Rehydrate \/ RestoreToken \/ RestoreDone
  PROVE  KeptInv'
<1>1. /\ pc \in {"replace", "replaced", "restore"}
      /\ pc' \in {"replace", "replaced", "restore", "restored"}
      /\ UNCHANGED <<pass, found, fused, first>>
  BY DEF ReplaceSpan, ReplaceDone, Rehydrate, RestoreToken, RestoreDone
<1>2. Unbeaten' = Unbeaten
  BY <1>1 DEF Unbeaten
<1>3. /\ pass = 2
      /\ \A s \in Unbeaten : Covered(s, first)
      /\ InOrder(first) /\ Apart(first) /\ fused = first
  BY <1>1 DEF KeptInv
<1> QED BY <1>1, <1>2, <1>3 DEF KeptInv

LEMMA InitKept == Init => KeptInv
BY DEF Init, KeptInv, ToSet

LEMMA NextKept == FusionInv /\ KeptInv /\ [Next]_vars => KeptInv'
<1> SUFFICES ASSUME FusionInv, KeptInv, [Next]_vars PROVE KeptInv'
  OBVIOUS
<1>1. pass \in {1, 2}
  BY DEF FusionInv, TypeOK
<1>2. ASSUME NEW t \in Texts, Start(t) PROVE KeptInv'
  <2>1. /\ pc = "idle" /\ pc' = "detect" /\ pass = 1 /\ pass' = 1 /\ found' = found
        /\ found = {} /\ todo = <<>> /\ todo' = <<>>
    BY <1>2 DEF Start, KeptInv, FusionInv
  <2> QED BY <2>1 DEF KeptInv, ToSet
<1>3. ASSUME Return PROVE KeptInv'
  BY <1>3 DEF Return, KeptInv
<1>4. CASE UNCHANGED vars
  BY <1>4 DEF vars, KeptInv, Unbeaten
<1>5. CASE ReplaceSpan \/ ReplaceDone \/ Rehydrate \/ RestoreToken \/ RestoreDone
  BY <1>5, OutputKept
<1> QED BY <1>1, <1>2, <1>3, <1>4, <1>5, DetectKept, ResolveKept, ResolveAgain, MergeKept,
           MergeAgain, PhaseKept DEF Next

LEMMA KeptInvariant == Spec => [](FusionInv /\ KeptInv)
BY InitInv, NextInv, InitKept, NextKept, PTL DEF Spec

\* What no overlapping span can beat is replaced by a token, whatever the
\* detectors report around it.
THEOREM FusionUnbeatenHidden == Spec => []UnbeatenHidden
<1>1. FusionInv /\ KeptInv => UnbeatenHidden
  <2> SUFFICES ASSUME FusionInv, KeptInv, pc = "replaced", NEW u \in Unbeaten,
                      NEW k \in (u.start + 1)..u.end
               PROVE  k \in Hidden
    BY DEF UnbeatenHidden
  <2>1. Covered(u, fused) /\ fused \in Seq(Span) /\ u \in Span
    BY DEF KeptInv, FusionInv, TypeOK, Unbeaten
  <2>2. PICK i \in DOMAIN fused : fused[i].start <= u.start /\ u.end <= fused[i].end
    BY <2>1 DEF Covered, ToSet
  <2>3. fused[i] \in Span
    BY <2>1
  <2>4. k \in (fused[i].start + 1)..fused[i].end
    BY <2>1, <2>2, <2>3, SpanFields
  <2> QED BY <2>4 DEF Hidden
<1> QED BY <1>1, KeptInvariant, PTL

\* Fusing twice is fusing once.
THEOREM FusionIdempotence == Spec => []FusionIdempotent
<1>1. KeptInv => FusionIdempotent
  BY DEF KeptInv, FusionIdempotent
<1> QED BY <1>1, KeptInvariant, PTL
-----------------------------------------------------------------------------
(***************************************************************************)
(* Replacing and restoring: the pieces of the output stay laid out on the   *)
(* text.                                                                   *)
(***************************************************************************)

\* The elements from a + 1 to b of a sequence replaced by those of another.
Inserted(q, mid, a, b) == SubSeq(q, 1, a) \o mid \o SubSeq(q, b + 1, Len(q))

\* What r is then.
Insertion(r, q, mid, a, b) ==
  /\ Len(r) = a + Len(mid) + (Len(q) - b)
  /\ \A i \in 1..a : r[i] = q[i]
  /\ \A i \in 1..Len(mid) : r[a + i] = mid[i]
  /\ \A i \in 1..Len(q) - b : r[a + Len(mid) + i] = q[b + i]

LEMMA InsertedElements ==
  ASSUME NEW S, NEW q \in Seq(S), NEW mid \in Seq(S), NEW a \in 0..Len(q), NEW b \in a..Len(q)
  PROVE  /\ Inserted(q, mid, a, b) \in Seq(S)
         /\ Insertion(Inserted(q, mid, a, b), q, mid, a, b)
<1> DEFINE x == SubSeq(q, 1, a)
           y == SubSeq(q, b + 1, Len(q))
           n == Len(q)
           m == Len(mid)
<1>1. n \in Nat /\ m \in Nat /\ a \in 0..n /\ b \in a..n
  OBVIOUS
<1>2. x \in Seq(S) /\ Len(x) = a /\ \A i \in 1..a : x[i] = q[i]
  <2>1. 1 \in Int /\ a \in Int /\ \A i \in 1..a : q[i] \in S
    OBVIOUS
  <2> QED
    BY <1>1, <2>1, SubSeqProperties
<1>3. y \in Seq(S) /\ Len(y) = n - b /\ \A i \in 1..n - b : y[i] = q[b + i]
  <2>1. b + 1 \in Int /\ Len(q) \in Int /\ \A i \in b + 1..Len(q) : q[i] \in S
    OBVIOUS
  <2>2. /\ y \in Seq(S)
        /\ Len(y) = IF b + 1 <= n THEN n - (b + 1) + 1 ELSE 0
        /\ \A i \in 1..n - (b + 1) + 1 : y[i] = q[b + 1 + i - 1]
    BY <2>1, SubSeqProperties
  <2>3. \A i \in 1..n - b : b + 1 + i - 1 = b + i /\ i \in 1..n - (b + 1) + 1
    BY <1>1
  <2> HIDE DEF y, n
  <2> QED
    BY <1>1, <2>2, <2>3
<1> HIDE DEF x, y
<1>4. /\ x \o mid \in Seq(S) /\ Len(x \o mid) = a + m
      /\ \A i \in 1..a + m : (x \o mid)[i] = IF i <= a THEN x[i] ELSE mid[i - a]
  BY <1>2, ConcatProperties
<1> DEFINE z == x \o mid
<1> HIDE DEF z
<1>5. z \in Seq(S) /\ Len(z) = a + m
  BY <1>4 DEF z
<1>6. /\ z \o y \in Seq(S) /\ Len(z \o y) = a + m + (n - b)
      /\ \A i \in 1..a + m + (n - b) : (z \o y)[i] = IF i <= a + m THEN z[i] ELSE y[i - (a + m)]
  <2>1. /\ z \o y \in Seq(S) /\ Len(z \o y) = Len(z) + Len(y)
        /\ \A i \in 1..Len(z) + Len(y) :
             (z \o y)[i] = IF i <= Len(z) THEN z[i] ELSE y[i - Len(z)]
    <3>1. z \in Seq(S) /\ y \in Seq(S)
      BY <1>3, <1>5
    <3> QED BY ONLY <3>1, ConcatProperties
  <2>2. Len(z) = a + m /\ Len(y) = n - b
    BY <1>3, <1>5
  <2> QED BY ONLY <2>1, <2>2
<1> DEFINE r == Inserted(q, mid, a, b)
<1>7. r = z \o y
  BY DEF Inserted, x, y, z
<1> HIDE DEF r, n, m
<1>8. ASSUME NEW i \in 1..a PROVE r[i] = q[i]
  <2>1. i \in 1..a + m + (n - b) /\ i \in 1..a + m /\ i <= a + m
    BY <1>1
  <2>2. r[i] = z[i] /\ z[i] = x[i]
    BY <1>4, <1>6, <1>7, <2>1 DEF z
  <2> QED BY <1>2, <2>2
<1>9. ASSUME NEW i \in 1..m PROVE r[a + i] = mid[i]
  <2>1. a + i \in 1..a + m + (n - b) /\ a + i \in 1..a + m /\ a + i <= a + m
        /\ ~ (a + i <= a) /\ (a + i) - a = i
    BY <1>1
  <2>2. r[a + i] = z[a + i] /\ z[a + i] = mid[(a + i) - a]
    BY <1>4, <1>6, <1>7, <2>1 DEF z
  <2> QED BY <2>1, <2>2
<1>10. ASSUME NEW i \in 1..n - b PROVE r[a + m + i] = q[b + i]
  <2>1. /\ (a + m + i) \in 1..a + m + (n - b) /\ ~ (a + m + i <= a + m)
        /\ (a + m + i) - (a + m) = i
    BY <1>1
  <2> DEFINE j == a + m + i
  <2>2. j \in 1..a + m + (n - b) /\ ~ (j <= a + m) /\ j - (a + m) = i
    BY <2>1
  <2> HIDE DEF j
  <2>3. (z \o y)[j] = y[j - (a + m)]
    BY <1>6, <2>2
  <2>4. r[j] = y[i]
    BY <1>7, <2>2, <2>3
  <2> QED BY <1>3, <2>4 DEF j
<1> QED BY <1>6, <1>7, <1>8, <1>9, <1>10 DEF r, n, m, Insertion

\* Between two positions without a token between them are as many characters
\* as pieces.
Run(pieces, at, i, j) ==
  i <= j /\ (\A k \in i..j - 1 : ~ pieces[k].masked) => at[j] - at[i] = j - i

\* The positions of the pieces after an insertion.
Shifted(at, into, a, b, m, n) ==
  [i \in 1..a + m + (n - b) + 1 |->
     IF i <= a THEN at[i] ELSE IF i <= a + m THEN into[i - a] ELSE at[i - a - m + b]]

\* A layout stays one when pieces are replaced by others that fill the same
\* part of the text.
LEMMA Relaid ==
  ASSUME NEW q \in Seq(Piece), NEW mid \in Seq(Piece),
         NEW a \in 0..Len(q), NEW b \in a..Len(q), text \in Seq(DOMAIN Width),
         NEW at \in [1..Len(q) + 1 -> 0..Len(text)], Layout(q, at),
         NEW into \in [1..Len(mid) + 1 -> 0..Len(text)],
         into[1] = at[a + 1], into[Len(mid) + 1] = at[b + 1],
         \A i \in 1..Len(mid) : LiesAt(mid[i], into[i], into[i + 1]),
         \A i, j \in 1..Len(mid) + 1 : Run(mid, into, i, j)
  PROVE  \E new \in [1..Len(Inserted(q, mid, a, b)) + 1 -> 0..Len(text)] :
           Layout(Inserted(q, mid, a, b), new)
<1> DEFINE n == Len(q)
           m == Len(mid)
           r == Inserted(q, mid, a, b)
           last == a + m + (n - b) + 1
           new == Shifted(at, into, a, b, m, n)
<1>1. n \in Nat /\ m \in Nat /\ a \in 0..n /\ b \in a..n /\ Len(text) \in Nat
  OBVIOUS
<1>2. /\ r \in Seq(Piece) /\ Len(r) = a + m + (n - b)
      /\ \A i \in 1..a : r[i] = q[i]
      /\ \A i \in 1..m : r[a + i] = mid[i]
      /\ \A i \in 1..n - b : r[a + m + i] = q[b + i]
  <2>1. r \in Seq(Piece) /\ Insertion(r, q, mid, a, b)
    BY InsertedElements
  <2> HIDE DEF r
  <2> QED BY <2>1 DEF Insertion
<1>3. /\ at \in [1..n + 1 -> 0..Len(text)] /\ into \in [1..m + 1 -> 0..Len(text)]
      /\ into[1] = at[a + 1] /\ into[m + 1] = at[b + 1]
      /\ \A i \in 1..m : LiesAt(mid[i], into[i], into[i + 1])
      /\ \A i, j \in 1..m + 1 : Run(mid, into, i, j)
  OBVIOUS
<1>4. /\ at[1] = 0 /\ at[n + 1] = Len(text)
      /\ \A i \in 1..n : LiesAt(q[i], at[i], at[i + 1])
      /\ \A i, j \in 1..n + 1 : Run(q, at, i, j)
  BY DEF Layout, Run
<1> HIDE DEF n, m, r
<1>5. new \in [1..last -> 0..Len(text)]
  <2> SUFFICES ASSUME NEW i \in 1..last
               PROVE  (IF i <= a THEN at[i] ELSE IF i <= a + m THEN into[i - a]
                       ELSE at[i - a - m + b]) \in 0..Len(text)
    BY DEF Shifted
  <2>1. /\ i <= a => i \in 1..n + 1
        /\ ~ (i <= a) /\ i <= a + m => i - a \in 1..m + 1
        /\ ~ (i <= a + m) => i - a - m + b \in 1..n + 1
    BY <1>1
  <2> QED BY <1>3, <2>1
<1>6. \A i \in 1..a + 1 : new[i] = at[i]
  <2> SUFFICES ASSUME NEW i \in 1..a + 1 PROVE new[i] = at[i]
    OBVIOUS
  <2>1. i \in 1..last /\ (i <= a \/ i = a + 1)
    BY <1>1
  <2>2. CASE i <= a
    BY <2>1, <2>2 DEF Shifted
  <2>3. CASE i = a + 1 /\ m # 0
    <3>1. ~ (i <= a) /\ i <= a + m /\ i - a = 1
      BY <1>1, <2>3
    <3> QED BY <1>3, <2>1, <2>3, <3>1 DEF Shifted
  <2>4. CASE i = a + 1 /\ m = 0
    <3>1. ~ (i <= a) /\ ~ (i <= a + m) /\ i - a - m + b = b + 1 /\ m + 1 = 1
      BY <1>1, <2>4
    <3>2. new[i] = at[b + 1]
      BY <2>1, <3>1 DEF Shifted
    <3> QED BY <1>3, <2>4, <3>1, <3>2
  <2> QED BY <2>1, <2>2, <2>3, <2>4
<1>7. \A i \in 1..m + 1 : new[a + i] = into[i]
  <2> SUFFICES ASSUME NEW i \in 1..m + 1 PROVE new[a + i] = into[i]
    OBVIOUS
  <2>1. a + i \in 1..last /\ ~ (a + i <= a) /\ (i <= m \/ i = m + 1)
    BY <1>1
  <2>2. CASE i <= m
    <3>1. a + i <= a + m /\ (a + i) - a = i
      BY <1>1, <2>2
    <3> QED BY <2>1, <3>1 DEF Shifted
  <2>3. CASE i = m + 1
    <3> DEFINE j == a + i
    <3>1. ~ (j <= a) /\ ~ (j <= a + m) /\ j - a - m + b = b + 1 /\ j \in 1..last
      BY <1>1, <2>1, <2>3
    <3> HIDE DEF j, last
    <3>2. new[j] = at[j - a - m + b]
      BY <3>1 DEF Shifted, last
    <3> QED BY <1>3, <2>3, <3>1, <3>2 DEF j
  <2> QED BY <2>1, <2>2, <2>3
<1>8. \A i \in 1..n - b + 1 : new[a + m + i] = at[b + i]
  <2> SUFFICES ASSUME NEW i \in 1..n - b + 1 PROVE new[a + m + i] = at[b + i]
    OBVIOUS
  <2>1. /\ a + m + i \in 1..last /\ ~ (a + m + i <= a) /\ ~ (a + m + i <= a + m)
        /\ (a + m + i) - a - m + b = b + i
    BY <1>1
  <2> DEFINE j == a + m + i
  <2>2. /\ j \in 1..last /\ ~ (j <= a) /\ ~ (j <= a + m)
        /\ j - a - m + b = b + i
    BY <2>1
  <2> HIDE DEF j
  <2>3. new[j] = at[j - a - m + b]
    BY <2>2 DEF Shifted
  <2> QED BY <2>2, <2>3 DEF j
<1> HIDE DEF new
<1>9. new[1] = 0 /\ new[last] = Len(text)
  <2>1. 1 \in 1..a + 1 /\ n - b + 1 \in 1..n - b + 1 /\ a + m + (n - b + 1) = last
        /\ b + (n - b + 1) = n + 1
    BY <1>1
  <2> QED BY <1>4, <1>6, <1>8, <2>1
<1>10. ASSUME NEW i \in 1..last - 1 PROVE LiesAt(r[i], new[i], new[i + 1])
  <2>1. i \in 1..a \/ (i - a \in 1..m) \/ (i - a - m \in 1..n - b)
    BY <1>1
  <2>2. CASE i \in 1..a
    <3>1. i \in 1..a + 1 /\ i + 1 \in 1..a + 1 /\ i \in 1..n
      BY <1>1, <2>2
    <3> QED BY <1>2, <1>4, <1>6, <2>2, <3>1
  <2>3. CASE i - a \in 1..m
    <3> DEFINE h == i - a
    <3>1. /\ h \in 1..m /\ h \in 1..m + 1 /\ h + 1 \in 1..m + 1
          /\ i = a + h /\ i + 1 = a + (h + 1)
      BY <1>1, <2>3
    <3> HIDE DEF h
    <3>2. new[i] = into[h] /\ new[i + 1] = into[h + 1] /\ r[i] = mid[h]
      BY <1>2, <1>7, <3>1
    <3> QED BY <1>3, <3>1, <3>2
  <2>4. CASE i - a - m \in 1..n - b
    <3> DEFINE h == i - a - m
    <3>1. /\ h \in 1..n - b /\ h \in 1..n - b + 1 /\ h + 1 \in 1..n - b + 1
          /\ i = a + m + h /\ i + 1 = a + m + (h + 1) /\ b + h \in 1..n
          /\ b + (h + 1) = b + h + 1
      BY <1>1, <2>4
    <3> HIDE DEF h
    <3>2. new[i] = at[b + h] /\ new[i + 1] = at[b + h + 1] /\ r[i] = q[b + h]
      BY <1>2, <1>8, <3>1
    <3> QED BY <1>4, <3>1, <3>2
  <2> QED BY <2>1, <2>2, <2>3, <2>4
<1>11. ASSUME NEW i \in 1..a + 1, NEW j \in 1..a + 1 PROVE Run(r, new, i, j)
  <2>1. SUFFICES ASSUME i <= j, \A k \in i..j - 1 : ~ r[k].masked
                 PROVE  new[j] - new[i] = j - i
    BY DEF Run
  <2>2. ASSUME NEW k \in i..j - 1 PROVE ~ q[k].masked
    <3>1. k \in 1..a
      BY <1>1
    <3> QED BY <1>2, <2>1, <3>1
  <2>3. i \in 1..n + 1 /\ j \in 1..n + 1
    BY <1>1
  <2>4. at[j] - at[i] = j - i
    <3>1. Run(q, at, i, j)
      BY <1>4, <2>3
    <3> QED BY ONLY <2>1, <2>2, <3>1 DEF Run
  <2> QED BY <1>6, <2>4
<1>12. ASSUME NEW i \in a + 1..a + m + 1, NEW j \in a + 1..a + m + 1 PROVE Run(r, new, i, j)
  <2>1. SUFFICES ASSUME i <= j, \A k \in i..j - 1 : ~ r[k].masked
                 PROVE  new[j] - new[i] = j - i
    BY DEF Run
  <2> DEFINE g == i - a
             h == j - a
  <2>2. /\ g \in 1..m + 1 /\ h \in 1..m + 1 /\ i = a + g /\ j = a + h /\ g <= h
        /\ h - g = j - i
    BY <1>1, <2>1
  <2> HIDE DEF g, h
  <2>3. ASSUME NEW k \in g..h - 1 PROVE ~ mid[k].masked
    <3>1. k \in 1..m /\ a + k \in i..j - 1
      BY <1>1, <2>2
    <3> QED BY <1>2, <2>1, <3>1
  <2>4. into[h] - into[g] = h - g
    <3>1. Run(mid, into, g, h)
      BY <1>3, <2>2
    <3> QED BY ONLY <2>2, <2>3, <3>1 DEF Run
  <2> QED BY <1>7, <2>2, <2>4
<1>13. ASSUME NEW i \in a + m + 1..last, NEW j \in a + m + 1..last PROVE Run(r, new, i, j)
  <2>1. SUFFICES ASSUME i <= j, \A k \in i..j - 1 : ~ r[k].masked
                 PROVE  new[j] - new[i] = j - i
    BY DEF Run
  <2> DEFINE g == i - a - m
             h == j - a - m
  <2>2. /\ g \in 1..n - b + 1 /\ h \in 1..n - b + 1 /\ i = a + m + g /\ j = a + m + h
        /\ g <= h /\ (b + h) - (b + g) = j - i /\ b + g \in 1..n + 1 /\ b + h \in 1..n + 1
        /\ b + g <= b + h
    BY <1>1, <2>1
  <2> HIDE DEF g, h
  <2>3. ASSUME NEW k \in b + g..b + h - 1 PROVE ~ q[k].masked
    <3> DEFINE l == k - b
    <3>1. l \in 1..n - b /\ a + m + l \in i..j - 1 /\ k = b + l
      BY <1>1, <2>2
    <3> HIDE DEF l
    <3> QED BY <1>2, <2>1, <3>1
  <2>4. at[b + h] - at[b + g] = (b + h) - (b + g)
    <3> DEFINE u == b + g
               v == b + h
    <3>1. u \in 1..n + 1 /\ v \in 1..n + 1 /\ u <= v /\ \A k \in u..v - 1 : ~ q[k].masked
      BY <2>2, <2>3
    <3> HIDE DEF u, v
    <3>2. Run(q, at, u, v)
      BY <1>4, <3>1
    <3>3. at[v] - at[u] = v - u
      BY ONLY <3>1, <3>2 DEF Run
    <3> QED BY <3>3 DEF u, v
  <2> QED BY <1>8, <2>2, <2>4
<1>14. ASSUME NEW i \in 1..last, NEW j \in 1..last, NEW c \in i..j,
              Run(r, new, i, c), Run(r, new, c, j)
       PROVE  Run(r, new, i, j)
  <2>1. SUFFICES ASSUME i <= j, \A k \in i..j - 1 : ~ r[k].masked
                 PROVE  new[j] - new[i] = j - i
    BY DEF Run
  <2>2. i <= c /\ c <= j /\ c \in 1..last
        /\ (\A k \in i..c - 1 : k \in i..j - 1) /\ (\A k \in c..j - 1 : k \in i..j - 1)
    BY <1>1
  <2>3. new[c] - new[i] = c - i /\ new[j] - new[c] = j - c
    BY <1>14, <2>1, <2>2 DEF Run
  <2> DEFINE u == new[i]
             v == new[c]
             w == new[j]
  <2>4. u \in Int /\ v \in Int /\ w \in Int /\ c \in Int /\ i \in Int /\ j \in Int
    BY <1>1, <1>5, <2>2
  <2>5. v - u = c - i /\ w - v = j - c
    BY <2>3
  <2> HIDE DEF u, v, w
  <2>6. w - u = j - i
    BY ONLY <2>4, <2>5
  <2> QED BY <2>6 DEF u, w
<1>15. ASSUME NEW i \in 1..last, NEW j \in 1..last, i <= j PROVE Run(r, new, i, j)
  <2>1. ASSUME NEW x \in a + 1..a + m + 1, NEW y \in a + m + 1..last PROVE Run(r, new, x, y)
    <3>1. /\ a + m + 1 \in x..y /\ a + m + 1 \in a + 1..a + m + 1
          /\ a + m + 1 \in a + m + 1..last /\ x \in 1..last /\ y \in 1..last
      BY <1>1
    <3>2. Run(r, new, x, a + m + 1) /\ Run(r, new, a + m + 1, y)
      BY <1>12, <1>13, <3>1
    <3> QED BY <1>14, <3>1, <3>2
  <2>2. ASSUME NEW x \in 1..a + 1, NEW y \in a + 1..last PROVE Run(r, new, x, y)
    <3>1. /\ a + 1 \in x..y /\ a + 1 \in a + 1..a + m + 1 /\ a + 1 \in 1..a + 1
          /\ x \in 1..last /\ y \in 1..last
          /\ y \in a + 1..a + m + 1 \/ y \in a + m + 1..last
      BY <1>1
    <3>2. Run(r, new, x, a + 1) /\ Run(r, new, a + 1, y)
      BY <1>11, <1>12, <2>1, <3>1
    <3> QED BY <1>14, <3>1, <3>2
  <2>3. \/ i \in 1..a + 1 /\ j \in 1..a + 1
        \/ i \in 1..a + 1 /\ j \in a + 1..last
        \/ i \in a + 1..a + m + 1 /\ j \in a + 1..a + m + 1
        \/ i \in a + 1..a + m + 1 /\ j \in a + m + 1..last
        \/ i \in a + m + 1..last /\ j \in a + m + 1..last
    BY <1>1, <1>15
  <2> QED BY <1>11, <1>12, <1>13, <2>1, <2>2, <2>3
<1>16. Len(r) + 1 = last /\ last - 1 = Len(r)
  BY <1>1, <1>2
<1> HIDE DEF last
<1>17. Layout(r, new)
  <2>1. \A i \in 1..Len(r) : LiesAt(r[i], new[i], new[i + 1])
    BY <1>10, <1>16
  <2>2. ASSUME NEW i \in 1..last, NEW j \in 1..last,
               i <= j, \A k \in i..j - 1 : ~ r[k].masked
        PROVE  new[j] - new[i] = j - i
    BY <1>15, <2>2 DEF Run
  <2> QED BY <1>9, <1>16, <2>1, <2>2 DEF Layout
<1> QED BY <1>5, <1>16, <1>17 DEF r

-----------------------------------------------------------------------------
\* The spans that are still of use.
AllSpans == found \cup ToSet(todo) \cup ToSet(resolved) \cup ToSet(fused)

SpansFaithful == \A s \in AllSpans : Faithful(s)

\* A span whose range is in the text has the text of its range.
LEMMA SpanAtFaithful ==
  ASSUME TypeOK, NEW start \in Nat, NEW end \in Nat, start < end, end <= Len(text),
         NEW type \in Type, NEW source \in {"regex", "slm"}
  PROVE  Faithful(SpanAt(start, end, type, source))
<1> DEFINE s == SpanAt(start, end, type, source)
           t == SubSeq(text, start + 1, end)
<1>1. text \in Seq(DOMAIN Width) /\ Len(text) \in Nat
  BY DEF TypeOK
<1>2. s.start = start /\ s.end = end /\ s.text = t
  <2>1. (IF end < Len(text) THEN end ELSE Len(text)) = end
    BY <1>1
  <2> QED BY <2>1 DEF SpanAt, Slice
<1>3. /\ Len(t) = end - start
      /\ \A i \in 1..end - start : t[i] = text[start + i]
  <2>1. start + 1 \in Int /\ end \in Int /\ \A i \in start + 1..end : text[i] \in DOMAIN Width
    BY <1>1
  <2>2. /\ Len(t) = IF start + 1 <= end THEN end - (start + 1) + 1 ELSE 0
        /\ \A i \in 1..end - (start + 1) + 1 : t[i] = text[start + 1 + i - 1]
    BY <2>1, SubSeqProperties
  <2>3. start + 1 <= end /\ end - (start + 1) + 1 = end - start
        /\ \A i \in 1..end - start : start + 1 + i - 1 = start + i
    OBVIOUS
  <2> HIDE DEF t
  <2> QED BY <2>2, <2>3
<1> HIDE DEF s, t
<1>4. Length(s) = end - start
  BY <1>2 DEF Length
<1>5. s.end <= Len(text) /\ Len(s.text) = Length(s)
  BY <1>2, <1>3, <1>4
<1>6. \A j \in 1..Length(s) : s.text[j] = text[s.start + j]
  BY <1>2, <1>3, <1>4
<1> QED BY <1>5, <1>6 DEF Faithful, s

\* Merging two such spans puts a blank where the gap was.
LEMMA MergedFaithful ==
  ASSUME NEW x \in Span, NEW y \in Span, Mergeable(x, y), Faithful(x), Faithful(y),
         Len(text) \in Nat, Blank \in DOMAIN Width
  PROVE  Faithful(Merged(x, y))
<1> DEFINE s == Merged(x, y)
           gap == IF y.start - x.end = 1 THEN <<Blank>> ELSE <<>>
           g == y.start - x.end
           l == Length(x)
           r == Length(y)
           w == x.text \o gap
           t == w \o y.text
<1>1. /\ x.start \in Nat /\ x.end \in Nat /\ x.start < x.end
      /\ y.start \in Nat /\ y.end \in Nat /\ y.start < y.end
      /\ x.text \in Seq(DOMAIN Width) /\ y.text \in Seq(DOMAIN Width)
  BY DEF Span
<1>2. g \in 0..1
  BY DEF Mergeable
<1>3. l \in Nat \ {0} /\ r \in Nat \ {0} /\ y.end - x.start = l + g + r
      /\ y.start = x.start + l + g
  BY <1>1, <1>2, SMTT(30) DEF Length
<1>4. /\ x.end <= Len(text) /\ Len(x.text) = l
      /\ \A j \in 1..l : \/ x.text[j] = text[x.start + j]
                         \/ x.text[j] = Blank /\ 1 < j /\ j < l
      /\ y.end <= Len(text) /\ Len(y.text) = r
      /\ \A j \in 1..r : \/ y.text[j] = text[y.start + j]
                         \/ y.text[j] = Blank /\ 1 < j /\ j < r
  BY DEF Faithful
<1>5. gap \in Seq(DOMAIN Width) /\ Len(gap) = g /\ \A j \in 1..g : gap[j] = Blank
  <2>1. CASE g = 1
    <3>1. gap = <<Blank>>
      BY <2>1
    <3> QED BY <2>1, <3>1
  <2>2. CASE g = 0
    <3>1. gap = <<>>
      BY <2>2
    <3>2. <<>> \in Seq(DOMAIN Width) /\ Len(<<>>) = 0
      OBVIOUS
    <3>3. \A j \in 1..0 : gap[j] = Blank
      OBVIOUS
    <3> HIDE DEF gap, g
    <3> QED BY <2>2, <3>1, <3>2, <3>3
  <2> QED BY <1>2, <2>1, <2>2
<1>6. s.start = x.start /\ s.end = y.end /\ s.text = t
  <2>1. s.start = x.start /\ s.end = y.end /\ s.text = x.text \o gap \o y.text
    BY DEF Merged
  <2> QED BY <2>1
<1> HIDE DEF gap, g, l, r, s
<1>7. /\ w \in Seq(DOMAIN Width) /\ Len(w) = l + g
      /\ \A j \in 1..l + g : w[j] = IF j <= l THEN x.text[j] ELSE gap[j - l]
  <2>1. x.text \in Seq(DOMAIN Width) /\ gap \in Seq(DOMAIN Width)
    BY <1>1, <1>5
  <2>2. /\ w \in Seq(DOMAIN Width) /\ Len(w) = Len(x.text) + Len(gap)
        /\ \A j \in 1..Len(x.text) + Len(gap) :
             w[j] = IF j <= Len(x.text) THEN x.text[j] ELSE gap[j - Len(x.text)]
    BY ONLY <2>1, ConcatProperties
  <2> HIDE DEF w
  <2> QED BY <1>4, <1>5, <2>2
<1> HIDE DEF w
<1>8. /\ Len(t) = l + g + r
      /\ \A j \in 1..l + g + r : t[j] = IF j <= l + g THEN w[j] ELSE y.text[j - (l + g)]
  <2>1. w \in Seq(DOMAIN Width) /\ y.text \in Seq(DOMAIN Width)
    BY <1>1, <1>7
  <2>2. /\ Len(t) = Len(w) + Len(y.text)
        /\ \A j \in 1..Len(w) + Len(y.text) :
             t[j] = IF j <= Len(w) THEN w[j] ELSE y.text[j - Len(w)]
    BY ONLY <2>1, ConcatProperties
  <2> HIDE DEF t
  <2> QED BY <1>4, <1>7, <2>2
<1> HIDE DEF t
<1>9. Length(s) = l + g + r
  BY <1>3, <1>6 DEF Length
<1>10. ASSUME NEW j \in 1..l + g + r
       PROVE  \/ t[j] = text[x.start + j]
              \/ t[j] = Blank /\ 1 < j /\ j < l + g + r
  <2>1. CASE j \in 1..l
    <3>1. t[j] = x.text[j] /\ j < l + g + r
      BY <1>2, <1>3, <1>7, <1>8, <2>1
    <3> QED BY <1>3, <1>4, <2>1, <3>1
  <2>2. CASE j = l + g /\ g = 1
    <3>1. t[j] = gap[1] /\ 1 < j /\ j < l + g + r
      BY <1>2, <1>3, <1>7, <1>8, <2>2
    <3> QED BY <1>5, <2>2, <3>1
  <2>3. CASE j - (l + g) \in 1..r
    <3> DEFINE h == j - (l + g)
    <3>1. h \in 1..r /\ y.start + h = x.start + j /\ ~ (j <= l + g)
          /\ (1 < h => 1 < j) /\ (h < r => j < l + g + r)
      BY <1>1, <1>2, <1>3, <2>3, SMTT(30)
    <3>2. t[j] = y.text[h]
      BY <1>8, <3>1
    <3> HIDE DEF h
    <3> QED BY <1>4, <3>1, <3>2
  <2> QED BY <1>2, <1>3, <2>1, <2>2, <2>3
<1> QED BY <1>4, <1>6, <1>8, <1>9, <1>10 DEF Faithful, s

\* Every span that fuse_spans keeps or makes is such a span.
LEMMA NextFaithful ==
  ASSUME FusionInv, KeptInv, Next, OffsetsInside => SpansFaithful, OffsetsInside'
  PROVE  SpansFaithful'
<1>0. /\ todo \in Seq(Span) /\ resolved \in Seq(Span) /\ fused \in Seq(Span)
      /\ found \subseteq Span /\ Len(text) \in Nat
      /\ ToSet(<<>>) = {}
  BY DEF FusionInv, TypeOK, ToSet
<1>1. CASE \E t \in Texts : Start(t)
  <2>1. found' = {} /\ todo' = <<>> /\ resolved' = <<>> /\ fused' = <<>>
    BY <1>1 DEF Start, FusionInv, KeptInv
  <2> QED BY <1>0, <2>1 DEF SpansFaithful, AllSpans
<1>2. CASE Return
  <2>1. found' = {} /\ todo' = <<>> /\ resolved' = <<>> /\ fused' = <<>>
    BY <1>2 DEF Return
  <2> QED BY <1>0, <2>1 DEF SpansFaithful, AllSpans
<1>3. ASSUME text' = text, found \subseteq found' PROVE SpansFaithful
  BY <1>3 DEF OffsetsInside
<1>4. ASSUME text' = text PROVE \A s : Faithful(s)' <=> Faithful(s)
  BY <1>4 DEF Faithful
<1>5. ASSUME NEW source \in Detector, NEW type \in Type,
             NEW start \in 0..MaxLength, NEW end \in 0..MaxLength,
             Detect(start, end, type, source)
      PROVE  SpansFaithful'
  <2> DEFINE s == SpanAt(start, end, type, source)
  <2>1. /\ UNCHANGED <<text, resolved, fused>> /\ start < end
        /\ todo' = Append(todo, s) /\ found' = found \cup {s}
    BY <1>5 DEF Detect
  <2>2. /\ s \in Span /\ start \in Nat /\ end \in Nat /\ source \in {"regex", "slm"}
    BY SpanAtType, DetectorAssumption, BoundAssumption, <2>1 DEF FusionInv
  <2>3. s \in found' /\ s.end = end
    BY <2>1 DEF SpanAt
  <2>4. end <= Len(text)
    BY <2>1, <2>3 DEF OffsetsInside
  <2>5. Faithful(s)
    BY <2>1, <2>2, <2>4, SpanAtFaithful DEF FusionInv
  <2> HIDE DEF s
  <2>6. ToSet(todo)' = ToSet(todo) \cup {s}
    BY <1>0, <2>1, <2>2, AddElements
  <2>7. \A x \in AllSpans' : x \in AllSpans \/ x = s
    BY <2>1, <2>6 DEF AllSpans
  <2> QED BY <1>3, <1>4, <2>1, <2>5, <2>7 DEF SpansFaithful
<1>6. CASE Merge
  <2> DEFINE s == Head(resolved)
  <2>1. /\ UNCHANGED <<text, found, todo>> /\ resolved # <<>> /\ pc = "merge"
        /\ resolved' = Tail(resolved) /\ fused' = MergeStep(fused, s)
    BY <1>6 DEF Merge
  <2>2. ToSet(resolved) = {s} \cup ToSet(Tail(resolved)) /\ s \in Span /\ s = resolved[1]
    BY <1>0, <2>1, HeadElements, HeadTail
  <2>3. SpansFaithful
    BY <1>3, <2>1
  <2>4. Faithful(s)
    BY <2>2, <2>3 DEF SpansFaithful, AllSpans
  <2> HIDE DEF s
  <2>5. CASE fused # <<>> /\ Mergeable(Last(fused), s)
    <3> DEFINE x == Merged(Last(fused), s)
    <3>1. Last(fused) \in Span /\ Last(fused) \in ToSet(fused) /\ Last(fused).end <= s.start
      <4>1. Last(fused) = fused[Len(fused)] /\ Last(fused) \in Span
        BY <1>0, <2>5, ReplaceLast, <2>2
      <4>2. Last(fused) \in ToSet(fused)
        BY <1>0, <2>2, <2>5, LastElements
      <4> QED BY <2>1, <2>2, <2>5, <4>1, <4>2 DEF FusionInv
    <3>2. Faithful(Last(fused))
      BY <2>3, <3>1 DEF SpansFaithful, AllSpans
    <3>3. Faithful(x) /\ x \in Span
      BY <1>0, <2>2, <2>4, <2>5, <3>1, <3>2, MergedFaithful, MergedSpan, WidthAssumption
    <3> HIDE DEF x
    <3>4. fused' = Append(Front(fused), x)
      BY <2>1, <2>5 DEF MergeStep, x
    <3>5. ToSet(Append(Front(fused), x)) \subseteq ToSet(fused) \cup {x}
      BY <1>0, <2>5, <3>3, LastElements
    <3>6. \A y \in AllSpans' : y \in AllSpans \/ y = x
      BY <2>1, <2>2, <3>4, <3>5 DEF AllSpans
    <3> QED BY <1>4, <2>1, <2>3, <3>3, <3>6 DEF SpansFaithful
  <2>6. CASE ~ (fused # <<>> /\ Mergeable(Last(fused), s))
    <3>1. fused' = Append(fused, s)
      BY <2>1, <2>6 DEF MergeStep
    <3>2. ToSet(Append(fused, s)) = ToSet(fused) \cup {s}
      BY <1>0, <2>2, AddElements
    <3>3. \A y \in AllSpans' : y \in AllSpans
      BY <2>1, <2>2, <3>1, <3>2 DEF AllSpans
    <3> QED BY <1>4, <2>1, <2>3, <3>3 DEF SpansFaithful
  <2> QED BY <2>5, <2>6
<1>7. ASSUME UNCHANGED <<text, found>>, AllSpans' \subseteq AllSpans PROVE SpansFaithful'
  BY <1>3, <1>4, <1>7 DEF SpansFaithful
<1>8. CASE Resolve
  <2> DEFINE s == Head(todo)
  <2>1. /\ UNCHANGED <<text, found, fused>> /\ todo # <<>>
        /\ todo' = Tail(todo) /\ resolved' = ResolveStep(resolved, s)
    BY <1>8 DEF Resolve
  <2>2. ToSet(todo) = {s} \cup ToSet(Tail(todo)) /\ s \in Span
    BY <1>0, <2>1, HeadElements, HeadTail
  <2> HIDE DEF s
  <2>3. ToSet(ResolveStep(resolved, s)) \subseteq ToSet(resolved) \cup {s}
    BY <1>0, <2>2, AddElements, LastElements DEF ResolveStep
  <2>4. AllSpans' \subseteq AllSpans
    BY <2>1, <2>2, <2>3 DEF AllSpans
  <2> QED BY <1>7, <2>1, <2>4
<1>9. CASE ReplaceSpan
  <2>1. /\ UNCHANGED <<text, found, resolved, fused>> /\ todo # <<>> /\ todo' = Front(todo)
    BY <1>9 DEF ReplaceSpan
  <2>2. /\ Front(todo) \in Seq(Span) /\ Len(todo) \in Nat \ {0} /\ Len(Front(todo)) = Len(todo) - 1
        /\ \A i \in 1..Len(todo) - 1 : Front(todo)[i] = todo[i]
    BY <1>0, <2>1, FrontOf
  <2>3. ToSet(Front(todo)) \subseteq ToSet(todo)
    BY <1>0, <2>2 DEF ToSet
  <2> QED BY <1>7, <2>1, <2>3 DEF AllSpans
<1>10. CASE DetectDone \/ ResolveDone \/ ReplaceDone \/ Rehydrate \/ RestoreToken \/ RestoreDone
  BY <1>7, <1>10
     DEF AllSpans, DetectDone, ResolveDone, ReplaceDone, Rehydrate, RestoreToken, RestoreDone
<1>11. CASE FuseAgain
  BY <1>0, <1>7, <1>11 DEF AllSpans, FuseAgain
<1>12. CASE Replace
  BY <1>0, <1>7, <1>12 DEF AllSpans, Replace
<1> QED BY <1>1, <1>2, <1>5, <1>6, <1>8, <1>9, <1>10, <1>11, <1>12 DEF Next

-----------------------------------------------------------------------------
\* The output consists of pieces.
LEMMA PlainPieces ==
  ASSUME NEW t \in Seq(DOMAIN Width)
  PROVE  /\ Plain(t) \in Seq(Piece) /\ Len(Plain(t)) = Len(t)
         /\ \A i \in 1..Len(t) : Plain(t)[i] = [masked |-> FALSE, text |-> <<t[i]>>]
<1>1. Len(t) \in Nat /\ DOMAIN t = 1..Len(t) /\ \A i \in 1..Len(t) : t[i] \in DOMAIN Width
  OBVIOUS
<1>2. \A i \in 1..Len(t) : [masked |-> FALSE, text |-> <<t[i]>>] \in Piece
  <2> SUFFICES ASSUME NEW i \in 1..Len(t)
               PROVE  [masked |-> FALSE, text |-> <<t[i]>>] \in Piece
    OBVIOUS
  <2>1. <<t[i]>> \in Seq(DOMAIN Width)
    BY <1>1
  <2> QED BY <2>1 DEF Piece
<1>3. Plain(t) = [i \in 1..Len(t) |-> [masked |-> FALSE, text |-> <<t[i]>>]]
  BY <1>1 DEF Plain
<1> DEFINE c(i) == [masked |-> FALSE, text |-> <<t[i]>>]
           p == Plain(t)
<1> HIDE DEF c, p
<1>4. p = [i \in 1..Len(t) |-> c(i)] /\ \A i \in 1..Len(t) : c(i) \in Piece
  BY <1>2, <1>3 DEF c, p
<1>5. p \in Seq(Piece) /\ Len(p) = Len(t) /\ \A i \in 1..Len(t) : p[i] = c(i)
  BY <1>1, <1>4
<1> QED BY <1>5 DEF c, p

LEMMA SplicePieces ==
  ASSUME NEW q \in Seq(Piece), NEW s \in Span
  PROVE  Splice(q, s) \in Seq(Piece)
<1> DEFINE a == IF s.start < Len(q) THEN s.start ELSE Len(q)
           x == SubSeq(q, 1, a)
           y == SubSeq(q, s.end + 1, Len(q))
<1>1. /\ s.start \in Nat /\ s.end \in Nat /\ Len(q) \in Nat /\ s.text \in Seq(DOMAIN Width)
      /\ \A i \in 1..Len(q) : q[i] \in Piece
  BY DEF Span
<1>2. a \in Int /\ 1 \in Int /\ \A i \in 1..a : q[i] \in Piece
  BY <1>1
<1>3. s.end + 1 \in Int /\ Len(q) \in Int /\ \A i \in s.end + 1..Len(q) : q[i] \in Piece
  BY <1>1
<1> HIDE DEF a
<1>4. x \in Seq(Piece)
  BY ONLY <1>2, SubSeqProperties
<1>5. y \in Seq(Piece)
  BY ONLY <1>3, SubSeqProperties
<1>6. <<Token(s)>> \in Seq(Piece)
  <2>1. Token(s) \in Piece
    BY <1>1 DEF Token, Piece
  <2> HIDE DEF a
  <2> QED BY <2>1
<1> HIDE DEF x, y
<1>7. x \o <<Token(s)>> \o y \in Seq(Piece)
  BY <1>4, <1>5, <1>6
<1> QED BY <1>7 DEF Splice, a, x, y

LEMMA NextPieces ==
  ASSUME FusionInv, output \in Seq(Piece), Next PROVE output' \in Seq(Piece)
<1>1. text \in Seq(DOMAIN Width) /\ todo \in Seq(Span)
  BY DEF FusionInv, TypeOK
<1>2. CASE Replace
  BY <1>1, <1>2, PlainPieces DEF Replace
<1>3. CASE ReplaceSpan
  <2>1. todo # <<>> /\ output' = Splice(output, Last(todo))
    BY <1>3 DEF ReplaceSpan
  <2>2. Last(todo) \in Span
    BY <1>1, <2>1 DEF Last
  <2> QED BY <2>1, <2>2, SplicePieces
<1>4. CASE RestoreToken
  <2>1. PICK k \in DOMAIN output :
               output' = SubSeq(output, 1, k - 1) \o Plain(output[k].text)
                           \o SubSeq(output, k + 1, Len(output))
    BY <1>4 DEF RestoreToken
  <2>2. k \in 1..Len(output) /\ output[k] \in Piece
    OBVIOUS
  <2>3. Plain(output[k].text) \in Seq(Piece)
    BY <2>2, PlainPieces DEF Piece
  <2>4. k - 1 \in 0..Len(output) /\ k \in k - 1..Len(output)
    BY <2>2
  <2>5. output' = Inserted(output, Plain(output[k].text), k - 1, k)
    BY <2>1 DEF Inserted
  <2> QED BY <2>3, <2>4, <2>5, InsertedElements
<1>5. CASE Return
  BY <1>5 DEF Return
<1>6. CASE ~ (Replace \/ ReplaceSpan \/ RestoreToken \/ Return)
  BY <1>6 DEF Next, Start, Detect, DetectDone, Resolve, ResolveDone, Merge, FuseAgain,
              ReplaceDone, Rehydrate, RestoreDone
<1> QED BY <1>2, <1>3, <1>4, <1>5, <1>6

-----------------------------------------------------------------------------
LaidOut(pieces) == \E at \in [1..Len(pieces) + 1 -> 0..Len(text)] : Layout(pieces, at)

LEMMA SameLayout ==
  ASSUME UNCHANGED <<text, fused>>, LaidOut(output')
  PROVE  LaidOut(output)'
<1>1. PICK at \in [1..Len(output') + 1 -> 0..Len(text)] : Layout(output', at)
  BY DEF LaidOut
<1>2. at \in [1..Len(output') + 1 -> 0..Len(text')]
  OBVIOUS
<1>3. Layout(output, at)'
  <2>1. \A i : InGap(i)' <=> InGap(i)
    BY DEF InGap
  <2> QED BY <1>1, <2>1 DEF Layout, LiesAt
<1> QED BY <1>2, <1>3 DEF LaidOut

\* The text itself is laid out character by character.
LEMMA TextLaid ==
  ASSUME NEW t \in Seq(DOMAIN Width), NEW from \in Nat, NEW to \in Nat,
         to = from + Len(t), to <= Len(text), Len(text) \in Nat,
         \A j \in 1..Len(t) : t[j] = text[from + j] \/ (t[j] = Blank /\ InGap(from + j))
  PROVE  \E at \in [1..Len(Plain(t)) + 1 -> 0..Len(text)] :
           /\ at[1] = from /\ at[Len(Plain(t)) + 1] = to
           /\ \A i \in 1..Len(Plain(t)) : LiesAt(Plain(t)[i], at[i], at[i + 1])
           /\ \A i, j \in 1..Len(Plain(t)) + 1 : Run(Plain(t), at, i, j)
<1> DEFINE p == Plain(t)
           n == Len(t)
           at == [i \in 1..n + 1 |-> from + i - 1]
<1>1. /\ n \in Nat /\ Len(p) = n
      /\ \A i \in 1..n : p[i] = [masked |-> FALSE, text |-> <<t[i]>>]
  BY PlainPieces
<1>2. \A j \in 1..n : t[j] = text[from + j] \/ (t[j] = Blank /\ InGap(from + j))
  OBVIOUS
<1>3. to = from + n
  OBVIOUS
<1> HIDE DEF p, n
<1>4. at \in [1..n + 1 -> 0..Len(text)]
  <2> SUFFICES ASSUME NEW i \in 1..n + 1 PROVE from + i - 1 \in 0..Len(text)
    OBVIOUS
  <2> QED BY <1>1, <1>3
<1>5. \A i \in 1..n + 1 : at[i] = from + i - 1
  OBVIOUS
<1> HIDE DEF at
<1>6. at[1] = from /\ at[n + 1] = to
  <2>1. 1 \in 1..n + 1 /\ n + 1 \in 1..n + 1
    BY <1>1
  <2> QED BY <1>1, <1>3, <1>5, <2>1
<1>7. ASSUME NEW i \in 1..n PROVE LiesAt(p[i], at[i], at[i + 1])
  <2>1. i \in 1..n + 1 /\ i + 1 \in 1..n + 1
    BY <1>1
  <2>2. at[i] = from + i - 1 /\ at[i + 1] = from + i
    BY <1>5, <2>1
  <2>3. p[i].text = <<t[i]>> /\ Len(p[i].text) = 1 /\ p[i].text[1] = t[i]
    BY <1>1
  <2>4. /\ at[i + 1] = at[i] + Len(p[i].text) /\ at[i] + 1 = from + i
    BY <2>2, <2>3
  <2>5. ASSUME NEW j \in 1..Len(p[i].text)
        PROVE  p[i].text[j] = text[at[i] + j] \/ (p[i].text[j] = Blank /\ InGap(at[i] + j))
    <3>1. j = 1
      BY <2>3
    <3> QED BY <1>2, <2>3, <2>4, <3>1
  <2> QED BY <2>4, <2>5 DEF LiesAt
<1>8. ASSUME NEW i \in 1..n + 1, NEW j \in 1..n + 1 PROVE Run(p, at, i, j)
  <2>1. at[i] = from + i - 1 /\ at[j] = from + j - 1
    BY <1>5
  <2> QED BY <1>1, <2>1 DEF Run
<1>9. /\ at[1] = from /\ at[Len(p) + 1] = to
      /\ \A i \in 1..Len(p) : LiesAt(p[i], at[i], at[i + 1])
      /\ \A i, j \in 1..Len(p) + 1 : Run(p, at, i, j)
  BY <1>1, <1>6, <1>7, <1>8
<1>10. at \in [1..Len(p) + 1 -> 0..Len(text)]
  BY <1>1, <1>4
<1> QED BY <1>9, <1>10 DEF p

\* What is still to replace is the first part of the spans.
Prefix == Len(todo) <= Len(fused) /\ \A i \in 1..Len(todo) : todo[i] = fused[i]

\* The output is the text when its replacement begins.
LEMMA ReplaceLaid ==
  ASSUME FusionInv, SpansFaithful, Replace
  PROVE  LaidOut(output)' /\ Ahead' /\ Prefix'
<1>1. /\ text \in Seq(DOMAIN Width) /\ Len(text) \in Nat
      /\ fused \in Seq(Span) /\ UNCHANGED <<text, fused>>
      /\ output' = Plain(text) /\ todo' = fused
  BY DEF Replace, FusionInv, TypeOK
<1>2. LaidOut(Plain(text))
  <2> DEFINE p == Plain(text)
  <2>1. PICK at \in [1..Len(p) + 1 -> 0..Len(text)] :
               /\ at[1] = 0 /\ at[Len(p) + 1] = Len(text)
               /\ \A i \in 1..Len(p) : LiesAt(p[i], at[i], at[i + 1])
               /\ \A i, j \in 1..Len(p) + 1 : Run(p, at, i, j)
    <3>1. 0 \in Nat /\ Len(text) = 0 + Len(text) /\ \A j \in 1..Len(text) : 0 + j = j
      BY <1>1
    <3>2. \A j \in 1..Len(text) : text[j] = text[0 + j] \/ (text[j] = Blank /\ InGap(0 + j))
      BY <3>1
    <3> HIDE DEF p
    <3>3. Len(text) <= Len(text)
      BY <1>1
    <3> QED BY <1>1, <3>1, <3>2, <3>3, TextLaid, ZenonT(60) DEF p
  <2> HIDE DEF p
  <2>2. Layout(p, at)
    BY <2>1 DEF Layout, Run
  <2> QED BY <2>2 DEF LaidOut, p
<1>3. Ahead'
  <2>1. /\ Len(Plain(text)) = Len(text)
        /\ \A i \in 1..Len(text) : ~ Plain(text)[i].masked
    <3>1. /\ Len(Plain(text)) = Len(text)
          /\ \A i \in 1..Len(text) : Plain(text)[i] = [masked |-> FALSE, text |-> <<text[i]>>]
      BY <1>1, PlainPieces
    <3>2. ASSUME NEW i \in 1..Len(text) PROVE ~ Plain(text)[i].masked
      <4> DEFINE p == [masked |-> FALSE, text |-> <<text[i]>>]
      <4>1. p.masked = FALSE
        OBVIOUS
      <4>2. Plain(text)[i] = p
        BY <3>1
      <4> HIDE DEF p
      <4> QED BY <4>1, <4>2
    <3> QED BY <3>1, <3>2
  <2>2. fused # <<>> => /\ fused[Len(fused)].end \in Nat
                        /\ fused[Len(fused)].end <= Len(text)
    <3> SUFFICES ASSUME fused # <<>>
                 PROVE  fused[Len(fused)].end \in Nat /\ fused[Len(fused)].end <= Len(text)
      OBVIOUS
    <3>1. Len(fused) \in DOMAIN fused /\ fused[Len(fused)] \in Span
      BY <1>1
    <3>2. fused[Len(fused)] \in AllSpans
      BY <3>1 DEF AllSpans, ToSet
    <3> QED BY <3>1, <3>2, SpanFields DEF SpansFaithful, Faithful
  <2> QED BY <1>1, <2>1, <2>2 DEF Ahead
<1>4. Prefix'
  BY <1>1 DEF Prefix
<1>5. LaidOut(output')
  BY <1>1, <1>2
<1> QED BY <1>1, <1>3, <1>4, <1>5, SameLayout

\* A token takes the place of the characters of its span, and those before it
\* stay what they are.
LEMMA ReplaceSpanLaid ==
  ASSUME FusionInv, SpansFaithful, output \in Seq(Piece), LaidOut(output), Ahead, Prefix,
         ReplaceSpan
  PROVE  LaidOut(output)' /\ Ahead' /\ Prefix'
<1> DEFINE s == Last(todo)
           k == Len(todo)
           n == Len(output)
           a == s.start
           b == s.end
           mid == <<Token(s)>>
<1>1. /\ text \in Seq(DOMAIN Width) /\ Len(text) \in Nat
      /\ fused \in Seq(Span) /\ todo \in Seq(Span) /\ todo # <<>>
      /\ UNCHANGED <<text, fused>>
      /\ output' = Splice(output, s) /\ todo' = Front(todo)
  BY DEF ReplaceSpan, FusionInv, TypeOK
<1>2. /\ k \in Nat \ {0} /\ k <= Len(fused) /\ k \in 1..Len(todo)
      /\ s = todo[k] /\ s = fused[k] /\ s \in Span
      /\ todo' \in Seq(Span) /\ Len(todo') = k - 1 /\ \A i \in 1..k - 1 : todo'[i] = todo[i]
  <2>1. k \in Nat \ {0} /\ k \in 1..Len(todo) /\ s = todo[k]
    BY <1>1 DEF Last
  <2> HIDE DEF s
  <2>2. s = fused[k] /\ k <= Len(fused)
    BY <2>1 DEF Prefix
  <2> QED BY <1>1, <2>1, <2>2, FrontOf
<1>3. s \in ToSet(fused) /\ Faithful(s)
  <2>1. k \in DOMAIN fused
    BY <1>1, <1>2
  <2>2. s \in ToSet(fused)
    BY <1>2, <2>1 DEF ToSet
  <2> QED BY <2>2 DEF SpansFaithful, AllSpans
<1>4. /\ n \in Nat /\ a \in Nat /\ b \in Nat /\ a < b /\ b <= n
      /\ \A i \in 1..b : ~ output[i].masked
  <2>1. todo[Len(todo)].end <= Len(output)
        /\ \A i \in 1..todo[Len(todo)].end : ~ output[i].masked
    BY <1>1 DEF Ahead
  <2>2. a \in Nat /\ b \in Nat /\ a < b
    BY <1>2, SpanFields
  <2> HIDE DEF s
  <2> QED BY <1>2, <2>1, <2>2
<1>5. mid \in Seq(Piece) /\ Len(mid) = 1 /\ mid[1] = Token(s)
  <2>1. Token(s) \in Piece
    BY <1>2 DEF Token, Piece, Span
  <2> HIDE DEF s
  <2> QED BY <2>1
<1> HIDE DEF mid, k, n, s
<1>6. output' = Inserted(output, mid, a, b)
  <2>1. (IF s.start < Len(output) THEN s.start ELSE Len(output)) = s.start
    BY <1>4 DEF n
  <2> QED BY <1>1, <2>1 DEF Splice, Inserted, mid
<1>7. a \in 0..Len(output) /\ b \in a..Len(output)
  BY <1>4 DEF n
<1>8. PICK at \in [1..Len(output) + 1 -> 0..Len(text)] : Layout(output, at)
  BY DEF LaidOut
<1>9. at[a + 1] = a /\ at[b + 1] = b
  <2>1. at[1] = 0 /\ \A i, j \in 1..n + 1 : Run(output, at, i, j)
    BY <1>8 DEF Layout, Run, n
  <2>2. ASSUME NEW c \in 1..b + 1 PROVE at[c] = c - 1
    <3>1. /\ c \in 1..n + 1 /\ 1 \in 1..n + 1 /\ 1 <= c
          /\ \A i \in 1..c - 1 : ~ output[i].masked
      BY <1>4
    <3>2. Run(output, at, 1, c)
      BY <2>1, <3>1
    <3>3. at[c] - at[1] = c - 1
      BY ONLY <3>1, <3>2 DEF Run
    <3>4. at[c] \in Int
      <4>1. c \in 1..Len(output) + 1
        BY <3>1 DEF n
      <4>2. at[c] \in 0..Len(text)
        BY <4>1
      <4> QED BY <1>1, <4>2
    <3> QED BY <2>1, <3>3, <3>4
  <2>3. a + 1 \in 1..b + 1 /\ b + 1 \in 1..b + 1 /\ (a + 1) - 1 = a /\ (b + 1) - 1 = b
    BY <1>4
  <2> QED BY <2>2, <2>3
<1>10. /\ b <= Len(text) /\ Len(s.text) = b - a
       /\ \A j \in 1..b - a : \/ s.text[j] = text[a + j]
                              \/ s.text[j] = Blank /\ 1 < j /\ j < b - a
  BY <1>3 DEF Faithful, Length
<1>11. LiesAt(Token(s), a, b)
  <2>1. Token(s).text = s.text
    BY DEF Token
  <2>2. b = a + Len(s.text)
    BY <1>4, <1>10
  <2>3. ASSUME NEW j \in 1..Len(s.text)
        PROVE  s.text[j] = text[a + j] \/ (s.text[j] = Blank /\ InGap(a + j))
    <3>1. CASE s.text[j] = Blank /\ 1 < j /\ j < b - a
      <4>1. s.start + 1 < a + j /\ a + j < s.end
        BY <1>4, <1>10, <2>3, <3>1
      <4> QED BY <1>3, <3>1, <4>1 DEF InGap
    <3> QED BY <1>10, <2>3, <3>1
  <2> QED BY <2>1, <2>2, <2>3 DEF LiesAt
<1> DEFINE into == <<a, b>>
<1>12. /\ into \in [1..Len(mid) + 1 -> 0..Len(text)]
       /\ into[1] = a /\ into[2] = b
  BY <1>4, <1>5, <1>10
<1> HIDE DEF into
<1>13. /\ into[1] = at[a + 1] /\ into[Len(mid) + 1] = at[b + 1]
       /\ \A i \in 1..Len(mid) : LiesAt(mid[i], into[i], into[i + 1])
  BY <1>5, <1>9, <1>11, <1>12
<1>14. \A i, j \in 1..Len(mid) + 1 : Run(mid, into, i, j)
  <2> SUFFICES ASSUME NEW i \in 1..2, NEW j \in 1..2 PROVE Run(mid, into, i, j)
    BY <1>5
  <2>1. mid[1].masked
    BY <1>5 DEF Token
  <2>2. CASE i = 1 /\ j = 2
    <3>1. 1 \in i..j - 1
      BY <2>2
    <3> QED BY <2>1, <3>1 DEF Run
  <2>3. CASE i = j
    BY <1>4, <1>12, <2>3 DEF Run
  <2>4. CASE ~ (i <= j)
    BY <2>4 DEF Run
  <2> QED BY <2>2, <2>3, <2>4
<1>15. LaidOut(output')
  <2>1. \E new \in [1..Len(Inserted(output, mid, a, b)) + 1 -> 0..Len(text)] :
           Layout(Inserted(output, mid, a, b), new)
    BY <1>1, <1>5, <1>7, <1>8, <1>12, <1>13, <1>14, Relaid
  <2> QED BY <1>6, <2>1 DEF LaidOut
<1>16. Prefix'
  <2>1. Len(fused) \in Nat /\ Len(todo) = k /\ \A i \in 1..Len(todo) : todo[i] = fused[i]
    BY <1>1 DEF Prefix, k
  <2>2. k - 1 <= Len(fused) /\ \A i \in 1..k - 1 : i \in 1..Len(todo)
    BY <1>2, <2>1
  <2>3. \A i \in 1..k - 1 : todo'[i] = fused[i]
    BY <1>2, <2>1, <2>2
  <2>4. fused' = fused
    BY <1>1
  <2> QED BY <1>2, <2>2, <2>3, <2>4 DEF Prefix
<1>17. Ahead'
  <2> SUFFICES ASSUME todo' # <<>>
               PROVE  /\ todo'[k - 1].end <= Len(output')
                      /\ \A i \in 1..todo'[k - 1].end : ~ output'[i].masked
    BY <1>2 DEF Ahead
  <2>1. k - 1 \in 1..k - 1 /\ k - 1 \in 1..Len(todo) /\ k - 1 \in 1..Len(fused) - 1
        /\ k - 1 + 1 = k
    BY <1>1, <1>2
  <2>2. todo'[k - 1] = fused[k - 1] /\ fused[k - 1] \in Span
    BY <1>1, <1>2, <2>1 DEF Prefix
  <2>3. fused[k - 1].end <= s.start
    BY <1>2, <2>1 DEF FusionInv, Disjoint, InOrder
  <2>4. fused[k - 1].end \in Nat
    BY <2>2, SpanFields
  <2>5. /\ Len(output') = a + Len(mid) + (Len(output) - b)
        /\ \A i \in 1..a : output'[i] = output[i]
    <3>1. Insertion(output', output, mid, a, b)
      BY <1>5, <1>6, <1>7, InsertedElements
    <3> QED BY <3>1 DEF Insertion
  <2>6. a <= Len(output')
    BY <1>4, <1>5, <2>5 DEF n
  <2> DEFINE e == todo'[k - 1].end
  <2>7. e \in Nat /\ e <= a
    BY <2>2, <2>3, <2>4
  <2> HIDE DEF e
  <2>8. e <= Len(output')
    BY <1>4, <1>5, <2>5, <2>7 DEF n
  <2>9. ASSUME NEW i \in 1..e PROVE ~ output'[i].masked
    <3>1. i \in 1..a /\ i \in 1..b
      BY <1>4, <2>7
    <3> QED BY <1>4, <2>5, <3>1
  <2> QED BY <2>8, <2>9 DEF e
<1> QED BY <1>1, <1>15, <1>16, <1>17, SameLayout

\* A value lies where its token was.
LEMMA RestoreLaid ==
  ASSUME FusionInv, output \in Seq(Piece), LaidOut(output), RestoreToken
  PROVE  LaidOut(output)'
<1>1. /\ text \in Seq(DOMAIN Width) /\ Len(text) \in Nat /\ Len(output) \in Nat
      /\ UNCHANGED <<text, fused>>
  <2>1. UNCHANGED <<text, fused>>
    BY DEF RestoreToken
  <2>2. text \in Seq(DOMAIN Width)
    BY DEF FusionInv, TypeOK
  <2> QED BY <2>1, <2>2
<1>2. PICK k \in DOMAIN output :
             output' = SubSeq(output, 1, k - 1) \o Plain(output[k].text)
                         \o SubSeq(output, k + 1, Len(output))
  BY DEF RestoreToken
<1> DEFINE t == output[k].text
           mid == Plain(t)
<1>3. k \in 1..Len(output) /\ t \in Seq(DOMAIN Width) /\ Len(t) \in Nat
  <2>1. k \in 1..Len(output) /\ output[k] \in Piece
    OBVIOUS
  <2> QED BY <2>1 DEF Piece
<1>4. mid \in Seq(Piece)
  BY <1>3, PlainPieces
<1>5. k - 1 \in 0..Len(output) /\ k \in k - 1..Len(output) /\ k - 1 + 1 = k
      /\ k \in 1..Len(output) + 1 /\ k + 1 \in 1..Len(output) + 1
  BY <1>3
<1>6. output' = Inserted(output, mid, k - 1, k)
  BY <1>2 DEF Inserted
<1>7. PICK at \in [1..Len(output) + 1 -> 0..Len(text)] : Layout(output, at)
  BY DEF LaidOut
<1>8. LiesAt(output[k], at[k], at[k + 1])
  BY <1>3, <1>7 DEF Layout
<1>9. /\ at[k] \in Nat /\ at[k + 1] \in Nat /\ at[k + 1] <= Len(text)
      /\ at[k + 1] = at[k] + Len(t)
      /\ \A j \in 1..Len(t) : t[j] = text[at[k] + j] \/ (t[j] = Blank /\ InGap(at[k] + j))
  BY <1>1, <1>5, <1>7, <1>8, SMTT(30) DEF LiesAt
<1> HIDE DEF t
<1>10. PICK into \in [1..Len(mid) + 1 -> 0..Len(text)] :
           /\ into[1] = at[k] /\ into[Len(mid) + 1] = at[k + 1]
           /\ \A i \in 1..Len(mid) : LiesAt(mid[i], into[i], into[i + 1])
           /\ \A i, j \in 1..Len(mid) + 1 : Run(mid, into, i, j)
  BY <1>1, <1>3, <1>9, TextLaid, ZenonT(60)
<1> HIDE DEF mid
<1>11. LaidOut(output')
  <2> DEFINE a == k - 1
  <2>1. a \in 0..Len(output) /\ k \in a..Len(output) /\ into[1] = at[a + 1]
    BY <1>5, <1>10
  <2> HIDE DEF a
  <2>2. \E new \in [1..Len(Inserted(output, mid, a, k)) + 1 -> 0..Len(text)] :
           Layout(Inserted(output, mid, a, k), new)
    BY <1>1, <1>4, <1>7, <1>10, <2>1, Relaid
  <2> QED BY <1>6, <2>2 DEF LaidOut, a
<1> QED BY <1>1, <1>11, SameLayout

-----------------------------------------------------------------------------
LEMMA InitRestore == Init => RestoreInv
<1> SUFFICES ASSUME Init PROVE RestoreInv
  OBVIOUS
<1>1. output \in Seq(Piece)
  BY DEF Init
<1>2. found \cup ToSet(todo) \cup ToSet(resolved) \cup ToSet(fused) = {}
  BY DEF Init, ToSet
<1>3. pc = "idle"
  BY DEF Init
<1> QED BY <1>1, <1>2, <1>3 DEF RestoreInv

\* The parts of RestoreInv that hold when the offsets are in the text.
PhasesInv ==
  /\ SpansFaithful
  /\ pc \in {"replace", "replaced", "restore", "restored"} => LaidOut(output)
  /\ pc = "replace" => Ahead /\ Prefix
  /\ pc = "restored" => \A k \in DOMAIN output : ~ output[k].masked

LEMMA RestoreInvParts == RestoreInv <=> output \in Seq(Piece) /\ (OffsetsInside => PhasesInv)
BY DEF RestoreInv, PhasesInv, SpansFaithful, AllSpans, LaidOut, Prefix

LEMMA NextPhases ==
  ASSUME FusionInv, KeptInv, output \in Seq(Piece), OffsetsInside => PhasesInv,
         Next, OffsetsInside'
  PROVE  PhasesInv'
<1>1. SpansFaithful'
  BY NextFaithful DEF PhasesInv
<1>2. ASSUME UNCHANGED <<text, found>> PROVE PhasesInv
  BY <1>2 DEF OffsetsInside
<1>3. ASSUME UNCHANGED <<text, fused, output>>, LaidOut(output) PROVE LaidOut(output)'
  <2>1. LaidOut(output')
    BY <1>3
  <2> QED BY <1>3, <2>1, SameLayout
<1>4. CASE pc' \in {"idle", "detect", "resolve", "merge"}
  BY <1>1, <1>4 DEF PhasesInv
<1>5. CASE Replace
  <2>1. pc' = "replace" /\ UNCHANGED <<text, found>>
    BY <1>5 DEF Replace
  <2>2. SpansFaithful
    BY <1>2, <2>1 DEF PhasesInv
  <2> QED BY <1>1, <1>5, <2>1, <2>2, ReplaceLaid DEF PhasesInv
<1>6. CASE ReplaceSpan
  <2>1. pc = "replace" /\ pc' = "replace" /\ UNCHANGED <<text, found>>
    BY <1>6 DEF ReplaceSpan
  <2>2. SpansFaithful /\ LaidOut(output) /\ Ahead /\ Prefix
    BY <1>2, <2>1 DEF PhasesInv
  <2> QED BY <1>1, <1>6, <2>1, <2>2, ReplaceSpanLaid DEF PhasesInv
<1>7. CASE RestoreToken
  <2>1. pc = "restore" /\ pc' = "restore" /\ UNCHANGED <<text, found>>
    BY <1>7 DEF RestoreToken
  <2>2. LaidOut(output)
    BY <1>2, <2>1 DEF PhasesInv
  <2> QED BY <1>1, <1>7, <2>1, <2>2, RestoreLaid DEF PhasesInv
<1>8. CASE ReplaceDone \/ Rehydrate
  <2>1. /\ pc \in {"replace", "replaced"} /\ pc' \in {"replaced", "restore"}
        /\ UNCHANGED <<text, found, fused, output>>
    BY <1>8 DEF ReplaceDone, Rehydrate
  <2>2. LaidOut(output)
    BY <1>2, <2>1 DEF PhasesInv
  <2> QED BY <1>1, <1>3, <2>1, <2>2 DEF PhasesInv
<1>9. CASE RestoreDone
  <2>1. /\ pc = "restore" /\ pc' = "restored" /\ UNCHANGED <<text, found, fused, output>>
        /\ \A k \in DOMAIN output : ~ output[k].masked
    BY <1>9 DEF RestoreDone
  <2>2. LaidOut(output)
    BY <1>2, <2>1 DEF PhasesInv
  <2> QED BY <1>1, <1>3, <2>1, <2>2 DEF PhasesInv
<1>10. CASE \/ Resolve \/ Merge \/ DetectDone \/ ResolveDone \/ FuseAgain \/ Return
            \/ \E t \in Texts : Start(t)
            \/ \E source \in Detector, type \in Type, start, end \in 0..MaxLength :
                 Detect(start, end, type, source)
  <2>1. pc' \in {"idle", "detect", "resolve", "merge"}
    BY <1>10 DEF Resolve, Merge, DetectDone, ResolveDone, FuseAgain, Return, Start, Detect
  <2> QED BY <1>4, <2>1
<1> QED BY <1>5, <1>6, <1>7, <1>8, <1>9, <1>10 DEF Next

LEMMA NextRestore == FusionInv /\ KeptInv /\ RestoreInv /\ [Next]_vars => RestoreInv'
<1> SUFFICES ASSUME FusionInv, KeptInv, RestoreInv, [Next]_vars PROVE RestoreInv'
  OBVIOUS
<1>1. output \in Seq(Piece) /\ (OffsetsInside => PhasesInv)
  BY RestoreInvParts
<1>2. CASE Next
  <2>1. output' \in Seq(Piece)
    BY <1>1, <1>2, NextPieces
  <2>2. OffsetsInside' => PhasesInv'
    BY <1>1, <1>2, NextPhases
  <2>3. RestoreInv' <=> output' \in Seq(Piece) /\ (OffsetsInside' => PhasesInv')
    BY DEF RestoreInv, PhasesInv, SpansFaithful, AllSpans, LaidOut, Prefix
  <2> QED BY <2>1, <2>2, <2>3
<1>3. CASE UNCHANGED vars
  <2>1. UNCHANGED <<text, pc, found, todo, resolved, fused, output>>
    BY <1>3 DEF vars
  <2>2. OffsetsInside' => OffsetsInside
    BY <2>1 DEF OffsetsInside
  <2>3. SpansFaithful => SpansFaithful'
    BY <2>1 DEF SpansFaithful, AllSpans, Faithful
  <2>4. LaidOut(output) => LaidOut(output)'
    <3>1. LaidOut(output) => LaidOut(output')
      BY <2>1
    <3> QED BY <2>1, <3>1, SameLayout
  <2>5. PhasesInv => PhasesInv'
    BY <2>1, <2>3, <2>4 DEF PhasesInv, Ahead, Prefix
  <2>6. RestoreInv' <=> output' \in Seq(Piece) /\ (OffsetsInside' => PhasesInv')
    BY DEF RestoreInv, PhasesInv, SpansFaithful, AllSpans, LaidOut, Prefix
  <2> QED BY <1>1, <2>1, <2>2, <2>5, <2>6
<1> QED BY <1>2, <1>3

LEMMA RestoreInvariant == Spec => [](FusionInv /\ RestoreInv)
BY KeptInvariant, InitRestore, NextRestore, PTL DEF Spec

\* A text without tokens that is laid out on the original one has its length,
\* and its characters up to the gaps of merged spans.
LEMMA RestoredText ==
  ASSUME FusionInv, RestoreInv, pc = "restored", OffsetsInside
  PROVE  /\ Len(Joined(output)) = Len(text)
         /\ \A i \in DOMAIN text :
              Joined(output)[i] = text[i] \/ (Joined(output)[i] = Blank /\ InGap(i))
<1>1. /\ output \in Seq(Piece) /\ LaidOut(output)
      /\ \A k \in DOMAIN output : ~ output[k].masked
  BY RestoreInvParts DEF PhasesInv
<1>2. text \in Seq(DOMAIN Width)
  BY DEF FusionInv, TypeOK
<1>3. PICK at \in [1..Len(output) + 1 -> 0..Len(text)] : Layout(output, at)
  BY <1>1 DEF LaidOut
<1> DEFINE n == Len(output)
<1>4. n \in Nat /\ DOMAIN output = 1..n /\ Len(text) \in Nat
  BY <1>1, <1>2
<1>5. /\ at[1] = 0 /\ at[n + 1] = Len(text)
      /\ \A i \in 1..n : LiesAt(output[i], at[i], at[i + 1])
      /\ \A i, j \in 1..n + 1 : Run(output, at, i, j)
  BY <1>3 DEF Layout, Run
<1>6. ASSUME NEW c \in 1..n + 1 PROVE at[c] = c - 1
  <2>1. 1 \in 1..n + 1 /\ 1 <= c /\ \A i \in 1..c - 1 : ~ output[i].masked
    BY <1>1, <1>4
  <2>2. Run(output, at, 1, c)
    BY <1>5, <2>1
  <2>3. at[c] - at[1] = c - 1
    BY ONLY <2>1, <2>2 DEF Run
  <2>4. at[c] \in Int
    BY <1>3, <1>4
  <2> QED BY <1>5, <2>3, <2>4
<1>7. n = Len(text)
  <2>1. n + 1 \in 1..n + 1 /\ (n + 1) - 1 = n
    BY <1>4
  <2> QED BY <1>5, <1>6, <2>1
<1>8. Joined(output) = [i \in 1..n |-> output[i].text[1]]
  BY <1>4 DEF Joined
<1> HIDE DEF n
<1> DEFINE c(i) == output[i].text[1]
<1>9. \A i \in 1..n : Joined(output)[i] = c(i)
  BY <1>8
<1>10. Len(Joined(output)) = n
  <2> HIDE DEF c
  <2>1. Joined(output) = [i \in 1..n |-> c(i)]
    BY <1>8 DEF c
  <2> QED BY <1>4, <2>1
<1>11. ASSUME NEW i \in 1..n PROVE c(i) = text[i] \/ (c(i) = Blank /\ InGap(i))
  <2>1. i \in 1..n + 1 /\ i + 1 \in 1..n + 1 /\ (i + 1) - 1 = i /\ (i - 1) + 1 = i
    BY <1>4
  <2>2. at[i] = i - 1 /\ at[i + 1] = i
    BY <1>6, <2>1
  <2>3. LiesAt(output[i], i - 1, i)
    BY <1>5, <2>2
  <2>4. output[i] \in Piece
    BY <1>1, <1>4
  <2>5. Len(output[i].text) \in Nat /\ i = (i - 1) + Len(output[i].text)
    BY <2>3, <2>4 DEF LiesAt, Piece
  <2>6. 1 \in 1..Len(output[i].text)
    BY <2>5
  <2> QED BY <2>1, <2>3, <2>6 DEF LiesAt
<1>12. DOMAIN text = 1..n
  BY <1>2, <1>7
<1> QED BY <1>7, <1>9, <1>10, <1>11, <1>12

\* A tokenized text is rehydrated to what it was, except that a character
\* between two merged spans may come back as a space.
THEOREM FusionRestored == Spec => []RestoredUpToGaps
<1>1. FusionInv /\ RestoreInv => RestoredUpToGaps
  BY RestoredText DEF RestoredUpToGaps
<1> QED BY <1>1, RestoreInvariant, PTL
=============================================================================
