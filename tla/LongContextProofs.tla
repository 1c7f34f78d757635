------------------------- MODULE LongContextProofs -------------------------
(***************************************************************************)
(* Chunked execution, for every sequence, chunk and interval length and    *)
(* every stack of layers: each label is scored once, a truncated run keeps *)
(* no older graph than it may, each gradient reaches as far back as it     *)
(* should, and a checkpointed chunk is run again from the cache it was     *)
(* first run from.                                                         *)
(***************************************************************************)
EXTENDS LongContext, DataLemmas

Past(to) == {t \in cfg.valid : t < to}
Since(from, to) == {t \in cfg.valid : from <= t /\ t < to}

\* How far back the gradient of a target of the interval under way reaches: not at
\* all if its logit was kept from before the last detach.
Reach(t) == IF t = horizon THEN NONE ELSE horizon
Term(t) == [target |-> t, from |-> Reach(t)]
Terms(T) == {Term(t) : t \in T}

CfgOK ==
  /\ cfg.length \in Nat /\ cfg.chunk \in Nat \ {0} /\ cfg.interval \in Nat \ {0}
  /\ cfg.mode \in {"full_recompute", "stateful_truncated"}
  /\ cfg.train \in BOOLEAN
  /\ cfg.valid \subseteq 1 .. cfg.length - 1

\* Chunk and detach boundaries in order.
ControlOK ==
  /\ pc \in {"chunk", "loss", "detach", "raised", "done"}
  /\ start \in Nat /\ stop \in Nat /\ horizon \in Nat
  /\ horizon <= start /\ start <= cfg.length
  /\ nextDetach = horizon + cfg.interval
  /\ ~ Stateful => horizon = 0
  /\ pc = "loss" => start < stop /\ stop <= cfg.length
  /\ Stateful /\ pc = "chunk" => start < nextDetach
  /\ Stateful /\ pc = "loss" => stop <= nextDetach
  /\ pc = "detach" => Stateful /\ start = nextDetach
  /\ pc = "done" => start = cfg.length

\* What has been put together of the loss, to the last term.
LossOK ==
  /\ previous = IF start = 0 THEN <<>> ELSE <<Reach(start)>>
  /\ interval = Terms(Since(horizon, start))
  /\ lossTerms = IF Stateful THEN {} ELSE interval
  /\ counts = [t \in cfg.valid |-> IF t < start THEN 1 ELSE 0]
  /\ tokens = Cardinality(Past(start))

GradsOK ==
  grads = [t \in cfg.valid |->
             IF pc = "done" /\ cfg.train /\ t > horizon THEN <<horizon>> ELSE <<>>]

LCInv == CfgOK /\ ControlOK /\ LossOK /\ GradsOK

LEMMA LCInitial == Init => LCInv
<1> SUFFICES ASSUME Init PROVE LCInv
  OBVIOUS
<1>1. CfgOK
  <2>1. PICK n \in Lengths :
          cfg \in [length : {n}, chunk : Chunks, interval : Intervals,
                  mode : {"full_recompute", "stateful_truncated"},
                  train : BOOLEAN, pixels : Pixels, valid : SUBSET (1 .. n - 1)]
    BY DEF Init, Configs
  <2>2. /\ cfg.length = n /\ cfg.chunk \in Chunks /\ cfg.interval \in Intervals
        /\ cfg.mode \in {"full_recompute", "stateful_truncated"}
        /\ cfg.train \in BOOLEAN /\ cfg.valid \in SUBSET (1 .. n - 1)
    BY <2>1
  <2> QED BY <2>2, LengthsAssumption, ChunksAssumption, IntervalsAssumption DEF CfgOK
<1>2. ControlOK
  BY <1>1 DEF Init, ControlOK, CfgOK, Stateful
<1>3. Since(0, 0) = {} /\ Past(0) = {}
  BY <1>1 DEF Since, Past, CfgOK
<1>4. LossOK
  <2>1. Terms({}) = {} /\ Cardinality({}) = 0
    BY FS_EmptySet DEF Terms
  <2>2. \A t \in cfg.valid : ~ (t < 0)
    BY <1>1 DEF CfgOK
  <2> QED BY <1>3, <2>1, <2>2 DEF Init, LossOK
<1>5. GradsOK
  BY DEF Init, GradsOK
<1> QED BY <1>1, <1>2, <1>4, <1>5 DEF LCInv

LEMMA StopBounds ==
  ASSUME CfgOK, ControlOK, pc = "chunk", start < cfg.length
  PROVE  Stop \in Nat /\ start < Stop /\ Stop <= cfg.length /\ (Stateful => Stop <= nextDetach)
BY DEF CfgOK, ControlOK, Stop, Least

LEMMA ForwardKeeps == ASSUME LCInv, Forward PROVE LCInv'
<1> USE DEF LCInv
<1>1. CfgOK'
  BY DEF Forward, CfgOK
<1>2. /\ start < Stop /\ Stop \in Nat /\ Stop <= cfg.length
      /\ Stateful => Stop <= nextDetach
  BY StopBounds DEF Forward
<1>3. ControlOK'
  BY <1>2 DEF Forward, ControlOK, Stateful
<1>4. LossOK'
  BY DEF Forward, LossOK, accounts, Reach, Terms, Term, Since, Past, Stateful
<1>5. GradsOK'
  BY DEF Forward, GradsOK
<1> QED BY <1>1, <1>3, <1>4, <1>5

\* The terms of a chunk are one for each labelled target it scores.
LEMMA ChunkTerms ==
  ASSUME LCInv, pc = "loss"
  PROVE  Labelled(EdgeTerms \cup InnerTerms) = Terms(Since(start, stop))
<1> USE DEF LCInv
<1>1. ASSUME NEW t \in InnerTerms, t.target \in cfg.valid
      PROVE  t \in Terms(Since(start, stop))
  BY <1>1 DEF InnerTerms, Terms, Term, Reach, Since, ControlOK, CfgOK
<1>2. ASSUME NEW t \in EdgeTerms PROVE start # 0 /\ t = Term(start)
  BY <1>2 DEF EdgeTerms, LossOK, Term, Range
<1>3. ASSUME NEW t \in EdgeTerms, t.target \in cfg.valid
      PROVE  t \in Terms(Since(start, stop))
  BY <1>2, <1>3 DEF Terms, Term, Since, ControlOK, CfgOK
<1>4. ASSUME NEW t \in Since(start, stop) PROVE Term(t) \in Labelled(EdgeTerms \cup InnerTerms)
  <2>1. t \in cfg.valid /\ t \in Nat /\ t # 0 /\ start <= t /\ t < stop
    BY DEF Since, CfgOK
  <2>2. CASE t = start
    <3>1. Term(t) \in EdgeTerms
      BY <2>1, <2>2 DEF EdgeTerms, LossOK, Term, Range
    <3> QED BY <2>1, <3>1 DEF Labelled, Term
  <2>3. CASE t # start
    <3>1. Term(t) \in InnerTerms
      BY <2>1, <2>3 DEF InnerTerms, Term, Reach, ControlOK
    <3> QED BY <2>1, <3>1 DEF Labelled, Term
  <2> QED BY <2>2, <2>3
<1> QED BY <1>1, <1>3, <1>4 DEF Labelled, Terms

LEMMA TermsFinite ==
  ASSUME CfgOK, NEW T \in SUBSET cfg.valid
  PROVE  /\ IsFiniteSet(T)
         /\ IsFiniteSet(Terms(T)) /\ Cardinality(Terms(T)) = Cardinality(T)
<1>1. IsFiniteSet(T)
  <2>1. cfg.length - 1 \in Int
    BY DEF CfgOK
  <2>2. IsFiniteSet(1 .. cfg.length - 1)
    BY <2>1, IntervalFinite
  <2> QED BY <2>2, FS_Subset DEF CfgOK
<1>2. \A t, u \in T : Term(t) = Term(u) => t = u
  BY DEF Term
<1> DEFINE f == [t \in T |-> Term(t)]
<1>3. f \in Bijection(T, Terms(T))
  BY <1>2 DEF Bijection, Injection, Surjection, IsInjective, Terms
<1> QED BY <1>1, <1>3, FS_Bijection DEF ExistsBijection

LEMMA LossKeeps == ASSUME LCInv, Loss PROVE LCInv'
<1> USE DEF LCInv
<1> DEFINE T == Since(start, stop)
<1>1. /\ start \in Nat /\ stop \in Nat /\ horizon \in Nat /\ horizon <= start /\ start < stop
      /\ stop <= cfg.length
  BY DEF Loss, ControlOK
<1>2. /\ start' = stop /\ cfg' = cfg /\ horizon' = horizon /\ nextDetach' = nextDetach
      /\ previous' = <<horizon>> /\ pc \in {"loss"} /\ grads' = grads /\ stop' = stop
      /\ pc' = IF Stateful /\ stop >= nextDetach THEN "detach" ELSE "chunk"
  BY DEF Loss
<1>3. CfgOK' /\ ControlOK' /\ GradsOK'
  <2>1. Stateful' = Stateful
    BY <1>2 DEF Stateful
  <2> QED BY <1>1, <1>2, <2>1 DEF CfgOK, ControlOK, GradsOK
<1>4. \A t \in cfg.valid : t \in Nat
  BY DEF CfgOK
<1>5. Labelled(EdgeTerms \cup InnerTerms) = Terms(T)
  BY ChunkTerms DEF Loss
<1>6. T \subseteq cfg.valid /\ Past(start) \subseteq cfg.valid
  BY DEF Since, Past
<1>7. /\ Since(horizon, stop) = Since(horizon, start) \cup T
      /\ Past(stop) = Past(start) \cup T /\ Past(start) \cap T = {}
  BY <1>1, <1>4 DEF Since, Past
<1>8. previous' = <<Reach(start)>>' /\ start' # 0
  BY <1>1, <1>2 DEF Reach
<1>9. interval' = Terms(Since(horizon, start))'
  <2>1. interval' = Terms(Since(horizon, stop))
    BY <1>5, <1>7 DEF Loss, LossOK, Terms
  <2> QED BY <2>1, <1>2 DEF Terms, Term, Reach, Since
<1>10. lossTerms' = IF Stateful' THEN {} ELSE interval'
  BY <1>2, <1>5 DEF Loss, LossOK, Stateful
<1>11. tokens' = Cardinality(Past(start))'
  <2>1. tokens' = Cardinality(Past(start)) + Cardinality(T)
    BY <1>5, <1>6, TermsFinite DEF Loss, LossOK
  <2>2. Cardinality(Past(stop)) = Cardinality(Past(start)) + Cardinality(T)
    <3>1. /\ IsFiniteSet(Past(start)) /\ IsFiniteSet(T)
      BY <1>6, TermsFinite
    <3>2. /\ Cardinality(Past(start)) \in Nat /\ Cardinality(T) \in Nat
      BY <3>1, FS_CardinalityType
    <3>3. Cardinality(Past(start) \cup T)
            = Cardinality(Past(start)) + Cardinality(T) - Cardinality(Past(start) \cap T)
      BY <3>1, FS_Union
    <3>4. Cardinality(Past(start) \cap T) = 0
      BY <1>7, FS_EmptySet
    <3> QED BY <3>2, <3>3, <3>4, <1>7
  <2>3. Past(start)' = Past(stop)
    BY <1>2 DEF Past
  <2> QED BY <2>1, <2>2, <2>3
<1>12. counts' = [t \in cfg.valid |-> IF t < stop THEN 1 ELSE 0]
  <2> SUFFICES ASSUME NEW t \in cfg.valid
               PROVE  counts[t] + Cardinality({x \in Terms(T) : x.target = t})
                        = IF t < stop THEN 1 ELSE 0
    BY <1>5 DEF Loss
  <2>1. CASE t \in T
    <3>1. {x \in Terms(T) : x.target = t} = {Term(t)}
      BY <2>1 DEF Terms, Term
    <3>2. Cardinality({x \in Terms(T) : x.target = t}) = 1
      BY <3>1, FS_Singleton
    <3> QED BY <2>1, <3>2, <1>1, <1>4 DEF Since, LossOK
  <2>2. CASE t \notin T
    <3>1. {x \in Terms(T) : x.target = t} = {}
      BY <2>2 DEF Terms, Term
    <3>2. Cardinality({x \in Terms(T) : x.target = t}) = 0
      BY <3>1, FS_EmptySet
    <3> QED BY <2>2, <3>2, <1>1, <1>4 DEF Since, LossOK
  <2> QED BY <2>1, <2>2
<1>13. LossOK'
  BY <1>2, <1>8, <1>9, <1>10, <1>11, <1>12 DEF LossOK
<1> QED BY <1>3, <1>13

\* Nothing has gone into loss_terms, so a detach accumulates no gradient.
LEMMA DetachKeeps == ASSUME LCInv, Detach PROVE LCInv'
<1> USE DEF LCInv
<1>1. pc = "detach" /\ Stateful /\ start = nextDetach /\ lossTerms = {}
  BY DEF Detach, ControlOK, LossOK
<1>2. /\ pc' = "chunk" /\ grads' = grads /\ interval' = {} /\ horizon' = start
      /\ previous' = <<NONE>> /\ nextDetach' = nextDetach + cfg.interval
      /\ UNCHANGED <<cfg, start, stop, lossTerms, counts, tokens>>
  BY <1>1 DEF Detach
<1>3. Stateful' = Stateful
  BY <1>2 DEF Stateful
<1>4. CfgOK' /\ ControlOK'
  BY <1>1, <1>2, <1>3 DEF CfgOK, ControlOK
<1>5. GradsOK'
  BY <1>1, <1>2 DEF GradsOK
<1>6. Since(start, start) = {} /\ Terms({}) = {}
  BY DEF Since, Terms, CfgOK, ControlOK
<1>7. (Terms(Since(horizon, start)))' = {}
  BY <1>2, <1>6 DEF Since, Terms
<1>8. Reach(start)' = NONE /\ start # 0
  BY <1>1, <1>2 DEF Reach, ControlOK, CfgOK
<1>9. LossOK'
  BY <1>1, <1>2, <1>3, <1>7, <1>8 DEF LossOK, Past
<1> QED BY <1>4, <1>5, <1>9

\* The one backward pass: over the terms since the last detach in either mode.
LEMMA EndKeeps == ASSUME LCInv, End PROVE LCInv'
<1> USE DEF LCInv
<1>1. /\ pc = "chunk" /\ start = cfg.length
      /\ UNCHANGED <<cfg, start, stop, nextDetach, horizon, previous, accounts>>
      /\ pc' \in {"done", "raised"}
  BY DEF End, ControlOK, CfgOK
<1>2. CfgOK' /\ ControlOK'
  BY <1>1 DEF CfgOK, ControlOK, Stateful
<1>3. LossOK'
  BY <1>1 DEF LossOK, accounts, Reach, Term, Terms, Since, Past, Stateful
<1>4. Due = Terms(Since(horizon, start))
  BY DEF Due, LossOK
<1>5. \A t \in cfg.valid : t \in Nat /\ t < start
  BY <1>1 DEF CfgOK
<1>6. horizon \in Nat /\ horizon # NONE
  BY NoneAssumption DEF ControlOK
<1>7. \A t \in cfg.valid : grads[t] = <<>>
  BY <1>1 DEF GradsOK
<1>8. Accumulated(Due) = [t \in cfg.valid |-> IF t > horizon THEN <<horizon>> ELSE <<>>]
  <2> DEFINE Mine(t) == {x \in Due : x.target = t /\ x.from # NONE}
             Gets(t) == IF Mine(t) = {} THEN grads[t]
                        ELSE Append(grads[t], (CHOOSE x \in Mine(t) : TRUE).from)
  <2>a. Accumulated(Due) = [t \in cfg.valid |-> Gets(t)]
    BY DEF Accumulated
  <2> SUFFICES ASSUME NEW t \in cfg.valid
               PROVE  Gets(t) = IF t > horizon THEN <<horizon>> ELSE <<>>
    BY <2>a
  <2>1. CASE t > horizon
    <3>1. Mine(t) = {Term(t)} /\ Term(t).from = horizon
      BY <1>4, <1>5, <1>6, <2>1 DEF Terms, Term, Reach, Since
    <3>2. (CHOOSE x \in Mine(t) : TRUE) = Term(t) /\ Mine(t) # {}
      BY <3>1
    <3>3. Gets(t) = Append(grads[t], Term(t).from)
      BY <3>2
    <3>4. Append(<<>>, horizon) = <<horizon>>
      BY <1>6
    <3> HIDE DEF Gets
    <3> QED BY <3>1, <3>3, <3>4, <1>7, <2>1
  <2>2. CASE ~ (t > horizon)
    <3>1. Mine(t) = {}
      BY <1>4, <1>5, <1>6, <2>2 DEF Terms, Term, Reach, Since
    <3> QED BY <3>1, <1>7, <2>2
  <2> QED BY <2>1, <2>2
<1>9. GradsOK'
  <2>1. CASE pc' = "raised"
    <3>1. grads' = grads
      BY <2>1 DEF End
    <3> QED BY <1>1, <2>1, <3>1 DEF GradsOK
  <2>2. CASE pc' = "done" /\ ~ cfg.train
    <3>1. grads' = grads
      BY <2>2 DEF End
    <3> QED BY <1>1, <2>2, <3>1 DEF GradsOK
  <2>3. CASE pc' = "done" /\ cfg.train /\ Due # {}
    <3>1. grads' = Accumulated(Due)
      BY <2>3 DEF End
    <3> QED BY <1>1, <1>8, <2>3, <3>1 DEF GradsOK
  <2>4. CASE pc' = "done" /\ cfg.train /\ Due = {}
    <3>1. grads' = grads
      BY <2>4 DEF End
    <3>2. \A t \in cfg.valid : ~ (t > horizon)
      BY <1>4, <1>5, <1>6, <2>4 DEF Terms, Since
    <3> QED BY <1>1, <2>4, <3>1, <3>2 DEF GradsOK
  <2> QED BY <1>1, <2>1, <2>2, <2>3, <2>4
<1> QED BY <1>2, <1>3, <1>9

LEMMA LCStep == ASSUME LCInv, [Next]_vars PROVE LCInv'
<1>1. CASE UNCHANGED vars
  BY <1>1 DEF vars, accounts, LCInv, CfgOK, ControlOK, LossOK, GradsOK, Stateful, Past, Since, Terms, Term, Reach
<1> QED BY <1>1, ForwardKeeps, LossKeeps, DetachKeeps, EndKeeps DEF Next

\* What LongContext keeps at every step: boundaries in order, a loss made of one
\* term for each label of the interval, and gradients only of the last backward.
THEOREM LCInvariant == Spec => []LCInv
BY LCInitial, LCStep, PTL DEF Spec

\* GradientsExact: a training call gives every target since the last detach one
\* gradient, and it reaches back to that detach; no target ever gets two.
THEOREM GradientsAlwaysExact == Spec => []GradientsExact
<1>1. LCInv => GradientsExact
  <2> SUFFICES ASSUME LCInv PROVE GradientsExact
    OBVIOUS
  <2>1. \A t \in cfg.valid : grads[t] \in {<<>>, <<horizon>>}
    BY DEF LCInv, GradsOK
  <2>2. Len(<<>>) = 0 /\ Len(<<horizon>>) = 1
    OBVIOUS
  <2> QED BY <2>1, <2>2 DEF LCInv, GradsOK, GradientsExact
<1> QED BY <1>1, LCInvariant, PTL

\* GraphBounded: a truncated run holds nothing with a graph older than its interval.
THEOREM GraphAlwaysBounded == Spec => []GraphBounded
<1>1. LCInv => GraphBounded
  <2> SUFFICES ASSUME LCInv, Stateful,
                      NEW r \in {horizon} \cup Range(previous)
                                \cup {x.from : x \in interval \cup lossTerms},
                      r # NONE
               PROVE  r + cfg.interval >= nextDetach
    BY DEF GraphBounded
  <2>1. \A t : Reach(t) \in {horizon, NONE}
    BY DEF Reach
  <2>2. Range(previous) \subseteq {horizon, NONE}
    BY <2>1 DEF LCInv, LossOK, Range
  <2>3. \A x \in interval \cup lossTerms : x.from \in {horizon, NONE}
    BY <2>1 DEF LCInv, LossOK, Terms, Term
  <2>4. r = horizon
    BY <2>2, <2>3
  <2> QED BY <2>4 DEF LCInv, ControlOK, CfgOK
<1> QED BY <1>1, LCInvariant, PTL

\* The targets counted so far, and how the call ended, as the abstract loss sees them.
Scored == {t \in cfg.valid : counts[t] > 0}
Outcome == CASE pc = "done" -> "reported" [] pc = "raised" -> "raised" [] OTHER -> "open"

LEMMA ScoredIsPast ==
  ASSUME CfgOK, counts = [t \in cfg.valid |-> IF t < start THEN 1 ELSE 0]
  PROVE  Scored = Past(start)
BY DEF Scored, Past

LEMMA InitRefines == Init => ScoredOnce!Init
<1> SUFFICES ASSUME Init PROVE ScoredOnce!Init
  OBVIOUS
<1>1. {t \in cfg.valid : counts[t] > 0} = {}
  BY DEF Init
<1> QED BY <1>1 DEF Init, ScoredOnce!Init

LEMMA StepRefines ==
  ASSUME LCInv, LCInv', [Next]_vars PROVE [ScoredOnce!Next]_ScoredOnce!vars
<1>1. Scored = Past(start) /\ Scored' = Past(start)'
  BY ScoredIsPast DEF LCInv, LossOK, Scored, Past, CfgOK
<1>2. CASE Loss
  <2>0. PICK T : T = Since(start, stop)
    OBVIOUS
  <2>1. /\ pc = "loss" /\ pc' \in {"detach", "chunk"} /\ cfg' = cfg /\ start' = stop
        /\ Outcome = "open" /\ Outcome' = "open"
    BY <1>2 DEF Loss, Outcome
  <2>2. T \in SUBSET cfg.valid /\ T \cap Scored = {} /\ Scored' = Scored \cup T
    BY <1>1, <2>0, <2>1 DEF Since, Past, LCInv, CfgOK, ControlOK
  <2>3. tokens' = tokens + Cardinality(T)
    BY <2>0, <2>1, ChunkTerms, TermsFinite, <1>2, <2>2 DEF Loss, LCInv
  <2>4. ScoredOnce!Score(T)
    BY <2>1, <2>2, <2>3 DEF ScoredOnce!Score, ScoredOnce!Cardinality, Cardinality, Scored, Outcome
  <2> QED BY <2>2, <2>4 DEF ScoredOnce!Next
<1>3. CASE End
  <2>1. /\ pc = "chunk" /\ start = cfg.length /\ counts' = counts /\ tokens' = tokens /\ cfg' = cfg
        /\ pc' \in {"done", "raised"} /\ Outcome = "open"
    BY <1>3 DEF End, accounts, LCInv, ControlOK, CfgOK, Outcome
  <2>2. Scored = cfg.valid /\ Scored' = Scored
    BY <1>1, <2>1 DEF Past, LCInv, CfgOK, Scored
  <2>3. CASE pc' = "done"
    <3>1. ScoredOnce!Report
      BY <2>1, <2>2, <2>3 DEF ScoredOnce!Report, Scored, Outcome
    <3> QED BY <3>1 DEF ScoredOnce!Next
  <2>4. CASE pc' = "raised"
    <3>1. ScoredOnce!Raise
      BY <2>1, <2>2, <2>4 DEF ScoredOnce!Raise, Scored, Outcome
    <3> QED BY <3>1 DEF ScoredOnce!Next
  <2> QED BY <2>1, <2>3, <2>4
<1>4. CASE Forward
  <2>1. /\ pc = "chunk" /\ pc' \in {"loss", "raised"}
        /\ counts' = counts /\ tokens' = tokens /\ cfg' = cfg
        /\ Outcome = "open" /\ Scored' = Scored
    BY <1>4 DEF Forward, accounts, Outcome, Scored
  <2>2. CASE pc' = "raised"
    <3>1. ScoredOnce!Raise
      BY <2>1, <2>2 DEF ScoredOnce!Raise, Scored, Outcome
    <3> QED BY <3>1 DEF ScoredOnce!Next
  <2>3. CASE pc' = "loss"
    BY <2>1, <2>3 DEF ScoredOnce!vars, Scored, Outcome
  <2> QED BY <2>1, <2>2, <2>3
<1>5. CASE Detach
  <2>1. /\ pc = "detach" /\ pc' \in {"chunk", "raised"}
        /\ counts' = counts /\ tokens' = tokens /\ cfg' = cfg /\ Scored' = Scored
        /\ Outcome = "open"
    BY <1>5 DEF Detach, Outcome, Scored
  <2>2. pc' = "chunk"
    BY <1>5, <2>1 DEF Detach, LCInv, LossOK, ControlOK
  <2> QED BY <2>1, <2>2 DEF ScoredOnce!vars, Scored, Outcome
<1>6. CASE UNCHANGED vars
  BY <1>6 DEF vars, accounts, ScoredOnce!vars
<1> QED BY <1>2, <1>3, <1>4, <1>5, <1>6 DEF Next

\* ImplementsSequenceLoss: however run_chunked_forward cuts the sequence, it scores
\* each label once, and reports a loss only over all of them.
THEOREM SequenceLossImplemented == Spec => ImplementsSequenceLoss
<1>1. Spec => ScoredOnce!Spec
  BY InitRefines, StepRefines, LCInvariant, PTL DEF Spec, ScoredOnce!Spec
<1> QED BY <1>1 DEF ImplementsSequenceLoss

-----------------------------------------------------------------------------
(* The cache, flattened and cut                                            *)

\* The cache of a layer, with pieces of three tensors, and of one or two for an index.
Tensors == ({"local", "pending", "compressed"} \X (1 .. 3) \X Nat) \cup ({"index", "scale"} \X Nat)
Triples == {q \in Seq(Tensors) : Len(q) = 3}
Indices == {q \in Seq(Tensors) : Len(q) \in {1, 2}}
Layers ==
  [local : Triples \cup {<<>>}, pending : Triples \cup {<<>>},
   compressed : Seq(Triples), index : Seq(Indices), next : Nat]
CacheOK(c) == c \in [DOMAIN Ratio -> Layers]

LEMMA TripleTyped ==
  ASSUME NEW what \in {"local", "pending", "compressed"}, NEW n \in Nat
  PROVE  Triple(what, n) \in Triples
<1>1. \A i \in 1 .. 3 : <<what, i, n>> \in Tensors
  BY DEF Tensors
<1>2. Triple(what, n) \in Seq(Tensors) /\ Len(Triple(what, n)) = 3
  BY <1>1 DEF Triple
<1> QED BY <1>2 DEF Triples

LEMMA NewCacheOK == CacheOK(NewCache)
<1>1. <<>> \in Seq(Triples) /\ <<>> \in Seq(Indices)
  OBVIOUS
<1> QED BY <1>1 DEF NewCache, CacheOK, Layers

LEMMA ExtendedOK ==
  ASSUME NEW c, CacheOK(c), NEW from \in Nat, NEW to \in Nat
  PROVE  CacheOK(Extended(c, from, to))
<1> SUFFICES ASSUME NEW l \in DOMAIN Ratio PROVE Extended(c, from, to)[l] \in Layers
  BY DEF CacheOK, Extended
<1> DEFINE scale == IF l \in Scaled THEN <<<<"scale", to>>>> ELSE <<>>
           entry == <<<<"index", to>>>> \o scale
<1>1. c[l] \in Layers
  BY DEF CacheOK
<1>2. entry \in Indices
  <2>1. <<"index", to>> \in Tensors /\ <<"scale", to>> \in Tensors
    BY DEF Tensors
  <2>2. scale \in Seq(Tensors) /\ Len(scale) \in {0, 1}
    BY <2>1
  <2>3. <<<<"index", to>>>> \in Seq(Tensors) /\ Len(<<<<"index", to>>>>) = 1
    BY <2>1
  <2> HIDE DEF scale
  <2>4. entry \in Seq(Tensors) /\ Len(entry) = 1 + Len(scale)
    BY <2>2, <2>3
  <2> HIDE DEF entry
  <2>5. Len(entry) = 1 \/ Len(entry) = 2
    <3>1. PICK m : m = Len(scale)
      OBVIOUS
    <3>2. m = 0 \/ m = 1
      BY <2>2, <3>1
    <3>3. Len(entry) = 1 + m
      BY <2>4, <3>1
    <3> QED BY ONLY <3>2, <3>3
  <2> QED BY <2>4, <2>5 DEF Indices
<1>3. /\ Triple("local", to) \in Triples /\ Triple("pending", to) \in Triples
      /\ Triple("compressed", to) \in Triples
  BY TripleTyped
<1>4. /\ c[l].compressed \in Seq(Triples) /\ c[l].index \in Seq(Indices)
      /\ Append(c[l].compressed, Triple("compressed", to)) \in Seq(Triples)
      /\ Append(c[l].index, entry) \in Seq(Indices)
  <2>1. c[l].compressed \in Seq(Triples) /\ c[l].index \in Seq(Indices)
    BY <1>1 DEF Layers
  <2> HIDE DEF entry
  <2> QED BY <2>1, <1>2, <1>3
<1>5. PICK e \in Indices : e = entry
  BY <1>2
<1>6. PICK t \in Triples : t = Triple("compressed", to)
  BY <1>3
<1> HIDE DEF entry
<1>7. Extended(c, from, to)[l] =
        [local |-> Triple("local", to),
         pending |-> IF Ratio[l] = 0 THEN <<>> ELSE Triple("pending", to),
         compressed |-> IF Ratio[l] # 0 /\ to \div Ratio[l] > from \div Ratio[l]
                        THEN Append(c[l].compressed, Triple("compressed", to)) ELSE c[l].compressed,
         index |-> IF Ratio[l] # 0 /\ to \div Ratio[l] > from \div Ratio[l]
                   THEN Append(c[l].index, entry) ELSE c[l].index,
         next |-> to]
  BY DEF Extended, entry
<1> QED BY <1>3, <1>4, <1>7 DEF Layers

-----------------------------------------------------------------------------
\* A piece of one of four sequences joined, and where it is in the whole.
LEMMA Shifted ==
  ASSUME NEW X, NEW s \in Seq(X), NEW t \in Seq(X), NEW a \in Nat, NEW b \in Nat, a <= b, b <= Len(t)
  PROVE  SubSeq(s \o t, (Len(s) + a) + 1, Len(s) + b) = SubSeq(t, a + 1, b)
OBVIOUS

LEMMA Unshifted ==
  ASSUME NEW X, NEW s \in Seq(X), NEW t \in Seq(X), NEW a \in Nat, NEW b \in Nat, b <= Len(s)
  PROVE  SubSeq(s \o t, a + 1, b) = SubSeq(s, a + 1, b)
OBVIOUS
\* The number of tensors before the indices and before each of them.
FlagsOf(flags, index) == flags = [i \in DOMAIN index |-> Len(index[i]) = 2]

LEMMA IndexOffsets ==
  ASSUME NEW index \in Seq(Indices), NEW flags, FlagsOf(flags, index),
         NEW k \in 1 .. Len(index)
  PROVE  /\ Cardinality({j \in 1 .. k - 1 : flags[j]}) \in Nat
         /\ k + Cardinality({j \in 1 .. (k + 1) - 1 : flags[j]})
              = (k - 1) + Cardinality({j \in 1 .. k - 1 : flags[j]}) + Len(index[k])
<1> DEFINE F == {j \in 1 .. k - 1 : flags[j]}
           G == {j \in 1 .. (k + 1) - 1 : flags[j]}
<1>1. k - 1 \in Int /\ k \in Nat
  OBVIOUS
<1>2. IsFiniteSet(1 .. k - 1)
  <2>1. \A n \in Int : IsFiniteSet(1 .. n)
    BY FS_Interval
  <2> QED BY <1>1, <2>1
<1>3. IsFiniteSet(F) /\ F \in SUBSET (1 .. k - 1)
  BY <1>2, FS_Subset
<1>4. Cardinality(F) \in Nat
  BY <1>3, FS_CardinalityType
<1>5. index[k] \in Indices /\ flags[k] = (Len(index[k]) = 2)
  BY DEF FlagsOf
<1>6. CASE Len(index[k]) = 2
  <2>1. G = F \cup {k} /\ k \notin F
    <3>1. \A j : j \in 1 .. (k + 1) - 1 <=> (j \in 1 .. k - 1 \/ j = k)
      OBVIOUS
    <3>2. flags[k]
      BY <1>5, <1>6, Zenon
    <3>3. k \notin 1 .. k - 1
      OBVIOUS
    <3> QED BY <3>1, <3>2, <3>3
  <2>2. Cardinality(G) = Cardinality(F) + 1
    <3> HIDE DEF F, G
    <3> QED BY <1>3, <2>1, FS_AddElement
  <2> HIDE DEF F, G
  <2>3. k + Cardinality(G) = (k - 1) + Cardinality(F) + Len(index[k])
    BY <1>1, <1>4, <1>6, <2>2
  <2> QED BY <1>4, <2>3 DEF F, G
<1>7. CASE Len(index[k]) = 1
  <2>1. G = F
    <3>1. \A j : j \in 1 .. (k + 1) - 1 <=> (j \in 1 .. k - 1 \/ j = k)
      OBVIOUS
    <3>2. ~ flags[k]
      <4>1. Len(index[k]) # 2
        BY <1>7
      <4> QED BY <1>5, <4>1
    <3> QED BY <3>1, <3>2
  <2> HIDE DEF F, G
  <2>3. k + Cardinality(G) = (k - 1) + Cardinality(F) + Len(index[k])
    BY <1>1, <1>4, <1>7, <2>1
  <2> QED BY <1>4, <2>3 DEF F, G
<1> QED BY <1>5, <1>6, <1>7 DEF Indices

Flat(q) == q.local \o q.pending \o FlattenSeq(q.compressed) \o FlattenSeq(q.index)

SpecOf(q) ==
  [hasLocal |-> q.local # <<>>, hasPending |-> q.pending # <<>>,
   compressedCount |-> Len(q.compressed),
   scaleFlags |-> [i \in DOMAIN q.index |-> Len(q.index[i]) = 2],
   next |-> q.next]

\* The chunks of a layer in their flat sequence.
LEMMA CompressedPieces ==
  ASSUME NEW compressed \in Seq(Triples)
  PROVE  /\ FlattenSeq(compressed) \in Seq(Tensors)
         /\ Len(FlattenSeq(compressed)) = 3 * Len(compressed)
         /\ \A k \in 1 .. Len(compressed) :
              SubSeq(FlattenSeq(compressed), 3 * (k - 1) + 1, 3 * k) = compressed[k]
<1> DEFINE n == Len(compressed)
           at == [k \in 1 .. n + 1 |-> 3 * (k - 1)]
<1>1. n \in Nat /\ (n = 0 => compressed = <<>>)
  OBVIOUS
<1>2. \A k \in 1 .. n : compressed[k] \in Seq(Tensors) /\ Len(compressed[k]) = 3
  BY DEF Triples
<1>3. at[1] = 0 /\ \A k \in 1 .. n : at[k + 1] = at[k] + Len(compressed[k])
  <2>1. at[1] = 0
    BY <1>1
  <2>2. ASSUME NEW k \in 1 .. n PROVE at[k + 1] = at[k] + Len(compressed[k])
    <3>1. at[k] = 3 * (k - 1) /\ at[k + 1] = 3 * ((k + 1) - 1) /\ Len(compressed[k]) = 3
      BY <1>1, <1>2
    <3> HIDE DEF at
    <3> QED BY <3>1
  <2> QED BY <2>1, <2>2
<1>4. /\ FlattenSeq(compressed) \in Seq(Tensors)
      /\ Len(FlattenSeq(compressed)) = at[n + 1]
      /\ \A k \in 1 .. n : SubSeq(FlattenSeq(compressed), at[k] + 1, at[k + 1]) = compressed[k]
  <2>1. PICK m : m = n
    OBVIOUS
  <2> HIDE DEF at, n
  <2>2. m \in Nat /\ Len(compressed) = m /\ (m = 0 => compressed = <<>>)
    BY <1>1, <2>1 DEF n
  <2>3. \A k \in 1 .. m : compressed[k] \in Seq(Tensors)
    BY <1>2, <2>1
  <2>4. at[1] = 0 /\ \A k \in 1 .. m : at[k + 1] = at[k] + Len(compressed[k])
    BY <1>3, <2>1
  <2>5. /\ FlattenSeq(compressed) \in Seq(Tensors)
        /\ Len(FlattenSeq(compressed)) = at[m + 1]
        /\ \A k \in 1 .. m : SubSeq(FlattenSeq(compressed), at[k] + 1, at[k + 1]) = compressed[k]
    <3>1. PiecesAt(Tensors, compressed, m, at)
      BY ONLY <2>2, <2>3, <2>4 DEF PiecesAt
    <3> QED BY ONLY <3>1, FlattenedPieces
  <2> QED BY <2>1, <2>5
<1>5. \A k \in 1 .. n : at[k] = 3 * (k - 1) /\ at[k + 1] = 3 * k
  OBVIOUS
<1>6. at[n + 1] = 3 * n
  OBVIOUS
<1> HIDE DEF at
<1> QED BY <1>4, <1>5, <1>6

IndexStart(flags, k) == (k - 1) + Cardinality({j \in 1 .. k - 1 : flags[j]})

LEMMA IndexStartGrows ==
  ASSUME NEW flags, NEW i \in Nat, NEW j \in Nat, i <= j
  PROVE  /\ IndexStart(flags, i) \in Int /\ IndexStart(flags, j) \in Int
         /\ IndexStart(flags, i) <= IndexStart(flags, j)
<1> DEFINE F(n) == {k \in 1 .. n - 1 : flags[k]}
<1>1. \A n \in Nat : IsFiniteSet(F(n)) /\ Cardinality(F(n)) \in Nat
  <2> SUFFICES ASSUME NEW n \in Nat PROVE IsFiniteSet(F(n)) /\ Cardinality(F(n)) \in Nat
    OBVIOUS
  <2>1. n - 1 \in Int
    OBVIOUS
  <2>2. IsFiniteSet(1 .. n - 1)
    <3>1. \A k \in Int : IsFiniteSet(1 .. k)
      BY FS_Interval
    <3> QED BY <2>1, <3>1
  <2>3. F(n) \in SUBSET (1 .. n - 1)
    OBVIOUS
  <2> QED BY <2>2, <2>3, FS_Subset, FS_CardinalityType
<1>2. Cardinality(F(i)) <= Cardinality(F(j))
  <2>1. \A k : k \in 1 .. i - 1 => k \in 1 .. j - 1
    OBVIOUS
  <2>2. F(i) \in SUBSET F(j)
    BY <2>1
  <2>3. IsFiniteSet(F(j))
    BY <1>1
  <2> HIDE DEF F
  <2> QED BY <2>2, <2>3, FS_Subset
<1>3. IndexStart(flags, i) = (i - 1) + Cardinality(F(i)) /\ IndexStart(flags, j) = (j - 1) + Cardinality(F(j))
  BY DEF IndexStart
<1> HIDE DEF F
<1> QED BY <1>1, <1>2, <1>3

LEMMA IndexPieces ==
  ASSUME NEW index \in Seq(Indices), NEW flags, FlagsOf(flags, index)
  PROVE  /\ FlattenSeq(index) \in Seq(Tensors)
         /\ Len(FlattenSeq(index)) = IndexStart(flags, Len(index) + 1)
         /\ \A k \in 1 .. Len(index) :
              /\ IndexStart(flags, k) \in Nat /\ IndexStart(flags, k + 1) \in Nat
              /\ IndexStart(flags, k) <= IndexStart(flags, k + 1)
              /\ SubSeq(FlattenSeq(index), IndexStart(flags, k) + 1, IndexStart(flags, k + 1)) = index[k]
<1> DEFINE n == Len(index)
           at == [k \in 1 .. n + 1 |-> IndexStart(flags, k)]
<1>1. n \in Nat /\ (n = 0 => index = <<>>)
  OBVIOUS
<1>2. \A k \in 1 .. n : index[k] \in Seq(Tensors) /\ Len(index[k]) \in {1, 2}
  BY DEF Indices
<1>3. ASSUME NEW k \in 1 .. n
      PROVE  /\ IndexStart(flags, k) \in Nat
             /\ IndexStart(flags, k + 1) = IndexStart(flags, k) + Len(index[k])
  <2>1. /\ Cardinality({j \in 1 .. k - 1 : flags[j]}) \in Nat
        /\ k + Cardinality({j \in 1 .. (k + 1) - 1 : flags[j]})
              = (k - 1) + Cardinality({j \in 1 .. k - 1 : flags[j]}) + Len(index[k])
    BY IndexOffsets DEF n
  <2>2. (k + 1) - 1 = k /\ k - 1 \in Nat
    OBVIOUS
  <2> QED BY <2>1, <2>2 DEF IndexStart
<1>4. IndexStart(flags, 1) = 0
  <2>1. {j \in 1 .. 1 - 1 : flags[j]} = {}
    OBVIOUS
  <2> QED BY <2>1, FS_EmptySet DEF IndexStart
<1>5. \A k \in 1 .. n : at[k] = IndexStart(flags, k) /\ at[k + 1] = IndexStart(flags, k + 1)
  OBVIOUS
<1>6. at[1] = 0 /\ at[n + 1] = IndexStart(flags, n + 1)
  BY <1>1, <1>4
<1> HIDE DEF at
<1>7. \A k \in 1 .. n : at[k + 1] = at[k] + Len(index[k])
  BY <1>3, <1>5
<1>8. /\ FlattenSeq(index) \in Seq(Tensors)
      /\ Len(FlattenSeq(index)) = at[n + 1]
      /\ \A k \in 1 .. n : SubSeq(FlattenSeq(index), at[k] + 1, at[k + 1]) = index[k]
  <2>1. PICK m : m = n
    OBVIOUS
  <2> HIDE DEF n
  <2>2. m \in Nat /\ Len(index) = m /\ (m = 0 => index = <<>>)
    BY <1>1, <2>1 DEF n
  <2>3. \A k \in 1 .. m : index[k] \in Seq(Tensors)
    BY <1>2, <2>1
  <2>4. at[1] = 0 /\ \A k \in 1 .. m : at[k + 1] = at[k] + Len(index[k])
    BY <1>6, <1>7, <2>1
  <2>5. /\ FlattenSeq(index) \in Seq(Tensors)
        /\ Len(FlattenSeq(index)) = at[m + 1]
        /\ \A k \in 1 .. m : SubSeq(FlattenSeq(index), at[k] + 1, at[k + 1]) = index[k]
    <3>1. PiecesAt(Tensors, index, m, at)
      BY ONLY <2>2, <2>3, <2>4 DEF PiecesAt
    <3> QED BY ONLY <3>1, FlattenedPieces
  <2> QED BY <2>1, <2>5
<1>9. \A k \in 1 .. n : IndexStart(flags, k + 1) \in Nat /\ IndexStart(flags, k) <= IndexStart(flags, k + 1)
  <2> SUFFICES ASSUME NEW k \in 1 .. n
               PROVE  IndexStart(flags, k + 1) \in Nat /\ IndexStart(flags, k) <= IndexStart(flags, k + 1)
    OBVIOUS
  <2>1. PICK x, y : x = IndexStart(flags, k) /\ y = IndexStart(flags, k + 1)
    OBVIOUS
  <2>2. Len(index[k]) = 1 \/ Len(index[k]) = 2
    BY <1>2
  <2>3. x \in Nat /\ y = x + Len(index[k])
    BY <1>3, <2>1
  <2>4. y \in Nat /\ x <= y
    BY ONLY <2>2, <2>3
  <2> QED BY <2>1, <2>4
<1> QED BY <1>3, <1>5, <1>6, <1>8, <1>9

\* The pieces of four sequences joined.
JoinedOf(X, a, b, c, d, f, k, m) ==
  /\ a \in Seq(X) /\ b \in Seq(X) /\ c \in Seq(X) /\ d \in Seq(X)
  /\ f = a \o b \o c \o d /\ k = Len(a) + Len(b) /\ m = k + Len(c)

\* The elements of s from i to j, and the same ones after the first o of f.
Cut(s, i, j) == SubSeq(s, i + 1, j)
CutAfter(f, o, i, j) == SubSeq(f, (o + i) + 1, o + j)

LEMMA JoinedPieces ==
  ASSUME NEW X, NEW a, NEW b, NEW c, NEW d, NEW f, NEW k, NEW m, JoinedOf(X, a, b, c, d, f, k, m)
  PROVE  /\ f \in Seq(X) /\ Len(f) = m + Len(d)
         /\ SubSeq(f, 0 + 1, Len(a)) = a
         /\ SubSeq(f, Len(a) + 1, k) = b
         /\ \A i, j \in Nat : i <= j /\ j <= Len(c) => CutAfter(f, k, i, j) = Cut(c, i, j)
         /\ \A i, j \in Nat : i <= j /\ j <= Len(d) => CutAfter(f, m, i, j) = Cut(d, i, j)
<1> USE DEF JoinedOf
<1>1. PICK g \in Seq(X) : g = a \o b /\ Len(g) = k
  <2>1. a \o b \in Seq(X) /\ Len(a \o b) = Len(a) + Len(b)
    BY ConcatPieces
  <2> QED BY <2>1
<1>2. PICK h \in Seq(X) : h = g \o c /\ Len(h) = m
  <2>1. g \o c \in Seq(X) /\ Len(g \o c) = Len(g) + Len(c)
    BY ConcatPieces
  <2> QED BY <1>1, <2>1
<1>3. f = h \o d /\ f \in Seq(X) /\ Len(f) = m + Len(d)
  <2>1. f = h \o d
    BY <1>1, <1>2
  <2> QED BY <1>2, <2>1
<1>4. k \in Nat /\ m \in Nat /\ k <= m /\ Len(a) \in Nat /\ Len(a) <= k
  OBVIOUS
<1>5. \A i, j \in Nat : j <= Len(h) => SubSeq(f, i + 1, j) = SubSeq(h, i + 1, j)
  BY <1>2, <1>3, Unshifted
<1>6. \A i, j \in Nat : j <= Len(g) => SubSeq(h, i + 1, j) = SubSeq(g, i + 1, j)
  BY <1>1, <1>2, Unshifted
<1>7. SubSeq(g, 0 + 1, Len(a)) = a /\ SubSeq(g, Len(a) + 1, k) = b
  BY <1>1
<1>8. SubSeq(f, 0 + 1, Len(a)) = a /\ SubSeq(f, Len(a) + 1, k) = b
  <2>1. 0 \in Nat /\ Len(a) <= Len(h) /\ Len(a) <= Len(g) /\ k <= Len(h) /\ k <= Len(g)
    BY <1>1, <1>2, <1>4
  <2>2. SubSeq(f, 0 + 1, Len(a)) = SubSeq(h, 0 + 1, Len(a))
    BY ONLY <1>4, <1>5, <2>1, Zenon
  <2>3. SubSeq(h, 0 + 1, Len(a)) = SubSeq(g, 0 + 1, Len(a))
    BY ONLY <1>4, <1>6, <2>1, Zenon
  <2>4. SubSeq(f, Len(a) + 1, k) = SubSeq(h, Len(a) + 1, k)
    BY ONLY <1>4, <1>5, <2>1, Zenon
  <2>5. SubSeq(h, Len(a) + 1, k) = SubSeq(g, Len(a) + 1, k)
    BY ONLY <1>4, <1>6, <2>1, Zenon
  <2> QED BY ONLY <1>7, <2>2, <2>3, <2>4, <2>5, Zenon
<1>9. ASSUME NEW i \in Nat, NEW j \in Nat, i <= j, j <= Len(c)
      PROVE  SubSeq(f, (k + i) + 1, k + j) = SubSeq(c, i + 1, j)
  <2>1. k + i \in Nat /\ k + j \in Nat /\ k + j <= Len(h)
    BY <1>2, <1>4, <1>9
  <2>2. SubSeq(f, (k + i) + 1, k + j) = SubSeq(h, (k + i) + 1, k + j)
    BY <1>5, <2>1
  <2>3. SubSeq(h, (Len(g) + i) + 1, Len(g) + j) = SubSeq(c, i + 1, j)
    BY <1>1, <1>2, <1>9, Shifted
  <2> QED BY <1>1, <2>2, <2>3
<1>10. ASSUME NEW i \in Nat, NEW j \in Nat, i <= j, j <= Len(d)
       PROVE  SubSeq(f, (m + i) + 1, m + j) = SubSeq(d, i + 1, j)
  <2>1. SubSeq(h \o d, (Len(h) + i) + 1, Len(h) + j) = SubSeq(d, i + 1, j)
    BY <1>10, Shifted
  <2> QED BY ONLY <1>2, <1>3, <2>1, Zenon
<1> QED BY <1>3, <1>8, <1>9, <1>10 DEF Cut, CutAfter

\* Where the pieces of a layer are.
LEMMA LayerOffsets ==
  ASSUME NEW q \in Layers, NEW s, s = SpecOf(q)
  PROVE  /\ s \in Layouts
         /\ PendingAt(s) = Len(q.local)
         /\ \A k \in Nat : CompressedAt(s, k) = Len(q.local) + Len(q.pending) + 3 * (k - 1)
         /\ \A k \in Nat :
              IndexAt(s, k) = Len(q.local) + Len(q.pending) + 3 * Len(q.compressed)
                                + IndexStart(s.scaleFlags, k)
         /\ FlagsOf(s.scaleFlags, q.index) /\ Len(s.scaleFlags) = Len(q.index)
<1>1. /\ q.local \in Triples \cup {<<>>} /\ q.pending \in Triples \cup {<<>>}
      /\ q.compressed \in Seq(Triples) /\ q.index \in Seq(Indices) /\ q.next \in Nat
  BY DEF Layers
<1>2. /\ s.hasLocal = (q.local # <<>>) /\ s.hasPending = (q.pending # <<>>)
      /\ s.compressedCount = Len(q.compressed) /\ s.next = q.next
      /\ s.scaleFlags = [i \in DOMAIN q.index |-> Len(q.index[i]) = 2]
  BY DEF SpecOf
<1>3. s.scaleFlags \in Seq(BOOLEAN) /\ Len(s.scaleFlags) = Len(q.index)
  <2>1. PICK n \in Nat : DOMAIN q.index = 1 .. n /\ n = Len(q.index)
    BY <1>1
  <2>2. \A i \in 1 .. n : (Len(q.index[i]) = 2) \in BOOLEAN
    OBVIOUS
  <2>3. s.scaleFlags = [i \in 1 .. n |-> Len(q.index[i]) = 2]
    BY <1>2, <2>1
  <2>4. s.scaleFlags \in [1 .. n -> BOOLEAN]
    BY ONLY <2>2, <2>3, Zenon
  <2> QED BY ONLY <2>1, <2>4
<1>4. s \in Layouts
  <2>1. Len(q.compressed) \in Nat
    BY <1>1
  <2>2. s = [hasLocal |-> q.local # <<>>, hasPending |-> q.pending # <<>>,
             compressedCount |-> Len(q.compressed), scaleFlags |-> s.scaleFlags, next |-> q.next]
    BY <1>2 DEF SpecOf
  <2>3. (q.local # <<>>) \in BOOLEAN /\ (q.pending # <<>>) \in BOOLEAN /\ q.next \in Nat
    BY <1>1
  <2>4. \A a, b \in BOOLEAN, n, m \in Nat, f \in Seq(BOOLEAN) :
          [hasLocal |-> a, hasPending |-> b, compressedCount |-> n, scaleFlags |-> f, next |-> m]
            \in Layouts
    BY DEF Layouts
  <2> QED BY ONLY <1>3, <2>1, <2>2, <2>3, <2>4, Zenon
<1>5. PendingAt(s) = Len(q.local)
  BY <1>1, <1>2 DEF PendingAt, Triples
<1>6. (IF s.hasPending THEN 3 ELSE 0) = Len(q.pending)
  BY <1>1, <1>2 DEF Triples
<1>7. Len(q.local) \in Nat /\ Len(q.pending) \in Nat /\ Len(q.compressed) \in Nat
  BY <1>1 DEF Triples
<1>8. ASSUME NEW k \in Nat
      PROVE  CompressedAt(s, k) = Len(q.local) + Len(q.pending) + 3 * (k - 1)
  BY <1>5, <1>6 DEF CompressedAt
<1>9. ASSUME NEW k \in Nat
      PROVE  IndexAt(s, k) = Len(q.local) + Len(q.pending) + 3 * Len(q.compressed)
                                + IndexStart(s.scaleFlags, k)
  <2> DEFINE n == Cardinality({j \in 1 .. k - 1 : s.scaleFlags[j]})
  <2>1. CompressedAt(s, s.compressedCount + 1) = Len(q.local) + Len(q.pending) + 3 * Len(q.compressed)
    <3>1. s.compressedCount + 1 \in Nat /\ (s.compressedCount + 1) - 1 = Len(q.compressed)
      BY <1>2, <1>7
    <3> QED BY <1>8, <3>1
  <2>2. n \in Nat
    <3>1. k - 1 \in Int
      OBVIOUS
    <3>2. IsFiniteSet(1 .. k - 1)
      <4>1. \A i \in Int : IsFiniteSet(1 .. i)
        BY FS_Interval
      <4> QED BY <3>1, <4>1
    <3>3. {j \in 1 .. k - 1 : s.scaleFlags[j]} \in SUBSET (1 .. k - 1)
      OBVIOUS
    <3> QED BY <3>2, <3>3, FS_Subset, FS_CardinalityType
  <2>3. IndexAt(s, k) = Len(q.local) + Len(q.pending) + 3 * Len(q.compressed) + (k - 1) + n
    BY <2>1 DEF IndexAt
  <2>4. IndexStart(s.scaleFlags, k) = (k - 1) + n
    BY DEF IndexStart
  <2>5. PICK x, y, z, u, v : /\ x = Len(q.local) /\ y = Len(q.pending) /\ z = Len(q.compressed)
                             /\ u = IndexAt(s, k) /\ v = IndexStart(s.scaleFlags, k)
    OBVIOUS
  <2> HIDE DEF n
  <2>6. x \in Nat /\ y \in Nat /\ z \in Nat /\ n \in Nat /\ k \in Nat
    BY <1>7, <2>2, <2>5
  <2>7. u = x + y + 3 * z + (k - 1) + n /\ v = (k - 1) + n
    BY <2>3, <2>4, <2>5
  <2>8. u = x + y + 3 * z + v
    BY ONLY <2>6, <2>7
  <2> QED BY <2>5, <2>8
<1> QED BY <1>2, <1>3, <1>4, <1>5, <1>8, <1>9 DEF FlagsOf

\* A layer's tensors, cut by its layout, are the layer again.
LEMMA LayerRoundTrip ==
  ASSUME NEW q \in Layers, NEW s, s = SpecOf(q), NEW f, f = Flat(q)
  PROVE  f \in Seq(Tensors) /\ Len(f) = Size(s) /\ LayerOf(f, s) = q
<1>1. /\ PendingAt(s) = Len(q.local)
      /\ \A k \in Nat : CompressedAt(s, k) = Len(q.local) + Len(q.pending) + 3 * (k - 1)
      /\ \A k \in Nat :
           IndexAt(s, k) = Len(q.local) + Len(q.pending) + 3 * Len(q.compressed)
                             + IndexStart(s.scaleFlags, k)
      /\ FlagsOf(s.scaleFlags, q.index) /\ Len(s.scaleFlags) = Len(q.index)
  BY LayerOffsets
<1>2. /\ q.local \in Seq(Tensors) /\ q.pending \in Seq(Tensors)
      /\ q.compressed \in Seq(Triples) /\ q.index \in Seq(Indices)
  <2>1. <<>> \in Seq(Tensors)
    OBVIOUS
  <2> QED BY <2>1 DEF Layers, Triples
<1> DEFINE C == FlattenSeq(q.compressed)
           I == FlattenSeq(q.index)
<1>3. /\ C \in Seq(Tensors) /\ Len(C) = 3 * Len(q.compressed)
      /\ \A k \in 1 .. Len(q.compressed) : SubSeq(C, 3 * (k - 1) + 1, 3 * k) = q.compressed[k]
  BY <1>2, CompressedPieces
<1>4. /\ I \in Seq(Tensors) /\ Len(I) = IndexStart(s.scaleFlags, Len(q.index) + 1)
      /\ \A k \in 1 .. Len(q.index) :
           /\ IndexStart(s.scaleFlags, k) \in Nat /\ IndexStart(s.scaleFlags, k + 1) \in Nat
           /\ IndexStart(s.scaleFlags, k) <= IndexStart(s.scaleFlags, k + 1)
           /\ SubSeq(I, IndexStart(s.scaleFlags, k) + 1, IndexStart(s.scaleFlags, k + 1)) = q.index[k]
  <2>0. PICK g : g = s.scaleFlags
    OBVIOUS
  <2>1. PICK i \in Seq(Indices) : i = q.index
    BY <1>2
  <2>2. FlagsOf(g, i)
    BY <1>1, <2>0, <2>1
  <2>3. /\ FlattenSeq(i) \in Seq(Tensors)
        /\ Len(FlattenSeq(i)) = IndexStart(g, Len(i) + 1)
        /\ \A k \in 1 .. Len(i) :
              /\ IndexStart(g, k) \in Nat /\ IndexStart(g, k + 1) \in Nat
              /\ IndexStart(g, k) <= IndexStart(g, k + 1)
              /\ SubSeq(FlattenSeq(i), IndexStart(g, k) + 1, IndexStart(g, k + 1)) = i[k]
    BY ONLY <2>2, IndexPieces
  <2> QED BY ONLY <2>0, <2>1, <2>3, Zenon DEF I
<1>5. f = q.local \o q.pending \o C \o I
  BY DEF Flat
<1>6. PICK k, m : k = Len(q.local) + Len(q.pending) /\ m = k + Len(C)
  OBVIOUS
<1>7. k \in Nat /\ m \in Nat /\ m = k + 3 * Len(q.compressed) /\ Len(q.compressed) \in Nat
      /\ Len(q.index) \in Nat
  <2>1. Len(q.local) \in Nat /\ Len(q.pending) \in Nat /\ Len(q.compressed) \in Nat /\ Len(q.index) \in Nat
    BY <1>2
  <2>2. Len(C) = 3 * Len(q.compressed)
    BY <1>3
  <2>3. PICK a, b, n, x : /\ a = Len(q.local) /\ b = Len(q.pending)
                          /\ n = Len(q.compressed) /\ x = Len(C)
    OBVIOUS
  <2>4. a \in Nat /\ b \in Nat /\ n \in Nat /\ x = 3 * n /\ k = a + b /\ m = k + x
    BY ONLY <1>6, <2>1, <2>2, <2>3, Zenon
  <2>5. k \in Nat /\ m \in Nat /\ m = k + 3 * n
    BY ONLY <2>4
  <2> QED BY ONLY <2>1, <2>3, <2>5, Zenon
<1> HIDE DEF C, I
<1>8. /\ f \in Seq(Tensors) /\ Len(f) = m + Len(I)
      /\ SubSeq(f, 0 + 1, Len(q.local)) = q.local
      /\ SubSeq(f, Len(q.local) + 1, k) = q.pending
      /\ \A i, j \in Nat : i <= j /\ j <= Len(C) =>
           SubSeq(f, (k + i) + 1, k + j) = SubSeq(C, i + 1, j)
      /\ \A i, j \in Nat : i <= j /\ j <= Len(I) =>
           SubSeq(f, (m + i) + 1, m + j) = SubSeq(I, i + 1, j)
  <2>1. PICK x, y, u, v \in Seq(Tensors) : x = q.local /\ y = q.pending /\ u = C /\ v = I
    BY <1>2, <1>3, <1>4, Zenon
  <2>2. JoinedOf(Tensors, x, y, u, v, f, k, m)
    BY ONLY <1>5, <1>6, <2>1, Zenon DEF JoinedOf
  <2>3. /\ f \in Seq(Tensors) /\ Len(f) = m + Len(v)
        /\ SubSeq(f, 0 + 1, Len(x)) = x
        /\ SubSeq(f, Len(x) + 1, k) = y
        /\ \A i, j \in Nat : i <= j /\ j <= Len(u) =>
             SubSeq(f, (k + i) + 1, k + j) = SubSeq(u, i + 1, j)
        /\ \A i, j \in Nat : i <= j /\ j <= Len(v) =>
             SubSeq(f, (m + i) + 1, m + j) = SubSeq(v, i + 1, j)
    <3>1. f \in Seq(Tensors) /\ Len(f) = m + Len(v)
      BY ONLY <2>2, JoinedPieces
    <3>2. SubSeq(f, 0 + 1, Len(x)) = x
      BY ONLY <2>2, JoinedPieces
    <3>3. SubSeq(f, Len(x) + 1, k) = y
      BY ONLY <2>2, JoinedPieces
    <3>4. \A i, j \in Nat : i <= j /\ j <= Len(u) => CutAfter(f, k, i, j) = Cut(u, i, j)
      BY ONLY <2>2, JoinedPieces
    <3>5. \A i, j \in Nat : i <= j /\ j <= Len(v) => CutAfter(f, m, i, j) = Cut(v, i, j)
      BY ONLY <2>2, JoinedPieces
    <3> QED BY ONLY <3>1, <3>2, <3>3, <3>4, <3>5, Zenon DEF Cut, CutAfter
  <2> QED BY ONLY <2>1, <2>3, Zenon
<1>9. \A n \in Nat : CompressedAt(s, n) = k + 3 * (n - 1) /\ IndexAt(s, n) = m + IndexStart(s.scaleFlags, n)
  <2> SUFFICES ASSUME NEW n \in Nat
               PROVE  /\ CompressedAt(s, n) = k + 3 * (n - 1)
                      /\ IndexAt(s, n) = m + IndexStart(s.scaleFlags, n)
    OBVIOUS
  <2>1. CompressedAt(s, n) = Len(q.local) + Len(q.pending) + 3 * (n - 1)
    BY <1>1
  <2>2. IndexAt(s, n) = Len(q.local) + Len(q.pending) + 3 * Len(q.compressed) + IndexStart(s.scaleFlags, n)
    BY <1>1
  <2> QED BY ONLY <1>6, <1>7, <2>1, <2>2
<1>10. Len(f) = Size(s)
  <2>1. PICK n : n = Len(q.index) + 1
    OBVIOUS
  <2>2. n \in Nat
    BY <1>7, <2>1
  <2>3. IndexAt(s, n) = m + IndexStart(s.scaleFlags, n)
    BY ONLY <1>9, <2>2
  <2> QED BY ONLY <1>1, <1>4, <1>8, <2>1, <2>3 DEF Size
<1>11. ASSUME NEW n \in 1 .. Len(q.compressed)
       PROVE  SubSeq(f, CompressedAt(s, n) + 1, CompressedAt(s, n + 1)) = q.compressed[n]
  <2>1. PICK i, j \in Nat : i = 3 * (n - 1) /\ j = 3 * n /\ i <= j /\ j <= Len(C)
    <3>1. 3 * (n - 1) \in Nat /\ 3 * n \in Nat /\ 3 * (n - 1) <= 3 * n
          /\ 3 * n <= 3 * Len(q.compressed)
      BY <1>7
    <3> QED BY <1>3, <3>1
  <2>2. SubSeq(f, (k + i) + 1, k + j) = SubSeq(C, i + 1, j)
    BY ONLY <1>8, <2>1, Zenon
  <2>3. SubSeq(C, i + 1, j) = q.compressed[n]
    BY ONLY <1>3, <2>1, Zenon
  <2>4. CompressedAt(s, n) = k + i /\ CompressedAt(s, n + 1) = k + j
    <3>1. n \in Nat /\ n + 1 \in Nat /\ 3 * ((n + 1) - 1) = 3 * n
      BY <1>7
    <3>2. CompressedAt(s, n) = k + 3 * (n - 1) /\ CompressedAt(s, n + 1) = k + 3 * ((n + 1) - 1)
      BY ONLY <1>9, <3>1, Zenon
    <3> QED BY ONLY <2>1, <3>1, <3>2, Zenon
  <2> QED BY ONLY <2>2, <2>3, <2>4, Zenon
<1>12. ASSUME NEW n \in 1 .. Len(q.index)
       PROVE  SubSeq(f, IndexAt(s, n) + 1, IndexAt(s, n + 1)) = q.index[n]
  <2>1. /\ IndexStart(s.scaleFlags, n) \in Nat /\ IndexStart(s.scaleFlags, n + 1) \in Nat
        /\ IndexStart(s.scaleFlags, n) <= IndexStart(s.scaleFlags, n + 1)
        /\ SubSeq(I, IndexStart(s.scaleFlags, n) + 1, IndexStart(s.scaleFlags, n + 1)) = q.index[n]
    BY <1>4
  <2>2. IndexStart(s.scaleFlags, n + 1) <= Len(I)
    <3>1. PICK a, b \in Nat : a = n + 1 /\ b = Len(q.index) + 1 /\ a <= b
      <4>1. n + 1 \in Nat /\ Len(q.index) + 1 \in Nat /\ n + 1 <= Len(q.index) + 1
        BY <1>7
      <4> QED BY <4>1, Zenon
    <3>2. IndexStart(s.scaleFlags, a) <= IndexStart(s.scaleFlags, b)
      BY <3>1, IndexStartGrows
    <3> QED BY <1>4, <3>1, <3>2
  <2>3. PICK i, j \in Nat : /\ i = IndexStart(s.scaleFlags, n) /\ j = IndexStart(s.scaleFlags, n + 1)
                            /\ i <= j /\ j <= Len(I)
    BY <2>1, <2>2
  <2>4. SubSeq(f, (m + i) + 1, m + j) = SubSeq(I, i + 1, j)
    BY ONLY <1>8, <2>3, Zenon
  <2>5. IndexAt(s, n) = m + i /\ IndexAt(s, n + 1) = m + j
    <3>1. n \in Nat /\ n + 1 \in Nat
      BY <1>7
    <3> QED BY ONLY <1>9, <2>3, <3>1, Zenon
  <2> QED BY ONLY <2>1, <2>3, <2>4, <2>5, Zenon
<1>13. CompressedAt(s, 1) = k
  <2>1. 1 \in Nat /\ k + 3 * (1 - 1) = k
    BY <1>7
  <2> QED BY ONLY <1>9, <2>1, Zenon
<1>14. LayerOf(f, s) = [local |-> q.local, pending |-> q.pending, compressed |-> q.compressed,
                         index |-> q.index, next |-> q.next]
  <2>1. /\ s.compressedCount = Len(q.compressed) /\ s.next = q.next
        /\ DOMAIN s.scaleFlags = DOMAIN q.index
    BY DEF SpecOf
  <2>2. DOMAIN q.compressed = 1 .. Len(q.compressed) /\ DOMAIN q.index = 1 .. Len(q.index)
        /\ q.compressed = [n \in 1 .. Len(q.compressed) |-> q.compressed[n]]
        /\ q.index = [n \in 1 .. Len(q.index) |-> q.index[n]]
    BY <1>2
  <2>3. [n \in 1 .. s.compressedCount |->
           SubSeq(f, CompressedAt(s, n) + 1, CompressedAt(s, n + 1))] = q.compressed
    BY ONLY <1>11, <2>1, <2>2
  <2>4. [n \in DOMAIN s.scaleFlags |-> SubSeq(f, IndexAt(s, n) + 1, IndexAt(s, n + 1))] = q.index
    BY ONLY <1>12, <2>1, <2>2
  <2>5. SubSeq(f, 0 + 1, PendingAt(s)) = q.local /\ SubSeq(f, PendingAt(s) + 1, CompressedAt(s, 1)) = q.pending
    BY ONLY <1>1, <1>8, <1>13, Zenon
  <2> QED BY ONLY <2>1, <2>3, <2>4, <2>5, Zenon DEF LayerOf
<1>15. q = [local |-> q.local, pending |-> q.pending, compressed |-> q.compressed,
            index |-> q.index, next |-> q.next]
  BY DEF Layers
<1> QED BY ONLY <1>8, <1>10, <1>14, <1>15, Zenon

\* take() advances by what each layer has.
LEMMA CursorAdvances ==
  ASSUME NEW n \in Nat, NEW layout, DOMAIN layout = 1 .. n,
         \A m \in 1 .. n : Size(layout[m]) \in Nat
  PROVE  /\ Cursor(layout, 1) = 0
         /\ \A l \in 1 .. n : Cursor(layout, l + 1) = Cursor(layout, l) + Size(layout[l])
<1> DEFINE f == [m \in DOMAIN layout |-> Size(layout[m])]
<1>1. \A m \in 1 .. n : f[m] = Size(layout[m]) /\ f[m] \in Int
  OBVIOUS
<1>2. \A l : Cursor(layout, l) = SumFunctionOnSet(f, 1 .. l - 1)
  BY DEF Cursor
<1> HIDE DEF f
<1>3. Cursor(layout, 1) = 0
  <2>1. 1 .. 1 - 1 = {}
    OBVIOUS
  <2> QED BY <1>2, <2>1, SumEmpty
<1>4. ASSUME NEW l \in 1 .. n PROVE Cursor(layout, l + 1) = Cursor(layout, l) + Size(layout[l])
  <2>1. PICK S, R : S = 1 .. (l + 1) - 1 /\ R = 1 .. l - 1
    OBVIOUS
  <2>2. IsFiniteSet(S)
    <3>1. (l + 1) - 1 \in Int
      OBVIOUS
    <3> QED BY <2>1, <3>1, IntervalFinite
  <2>3. l \in S /\ S \ {l} = R /\ S \in SUBSET (1 .. n) /\ R \in SUBSET (1 .. n)
    <3>1. \A k : k \in 1 .. (l + 1) - 1 <=> (k \in 1 .. l - 1 \/ k = l)
      OBVIOUS
    <3>2. l \notin 1 .. l - 1 /\ 1 .. (l + 1) - 1 \in SUBSET (1 .. n)
      OBVIOUS
    <3> QED BY <2>1, <3>1, <3>2, Zenon
  <2>4. \A m \in S : f[m] \in Int
    BY <1>1, <2>3
  <2>5. SumFunctionOnSet(f, S) = f[l] + SumFunctionOnSet(f, S \ {l})
    BY ONLY <2>2, <2>3, <2>4, SumStep
  <2>6. SumFunctionOnSet(f, R) \in Int
    <3>1. IsFiniteSet(R)
      BY <2>2, <2>3, FS_Subset
    <3> QED BY <1>1, <2>3, <3>1, SumTyped
  <2>7. PICK x, y, z : x = Cursor(layout, l + 1) /\ y = Cursor(layout, l) /\ z = Size(layout[l])
    OBVIOUS
  <2>8. x = z + y /\ y \in Int /\ z \in Int
    BY <1>1, <1>2, <2>1, <2>3, <2>5, <2>6, <2>7
  <2>9. x = y + z
    BY ONLY <2>8
  <2> QED BY <2>7, <2>9
<1> QED BY <1>3, <1>4

\* The cache, flattened and cut again.
LEMMA CacheRoundTrip ==
  ASSUME NEW c, CacheOK(c), NEW state, state = StateOf(c), NEW layout, layout = LayoutOf(c)
  PROVE  /\ state \in Seq(Tensors) /\ layout \in Seq(Layouts)
         /\ Describes(layout, state) /\ CacheOf(state, layout) = c
<1>1. PICK n \in Nat : DOMAIN Ratio = 1 .. n
  BY RatioAssumption
<1>2. DOMAIN c = 1 .. n /\ \A l \in 1 .. n : c[l] \in Layers
  BY <1>1 DEF CacheOK
<1>3. layout = [l \in 1 .. n |-> SpecOf(c[l])]
  BY <1>2 DEF LayoutOf, SpecOf
<1> DEFINE seqs == [l \in 1 .. n |-> Flat(c[l])]
           at == [l \in 1 .. n + 1 |-> Cursor(layout, l)]
<1>4. state = FlattenSeq(seqs)
  BY <1>2 DEF StateOf, Flat
<1>5. ASSUME NEW l \in 1 .. n
      PROVE  /\ layout[l] = SpecOf(c[l]) /\ layout[l] \in Layouts
             /\ seqs[l] \in Seq(Tensors) /\ Len(seqs[l]) = Size(layout[l])
             /\ LayerOf(seqs[l], layout[l]) = c[l]
  <2>1. PICK q \in Layers : q = c[l]
    BY <1>2
  <2>2. PICK s, f : s = SpecOf(q) /\ f = Flat(q)
    OBVIOUS
  <2>3. f \in Seq(Tensors) /\ Len(f) = Size(s) /\ LayerOf(f, s) = q
    BY <2>2, LayerRoundTrip
  <2>4. s \in Layouts
    BY <2>2, LayerOffsets
  <2>5. layout[l] = s /\ seqs[l] = f
    BY <1>3, <2>1, <2>2
  <2> QED BY ONLY <2>1, <2>2, <2>3, <2>4, <2>5, Zenon
<1>6. layout \in Seq(Layouts) /\ Len(layout) = n /\ DOMAIN layout = 1 .. n
  <2>1. layout \in [1 .. n -> Layouts]
    BY <1>3, <1>5
  <2> QED BY <2>1
<1>7. \A l \in 1 .. n : Size(layout[l]) \in Nat
  <2>1. ASSUME NEW l \in 1 .. n PROVE Size(layout[l]) \in Nat
    <3>1. PICK f \in Seq(Tensors) : f = seqs[l]
      BY <1>5
    <3>2. Len(f) \in Nat
      OBVIOUS
    <3> QED BY <1>5, <3>1, <3>2, Zenon
  <2> QED BY <2>1
<1>8. Cursor(layout, 1) = 0 /\ \A l \in 1 .. n : Cursor(layout, l + 1) = Cursor(layout, l) + Size(layout[l])
  BY <1>6, <1>7, CursorAdvances
<1>9. at[1] = 0 /\ at[n + 1] = Cursor(layout, n + 1)
      /\ \A l \in 1 .. n : at[l] = Cursor(layout, l) /\ at[l + 1] = Cursor(layout, l + 1)
  BY <1>8
<1>10. PiecesAt(Tensors, seqs, n, at)
  <2>1. n \in Nat /\ Len(seqs) = n
    OBVIOUS
  <2>2. ASSUME n = 0 PROVE seqs = <<>>
    BY <2>2
  <2>3. \A l \in 1 .. n : seqs[l] \in Seq(Tensors)
    BY <1>5
  <2>4. \A l \in 1 .. n : at[l + 1] = at[l] + Len(seqs[l])
    BY ONLY <1>5, <1>8, <1>9, Zenon
  <2> HIDE DEF at, seqs
  <2> QED BY <1>9, <2>1, <2>2, <2>3, <2>4 DEF PiecesAt
<1>11. /\ state \in Seq(Tensors) /\ Len(state) = Cursor(layout, n + 1)
       /\ \A l \in 1 .. n : SubSeq(state, Cursor(layout, l) + 1, Cursor(layout, l + 1)) = seqs[l]
  <2> HIDE DEF at, seqs
  <2>1. /\ FlattenSeq(seqs) \in Seq(Tensors) /\ Len(FlattenSeq(seqs)) = at[n + 1]
        /\ \A l \in 1 .. n : SubSeq(FlattenSeq(seqs), at[l] + 1, at[l + 1]) = seqs[l]
    BY ONLY <1>10, FlattenedPieces
  <2> QED BY ONLY <1>4, <1>9, <2>1, Zenon
<1>12. layout # NONE
  BY <1>6, NoneAssumption
<1> HIDE DEF at, seqs
<1>13. Describes(layout, state)
  BY ONLY <1>6, <1>11, <1>12, Zenon DEF Describes
<1>14. CacheOf(state, layout) = [l \in 1 .. n |-> c[l]]
  <2>1. CacheOf(state, layout) =
          [l \in 1 .. n |-> LayerOf(SubSeq(state, Cursor(layout, l) + 1, Cursor(layout, l + 1)), layout[l])]
    BY ONLY <1>6, <1>12, Zenon DEF CacheOf
  <2> QED BY ONLY <1>5, <1>11, <2>1, Zenon
<1>15. c = [l \in 1 .. n |-> c[l]]
  BY <1>1 DEF CacheOK
<1> QED BY ONLY <1>6, <1>11, <1>13, <1>14, <1>15, Zenon

-----------------------------------------------------------------------------
\* A boundary is nothing, before the first chunk, or the cache, flat.
Boundary(c, state, layout) ==
  /\ CacheOK(c)
  /\ \/ c = NewCache /\ state = <<>> /\ layout = NONE
     \/ state = StateOf(c) /\ layout = LayoutOf(c)

Closures ==
  [cache : [DOMAIN Ratio -> Layers], state : Seq(Tensors), layout : Seq(Layouts) \cup {NONE}]

BoundaryOK ==
  /\ CacheOK(cache)
  /\ Checkpointed => Boundary(cache, boundary.state, boundary.layout)
  /\ replays \in Seq(Closures)
  /\ \A k \in DOMAIN replays : Boundary(replays[k].cache, replays[k].state, replays[k].layout)

LEMMA BoundaryRestores ==
  ASSUME NEW c, NEW state, NEW layout, Boundary(c, state, layout)
  PROVE  /\ [cache |-> c, state |-> state, layout |-> layout] \in Closures
         /\ Describes(layout, state) /\ CacheOf(state, layout) = c
<1>1. c \in [DOMAIN Ratio -> Layers]
  BY DEF Boundary, CacheOK
<1>2. CASE c = NewCache /\ state = <<>> /\ layout = NONE
  <2>1. state \in Seq(Tensors)
    BY <1>2
  <2> QED BY <1>1, <1>2, <2>1 DEF Closures, Describes, CacheOf
<1>3. CASE state = StateOf(c) /\ layout = LayoutOf(c)
  <2>1. CacheOK(c)
    BY DEF Boundary
  <2>2. /\ state \in Seq(Tensors) /\ layout \in Seq(Layouts)
        /\ Describes(layout, state) /\ CacheOf(state, layout) = c
    BY ONLY <1>3, <2>1, CacheRoundTrip
  <2> QED BY ONLY <1>1, <2>2, Zenon DEF Closures
<1> QED BY <1>2, <1>3 DEF Boundary

LEMMA BoundaryInitial == Init => BoundaryOK
<1> SUFFICES ASSUME Init PROVE BoundaryOK
  OBVIOUS
<1>1. cache = NewCache /\ boundary = [state |-> <<>>, layout |-> NONE] /\ replays = <<>>
  BY DEF Init
<1>2. Boundary(NewCache, <<>>, NONE)
  BY NewCacheOK DEF Boundary
<1>3. <<>> \in Seq(Closures) /\ DOMAIN <<>> = {}
  OBVIOUS
<1> QED BY <1>1, <1>2, <1>3, NewCacheOK DEF BoundaryOK

LEMMA BoundaryStep == ASSUME LCInv, BoundaryOK, [Next]_vars PROVE BoundaryOK'
<1>1. CASE UNCHANGED <<cfg, cache, boundary, replays>>
  BY <1>1 DEF BoundaryOK, Boundary, CacheOK, Checkpointed, Stateful
<1>2. ASSUME Forward, ~ UNCHANGED <<cfg, cache, boundary, replays>> PROVE BoundaryOK'
  <2> DEFINE next == Extended(cache, start, Stop)
             chunk == CheckpointedChunk
  <2>1. /\ cfg' = cfg /\ cache' = next
        /\ IF Checkpointed THEN replays' = Append(replays, Closure) /\ boundary' = chunk
           ELSE UNCHANGED <<boundary, replays>>
    BY <1>2 DEF Forward
  <2>2. CacheOK(next)
    <3>1. start \in Nat /\ Stop \in Nat
      BY <1>2, StopBounds DEF Forward, LCInv, ControlOK
    <3> QED BY <3>1, ExtendedOK DEF BoundaryOK
  <2>3. Checkpointed' = Checkpointed /\ CacheOK(cache)' = CacheOK(next)
    BY <2>1 DEF Checkpointed, Stateful, CacheOK
  <2>4. CASE ~ Checkpointed
    BY <2>1, <2>2, <2>3, <2>4 DEF BoundaryOK, Boundary, CacheOK
  <2>5. CASE Checkpointed
    <3>1. Boundary(cache, boundary.state, boundary.layout)
      BY <2>5 DEF BoundaryOK
    <3>2. /\ Closure \in Closures
          /\ CacheOf(boundary.state, boundary.layout) = cache
      BY <3>1, BoundaryRestores DEF Closure
    <3>3. boundary' = [state |-> StateOf(next), layout |-> LayoutOf(next)]
      BY <2>1, <2>5, <3>2 DEF CheckpointedChunk
    <3>4. Boundary(cache, boundary.state, boundary.layout)'
      <4>1. Boundary(next, StateOf(next), LayoutOf(next))
        BY <2>2 DEF Boundary
      <4>2. cache' = next /\ boundary'.state = StateOf(next) /\ boundary'.layout = LayoutOf(next)
        BY <2>1, <3>3
      <4> HIDE DEF next
      <4> QED BY <4>1, <4>2 DEF Boundary, CacheOK
    <3>5. PICK r \in Closures : r = Closure
      BY <3>2
    <3>6. replays \in Seq(Closures) /\ replays' = Append(replays, r)
      BY <2>1, <2>5, <3>5 DEF BoundaryOK
    <3>7. Boundary(r.cache, r.state, r.layout)
      BY <3>1, <3>5 DEF Closure
    <3>8. /\ replays' \in Seq(Closures)
          /\ \A k \in DOMAIN replays' : replays'[k] = r \/ (k \in DOMAIN replays /\ replays'[k] = replays[k])
      BY ONLY <3>5, <3>6
    <3>9. \A k \in DOMAIN replays' : Boundary(replays'[k].cache, replays'[k].state, replays'[k].layout)
      BY <3>7, <3>8, Zenon DEF BoundaryOK
    <3> QED BY <2>2, <2>3, <3>4, <3>8, <3>9 DEF BoundaryOK, Boundary, CacheOK
  <2> QED BY <2>4, <2>5
<1>3. ASSUME Loss \/ Detach \/ End \/ UNCHANGED vars
      PROVE  UNCHANGED <<cfg, cache, boundary, replays>>
  BY <1>3 DEF Loss, Detach, End, vars
<1> QED BY <1>1, <1>2, <1>3 DEF Next

\* ReplayFaithful: backward runs a checkpointed chunk from the cache it was first
\* run from.
THEOREM ReplaysAlwaysFaithful == Spec => []ReplayFaithful
<1>1. BoundaryOK => ReplayFaithful
  <2> SUFFICES ASSUME BoundaryOK PROVE ReplayFaithful
    OBVIOUS
  <2>1. ASSUME NEW k \in DOMAIN replays
        PROVE  /\ Describes(replays[k].layout, replays[k].state)
               /\ CacheOf(replays[k].state, replays[k].layout) = replays[k].cache
    <3>1. Boundary(replays[k].cache, replays[k].state, replays[k].layout)
      BY DEF BoundaryOK
    <3> QED BY ONLY <3>1, BoundaryRestores
  <2>2. ASSUME Checkpointed PROVE CacheOf(boundary.state, boundary.layout) = cache
    <3>1. Boundary(cache, boundary.state, boundary.layout)
      BY <2>2 DEF BoundaryOK
    <3> QED BY ONLY <3>1, BoundaryRestores
  <2> QED BY <2>1, <2>2 DEF ReplayFaithful
<1>2. Spec => []BoundaryOK
  BY LCInvariant, BoundaryInitial, BoundaryStep, PTL DEF Spec
<1> QED BY <1>1, <1>2, PTL

=============================================================================
