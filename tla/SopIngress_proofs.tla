-------------------------- MODULE SopIngress_proofs --------------------------
(***************************************************************************)
(* What a delivery comes to, for any messages, SOPs, limits and faults.    *)
(*                                                                         *)
(* The argument follows a delivery through its stages.                     *)
(*   - Shape says what one looks like at each of them: which SOPs are still*)
(*     to be started, which have a claim, and that every other SOP it      *)
(*     matches has a result; every action has a lemma on what it does.     *)
(*   - Owned says that the claims a delivery holds are its own: their runs *)
(*     are in no engine and in no row, so that whatever the other engines  *)
(*     do, a batch that is given up takes nothing with it and leaves       *)
(*     nothing behind.                                                     *)
(*   - Parks says that the gates of a batch are parked when a later one    *)
(*     fails, so that the store ends them.                                 *)
(*   - Answered says that an answer which acknowledges accounts for every  *)
(*     SOP, Once that the window knows what was started.                   *)
(***************************************************************************)
EXTENDS SopIngress, SequenceTheorems, FiniteSetTheorems, TLAPS

Table(f, V) == DOMAIN f \subseteq Run /\ \A r \in DOMAIN f : f[r] \in V

Outcome == [sop : Sops, as : {"started", "deferred", "coalesced", "skipped"}]

Answer == [at : {"reply"}, msg : Messages, results : SUBSET Outcome]

Stage == {"single", "batch", "reserve", "claim", "insert", "activate", "reclassify"}

Delivery == [at : Stage, msg : Messages, batch : BOOLEAN, todo : SUBSET Sops,
             held : Seq(Run), live : Seq(Run), results : SUBSET Outcome]

Working(e) == pc[e].at \in Stage

\* The runs a delivery has taken, in the order in which it took them.
Taken(d) == d.live \o d.held

\* Results that need no run.
Settles(x) == x.as = "coalesced" \/ (x.as = "skipped" /\ Policy[x.sop] = "Drop")

Gate(s) == FirstStep[s] = "gate"

\* What a delivery looks like at each stage.
Shape(d) ==
  /\ d.batch <=> Cardinality(Matches[d.msg]) > 1
  /\ d.todo \subseteq Matches[d.msg]
  /\ \A x \in d.results : Settles(x)
  /\ \A s \in Matches[d.msg] \ Starting(d) : \E x \in d.results : x.sop = s
  /\ \A i \in 1..Len(Taken(d)) :
       /\ Taken(d)[i].msg = d.msg
       /\ Taken(d)[i].sop \in Matches[d.msg] \ d.todo
       /\ \A j \in 1..Len(Taken(d)) : Taken(d)[i].sop = Taken(d)[j].sop => i = j
  /\ d.at \in {"single", "reclassify"} => ~d.batch
  /\ d.at = "batch" => d.batch
  /\ d.at \in {"single", "batch"} => d.held = <<>>
  /\ d.at \in {"single", "batch", "reserve", "claim", "insert"} => d.live = <<>> /\ d.todo # {}
  /\ d.at = "activate" => d.todo = {} /\ d.held # <<>>

\* Gates are loaded before the SOPs that begin with an agent's step.
GatesLead ==
  \A i, j \in DOMAIN Order : i < j /\ Gate(Order[j]) => Gate(Order[i])

InOrder(d) ==
  /\ \A i \in 1..Len(Taken(d)) : \A s \in d.todo : Gate(s) => Gate(Taken(d)[i].sop)
  /\ \A i, j \in 1..Len(Taken(d)) : i < j /\ Gate(Taken(d)[j].sop) => Gate(Taken(d)[i].sop)

Carried(d) == d \in Delivery /\ Shape(d) /\ (GatesLead => InOrder(d))

TypeOK ==
  /\ broker \in [Messages -> [at : {"queue", "acked"} \cup Engines, again : BOOLEAN]]
  /\ DOMAIN pc = Engines
  /\ \A e \in Engines : pc[e] = Idle \/ pc[e] \in Answer \/ Carried(pc[e])
  /\ DOMAIN mem = Engines /\ \A e \in Engines : Table(mem[e], {"Running", "Parked"})
  /\ DOMAIN window = Engines /\ \A e \in Engines : window[e] \in Seq(Run)
  /\ Table(rows, {"Running", "Parked", "Ended"})
  /\ unsaved \subseteq Run /\ claims \subseteq Run /\ failed \subseteq Run
  /\ started \subseteq Run /\ rolled \subseteq Run /\ IsFiniteSet(started)
  /\ outcome \in [Messages -> SUBSET Outcome]
  /\ faults \in 0..MaxFaults /\ crashed \in BOOLEAN

-----------------------------------------------------------------------------
(* Sequences as sets.                                                         *)

LEMMA InSeq ==
  ASSUME NEW S, NEW w \in Seq(S), NEW x
  PROVE  x \in ToSet(w) <=> \E i \in 1..Len(w) : w[i] = x
  BY LenProperties DEF ToSet

LEMMA SetOfSeq ==
  ASSUME NEW S, NEW w \in Seq(S)
  PROVE  /\ ToSet(w) \subseteq S
         /\ ToSet(w) = {} <=> w = <<>>
<1>1. Len(w) \in Nat /\ \A i \in 1..Len(w) : w[i] \in S
  BY LenProperties, ElementOfSeq
<1>2. \A x \in ToSet(w) : x \in S
  BY <1>1, InSeq
<1>3. CASE w # <<>>
  <2>1. 1 \in 1..Len(w)
    BY <1>1, <1>3, EmptySeq
  <2>2. w[1] \in ToSet(w)
    BY <2>1, LenProperties DEF ToSet
  <2> QED BY <1>2, <1>3, <2>2
<1>4. CASE w = <<>>
  <2>1. Len(w) = 0
    BY <1>4
  <2>2. 1..Len(w) = {} /\ DOMAIN w = 1..Len(w)
    BY <2>1, LenProperties
  <2>3. \A x : x \notin ToSet(w)
    BY <2>2 DEF ToSet
  <2> QED BY <1>2, <1>4, <2>3
<1> QED BY <1>3, <1>4

LEMMA SetOfHead ==
  ASSUME NEW S, NEW w \in Seq(S), w # <<>>
  PROVE  /\ Head(w) \in S /\ Tail(w) \in Seq(S)
         /\ ToSet(w) = {Head(w)} \cup ToSet(Tail(w))
         /\ Len(w) <= 1 => ToSet(w) = {Head(w)}
         /\ Len(w) > 1 => Tail(w) # <<>>
         /\ w = <<Head(w)>> \o Tail(w)
<1>1. /\ Head(w) \in S /\ Tail(w) \in Seq(S) /\ Len(Tail(w)) = Len(w) - 1
      /\ \A i \in 1..Len(Tail(w)) : Tail(w)[i] = w[i + 1]
      /\ Len(w) \in Nat \ {0} /\ Head(w) = w[1]
  BY HeadTailProperties, EmptySeq
<1>2. DOMAIN w = 1..Len(w) /\ DOMAIN Tail(w) = 1..(Len(w) - 1)
  BY <1>1, LenProperties
<1>3. \A x : x \in ToSet(w) <=> x = Head(w) \/ x \in ToSet(Tail(w))
  <2>1. \A i \in DOMAIN w : i = 1 \/ (i - 1 \in DOMAIN Tail(w) /\ w[i] = Tail(w)[i - 1])
    BY <1>1, <1>2
  <2>2. \A i \in DOMAIN Tail(w) : i + 1 \in DOMAIN w /\ w[i + 1] = Tail(w)[i]
    BY <1>1, <1>2
  <2> QED BY <1>1, <1>2, <2>1, <2>2 DEF ToSet
<1>4. Len(w) <= 1 => ToSet(Tail(w)) = {}
  BY <1>1, <1>2 DEF ToSet
<1>6. Len(w) > 1 => Tail(w) # <<>>
  <2>1. Len(<<>>) = 0
    OBVIOUS
  <2> QED BY <1>1, <2>1
<1>7. ToSet(w) = {Head(w)} \cup ToSet(Tail(w))
  BY <1>3
<1>5. w = <<Head(w)>> \o Tail(w)
  <2>1. /\ <<Head(w)>> \in Seq(S) /\ Len(<<Head(w)>>) = 1 /\ <<Head(w)>>[1] = Head(w)
    BY <1>1
  <2>2. /\ <<Head(w)>> \o Tail(w) \in Seq(S)
        /\ Len(<<Head(w)>> \o Tail(w)) = Len(w)
        /\ \A i \in 1..Len(w) : (<<Head(w)>> \o Tail(w))[i] =
             IF i <= 1 THEN <<Head(w)>>[i] ELSE Tail(w)[i - 1]
    BY <1>1, <2>1, ConcatProperties
  <2>3. \A i \in 1..Len(w) : (<<Head(w)>> \o Tail(w))[i] = w[i]
    BY <1>1, <2>1, <2>2
  <2> QED BY <2>2, <2>3, SeqEqual
<1>8. Len(w) <= 1 => ToSet(w) = {Head(w)}
  BY <1>4, <1>7
<1> QED BY <1>1, <1>5, <1>6, <1>7, <1>8

LEMMA SetOfAppend ==
  ASSUME NEW S, NEW w \in Seq(S), NEW x \in S
  PROVE  /\ Append(w, x) \in Seq(S) /\ Append(w, x) # <<>>
         /\ ToSet(Append(w, x)) = ToSet(w) \cup {x}
         /\ Append(w, x) = w \o <<x>>
<1>1. /\ Append(w, x) \in Seq(S) /\ Len(Append(w, x)) = Len(w) + 1 /\ Len(w) \in Nat
      /\ \A i \in 1..Len(w) : Append(w, x)[i] = w[i]
      /\ Append(w, x)[Len(w) + 1] = x
  BY LenProperties
<1>2. DOMAIN w = 1..Len(w) /\ DOMAIN Append(w, x) = 1..(Len(w) + 1)
  BY <1>1, LenProperties
<1>3. \A y : y \in ToSet(Append(w, x)) <=> y \in ToSet(w) \/ y = x
  <2>1. \A i \in DOMAIN Append(w, x) : i \in DOMAIN w \/ i = Len(w) + 1
    BY <1>1, <1>2
  <2>2. DOMAIN w \subseteq DOMAIN Append(w, x) /\ Len(w) + 1 \in DOMAIN Append(w, x)
    BY <1>1, <1>2
  <2> QED BY <1>1, <1>2, <2>1, <2>2 DEF ToSet
<1>4. Append(w, x) = w \o <<x>>
  <2>1. <<x>> \in Seq(S) /\ Len(<<x>>) = 1 /\ <<x>>[1] = x
    OBVIOUS
  <2>2. /\ w \o <<x>> \in Seq(S)
        /\ Len(w \o <<x>>) = Len(w) + 1
        /\ \A i \in 1..(Len(w) + 1) : (w \o <<x>>)[i] = IF i <= Len(w) THEN w[i] ELSE <<x>>[i - Len(w)]
    BY <2>1, ConcatProperties
  <2>3. \A i \in 1..(Len(w) + 1) : (w \o <<x>>)[i] = Append(w, x)[i]
    BY <1>1, <2>1, <2>2
  <2> QED BY <1>1, <2>2, <2>3, SeqEqual
<1>5. ToSet(Append(w, x)) = ToSet(w) \cup {x}
  BY <1>3
<1>6. Append(w, x) # <<>>
  BY <1>1, EmptySeq
<1> QED BY <1>1, <1>4, <1>5, <1>6

LEMMA SetOfConcat ==
  ASSUME NEW S, NEW v \in Seq(S), NEW w \in Seq(S)
  PROVE  v \o w \in Seq(S) /\ ToSet(v \o w) = ToSet(v) \cup ToSet(w)
<1>1. /\ v \o w \in Seq(S) /\ Len(v \o w) = Len(v) + Len(w)
      /\ \A i \in 1..Len(v) + Len(w) : (v \o w)[i] = IF i <= Len(v) THEN v[i] ELSE w[i - Len(v)]
      /\ Len(v) \in Nat /\ Len(w) \in Nat
  BY ConcatProperties, LenProperties
<1>2. DOMAIN v = 1..Len(v) /\ DOMAIN w = 1..Len(w) /\ DOMAIN (v \o w) = 1..(Len(v) + Len(w))
  BY <1>1, LenProperties
<1>3. \A i \in DOMAIN (v \o w) : \/ i \in DOMAIN v /\ (v \o w)[i] = v[i]
                                 \/ i - Len(v) \in DOMAIN w /\ (v \o w)[i] = w[i - Len(v)]
  BY <1>1, <1>2
<1>4. \A i \in DOMAIN v : i \in DOMAIN (v \o w) /\ (v \o w)[i] = v[i]
  BY <1>1, <1>2
<1>5. \A i \in DOMAIN w : i + Len(v) \in DOMAIN (v \o w) /\ (v \o w)[i + Len(v)] = w[i]
  BY <1>1, <1>2
<1>6. \A x : x \in ToSet(v \o w) => x \in ToSet(v) \/ x \in ToSet(w)
  BY <1>3 DEF ToSet
<1>7. \A x : x \in ToSet(v) => x \in ToSet(v \o w)
  BY <1>4 DEF ToSet
<1>8. \A x : x \in ToSet(w) => x \in ToSet(v \o w)
  BY <1>5 DEF ToSet
<1>9. ToSet(v \o w) = ToSet(v) \cup ToSet(w)
  BY <1>6, <1>7, <1>8
<1> QED BY <1>1, <1>9


-----------------------------------------------------------------------------
(* A delivery goes from stage to stage.                                       *)

LEMMA AdmissionRange ==
  ASSUME NEW s \in Sops
  PROVE  /\ Admission(s) \in {"admit", "defer", "coalesce", "drop"}
         /\ Admission(s) = "admit" => HasSlot(s) /\ ~PoolFull(s)
         /\ Admission(s) = "drop" => Policy[s] = "Drop"
  BY IngressAssumption DEF Admission

LEMMA VerdictRange ==
  ASSUME NEW s \in Sops, Admission(s) # "admit"
  PROVE  /\ Verdict(Admission(s)) \in {"deferred", "coalesced", "skipped"}
         /\ Verdict(Admission(s)) = "skipped" => Policy[s] = "Drop"
         /\ Verdict(Admission(s)) = "deferred" => Admission(s) = "defer"
  BY AdmissionRange DEF Verdict

LEMMA InHand ==
  ASSUME TypeOK, NEW e \in Engines
  PROVE  /\ Working(e) => Carried(pc[e])
         /\ pc[e].at = "reply" => pc[e] \in Answer
         /\ pc[e].at = "idle" => pc[e] = Idle
         /\ Unlocked(e) <=> ~Working(e)
<1>1. CASE pc[e] = Idle
  BY <1>1 DEF Idle, Working, Unlocked, Stage
<1>2. CASE pc[e] \in Answer
  BY <1>2 DEF Answer, Working, Unlocked, Stage
<1>3. CASE Carried(pc[e])
  BY <1>3 DEF Carried, Delivery, Working, Unlocked, Stage
<1> QED BY <1>1, <1>2, <1>3 DEF TypeOK

LEMMA ReplyType ==
  ASSUME NEW d, d.msg \in Messages, d.results \subseteq Outcome, NEW R, R \subseteq Outcome
  PROVE  /\ Reply(d, R) \in Answer
         /\ Reply(d, R).at = "reply" /\ Reply(d, R).msg = d.msg
         /\ Reply(d, R).results = d.results \cup R
  BY DEF Reply, Answer

LEMMA ResultType ==
  ASSUME NEW s \in Sops, NEW as \in {"started", "deferred", "coalesced", "skipped"}
  PROVE  /\ Result(s, as) \in Outcome
         /\ Result(s, as).sop = s /\ Result(s, as).as = as
  BY DEF Result, Outcome

LEMMA DeliveryFields ==
  ASSUME NEW d \in Delivery
  PROVE  /\ d.at \in Stage /\ d.msg \in Messages /\ d.batch \in BOOLEAN
         /\ d.todo \subseteq Sops /\ d.held \in Seq(Run) /\ d.live \in Seq(Run)
         /\ d.results \subseteq Outcome
         /\ Taken(d) \in Seq(Run) /\ ToSet(Taken(d)) = ToSet(d.live) \cup ToSet(d.held)
         /\ Matches[d.msg] \subseteq Sops
         /\ Starting(d) \subseteq Sops
         /\ Starting(d) = d.todo \cup {r.sop : r \in ToSet(Taken(d))}
<1>1. /\ d.at \in Stage /\ d.msg \in Messages /\ d.batch \in BOOLEAN
      /\ d.todo \subseteq Sops /\ d.held \in Seq(Run) /\ d.live \in Seq(Run)
      /\ d.results \subseteq Outcome
  BY DEF Delivery
<1>2. Taken(d) \in Seq(Run) /\ ToSet(Taken(d)) = ToSet(d.live) \cup ToSet(d.held)
  BY <1>1, SetOfConcat DEF Taken
<1>3. Matches[d.msg] \subseteq Sops
  BY <1>1, IngressAssumption
<1>4. Starting(d) = d.todo \cup {r.sop : r \in ToSet(Taken(d))}
  BY <1>2 DEF Starting
<1>5. Starting(d) \subseteq Sops
  <2>1. \A r \in ToSet(Taken(d)) : r.sop \in Sops
    <3>1. ToSet(Taken(d)) \subseteq Run
      BY <1>2, SetOfSeq
    <3> QED BY <3>1 DEF Run
  <2> QED BY <1>1, <1>4, <2>1
<1> QED BY <1>1, <1>2, <1>3, <1>4, <1>5

\* Only the stage changes.
LEMMA Goes ==
  ASSUME NEW d, Carried(d), d.at \in {"single", "reserve", "claim"},
         NEW to \in {"reserve", "claim", "insert"}
  PROVE  Carried([d EXCEPT !.at = to])
<1> DEFINE n == [d EXCEPT !.at = to]
<1>1. /\ n \in Delivery /\ n.at = to /\ n.msg = d.msg /\ n.batch = d.batch /\ n.todo = d.todo
      /\ n.held = d.held /\ n.live = d.live /\ n.results = d.results
  BY DEF Carried, Delivery, Stage
<1>2. Taken(n) = Taken(d) /\ Starting(n) = Starting(d)
  BY <1>1 DEF Taken, Starting
<1> HIDE DEF n
<1>3. Shape(n) /\ (GatesLead => InOrder(n))
  BY <1>1, <1>2 DEF Carried, Shape, InOrder
<1> QED BY <1>1, <1>3 DEF Carried, n

\* A single start that fails.
LEMMA GoesBack ==
  ASSUME NEW d, Carried(d), ~d.batch
  PROVE  Carried([d EXCEPT !.at = "reclassify"])
<1> DEFINE n == [d EXCEPT !.at = "reclassify"]
<1>1. /\ n \in Delivery /\ n.at = "reclassify" /\ n.msg = d.msg /\ n.batch = d.batch
      /\ n.todo = d.todo /\ n.held = d.held /\ n.live = d.live /\ n.results = d.results
  BY DEF Carried, Delivery, Stage
<1>2. Taken(n) = Taken(d) /\ Starting(n) = Starting(d)
  BY <1>1 DEF Taken, Starting
<1> HIDE DEF n
<1>3. Shape(n) /\ (GatesLead => InOrder(n))
  BY <1>1, <1>2 DEF Carried, Shape, InOrder
<1> QED BY <1>1, <1>3 DEF Carried, n

LEMMA NothingTaken ==
  ASSUME NEW d, d.live = <<>>, d.held = <<>>
  PROVE  1..Len(Taken(d)) = {} /\ Starting(d) = d.todo
<1>1. Taken(d) = <<>>
  BY DEF Taken
<1>2. ToSet(<<>>) = {} /\ Len(<<>>) = 0
  BY DEF ToSet
<1>3. 1..Len(Taken(d)) = {}
  BY <1>1, <1>2
<1> QED BY <1>1, <1>2, <1>3 DEF Starting

\* What is known to be started is settled as coalesced.
LEMMA Arrives ==
  ASSUME NEW m \in Messages, NEW K, K \subseteq Sops, NEW batch \in BOOLEAN,
         batch <=> Cardinality(Matches[m]) > 1,
         NEW d, d = [at |-> IF batch THEN "batch" ELSE "single", msg |-> m, batch |-> batch,
                     todo |-> Matches[m] \ K, held |-> <<>>, live |-> <<>>,
                     results |-> {Result(s, "coalesced") : s \in K \cap Matches[m]}]
  PROVE  /\ d \in Delivery
         /\ d.todo # {} => Carried(d)
<1>1. /\ d.at = (IF batch THEN "batch" ELSE "single") /\ d.msg = m /\ d.batch = batch
      /\ d.todo = Matches[m] \ K /\ d.held = <<>> /\ d.live = <<>>
      /\ d.results = {Result(s, "coalesced") : s \in K \cap Matches[m]}
  OBVIOUS
<1>2. \A s \in K \cap Matches[m] : /\ Result(s, "coalesced") \in Outcome
                                   /\ Result(s, "coalesced").sop = s
                                   /\ Result(s, "coalesced").as = "coalesced"
  BY ResultType
<1>3. d \in Delivery
  <2>1. Matches[m] \subseteq Sops /\ <<>> \in Seq(Run)
    BY IngressAssumption
  <2>2. d.results \subseteq Outcome
    BY <1>1, <1>2
  <2> QED BY <1>1, <2>1, <2>2 DEF Delivery, Stage
<1>4. 1..Len(Taken(d)) = {} /\ Starting(d) = d.todo
  BY <1>1, NothingTaken
<1>5. \A x \in d.results : Settles(x)
  BY <1>1, <1>2 DEF Settles
<1>6. \A s \in Matches[m] \ d.todo : \E x \in d.results : x.sop = s
  BY <1>1, <1>2
<1>7. d.todo # {} => Shape(d)
  BY <1>1, <1>4, <1>5, <1>6 DEF Shape
<1>8. InOrder(d)
  BY <1>4 DEF InOrder
<1> QED BY <1>3, <1>7, <1>8 DEF Carried

\* The delivery once the claim of run r for s is inserted.
Taking(d, s, r) ==
  [d EXCEPT !.at = IF d.todo = {s} THEN "activate" ELSE "reserve",
            !.todo = @ \ {s}, !.held = Append(@, r)]

LEMMA AppendAt ==
  ASSUME NEW S, NEW w \in Seq(S), NEW x \in S,
         NEW v, v = Append(w, x)
  PROVE  /\ Len(w) \in Nat
         /\ \A i \in 1..Len(v) : \/ i \in 1..Len(w) /\ v[i] = w[i]
                                 \/ i = Len(w) + 1 /\ v[i] = x
<1>1. /\ v \in Seq(S) /\ Len(v) = Len(w) + 1 /\ Len(w) \in Nat
      /\ \A i \in 1..Len(w) : v[i] = w[i]
      /\ v[Len(w) + 1] = x
  BY LenProperties
<1>2. \A i \in 1..Len(v) : i \in 1..Len(w) \/ i = Len(w) + 1
  BY <1>1
<1> QED BY <1>1, <1>2

\* What a batch need not start is settled, the rest is reserved.
LEMMA Sifted ==
  ASSUME NEW d, Carried(d), d.at = "batch",
         NEW T, T \subseteq d.todo, d.todo \ T # {},
         NEW R, R \subseteq Outcome, \A x \in R : Settles(x), \A s \in T : \E x \in R : x.sop = s
  PROVE  Carried([d EXCEPT !.at = "reserve", !.todo = d.todo \ T, !.results = @ \cup R])
<1> DEFINE n == [d EXCEPT !.at = "reserve", !.todo = d.todo \ T, !.results = @ \cup R]
<1>1. /\ n \in Delivery /\ n.at = "reserve" /\ n.msg = d.msg /\ n.batch = d.batch
      /\ n.todo = d.todo \ T /\ n.held = d.held /\ n.live = d.live /\ n.results = d.results \cup R
  BY DEF Carried, Delivery, Stage
<1>2. d.held = <<>> /\ d.live = <<>>
  BY DEF Carried, Shape
<1> HIDE DEF n
<1>3. /\ 1..Len(Taken(d)) = {} /\ Starting(d) = d.todo
      /\ 1..Len(Taken(n)) = {} /\ Starting(n) = n.todo
  BY <1>1, <1>2, NothingTaken
<1>4. \A s \in Matches[n.msg] \ Starting(n) : \E x \in n.results : x.sop = s
  BY <1>1, <1>3 DEF Carried, Shape
<1>5. \A x \in n.results : Settles(x)
  BY <1>1 DEF Carried, Shape
<1>6. Shape(n)
  BY <1>1, <1>2, <1>3, <1>4, <1>5 DEF Carried, Shape
<1>7. InOrder(n)
  BY <1>3 DEF InOrder
<1> QED BY <1>1, <1>6, <1>7 DEF Carried, n

LEMMA DueOne ==
  ASSUME NEW d \in Delivery, NEW s \in Due(d)
  PROVE  /\ s \in d.todo /\ s \in Sops
         /\ GatesLead => \A t \in d.todo : Gate(t) => Gate(s)
<1>1. s \in d.todo /\ d.todo \subseteq Sops
  BY DEF Due, Delivery
<1>2. SUFFICES ASSUME GatesLead, NEW t \in d.todo, Gate(t) PROVE Gate(s)
  BY <1>1
<1>3. PICK i \in DOMAIN Order : Order[i] = s /\ \A j \in 1..(i - 1) : Order[j] \notin d.todo
  BY DEF Due
<1>4. PICK j \in DOMAIN Order : Order[j] = t
  BY <1>1, IngressAssumption DEF ToSet
<1>5. DOMAIN Order = 1..Len(Order) /\ Len(Order) \in Nat
  BY IngressAssumption, LenProperties
<1>6. ~(j < i)
  BY <1>3, <1>4, <1>5
<1>7. i = j \/ i < j
  BY <1>5, <1>6
<1> QED BY <1>2, <1>3, <1>4, <1>7 DEF GatesLead

\* A claim is inserted: its run is the last one taken.
LEMMA Takes ==
  ASSUME NEW d, Carried(d), d.at = "insert", NEW s \in Due(d),
         NEW r \in Run, r.sop = s, r.msg = d.msg,
         NEW n, n = Taking(d, s, r)
  PROVE  /\ Carried(n)
         /\ n.at \in {"activate", "reserve"} /\ n.msg = d.msg /\ n.batch = d.batch
         /\ n.todo = d.todo \ {s} /\ ToSet(n.held) = ToSet(d.held) \cup {r}
         /\ n.live = d.live /\ n.live = <<>> /\ n.results = d.results
         /\ Starting(n) = Starting(d)
<1>1. /\ d \in Delivery /\ s \in d.todo /\ s \in Sops
      /\ d.held \in Seq(Run) /\ d.live = <<>> /\ s \in Matches[d.msg]
      /\ Taken(d) \in Seq(Run)
  BY DueOne, DeliveryFields DEF Carried, Shape
<1>2. /\ Append(d.held, r) \in Seq(Run) /\ Append(d.held, r) # <<>>
      /\ ToSet(Append(d.held, r)) = ToSet(d.held) \cup {r}
      /\ Append(d.held, r) = d.held \o <<r>>
  BY <1>1, SetOfAppend
<1>3. /\ n \in Delivery /\ n.at = (IF d.todo = {s} THEN "activate" ELSE "reserve")
      /\ n.msg = d.msg /\ n.batch = d.batch
      /\ n.todo = d.todo \ {s} /\ n.held = Append(d.held, r) /\ n.live = d.live
      /\ n.results = d.results
  BY <1>1, <1>2 DEF Taking, Delivery, Stage
<1>4. Taken(d) = d.held /\ Taken(n) = Append(d.held, r)
  BY <1>1, <1>2, <1>3, ConcatEmptySeq DEF Taken
<1>5. Taken(n) = Append(Taken(d), r)
  BY <1>4
<1>6. /\ Len(Taken(d)) \in Nat
      /\ \A i \in 1..Len(Taken(n)) : \/ i \in 1..Len(Taken(d)) /\ Taken(n)[i] = Taken(d)[i]
                                     \/ i = Len(Taken(d)) + 1 /\ Taken(n)[i] = r
  BY <1>1, <1>5, AppendAt
<1>7. Starting(n) = Starting(d)
  <2>1. ToSet(Taken(n)) = ToSet(Taken(d)) \cup {r}
    BY <1>2, <1>4
  <2>2. /\ Starting(n) = n.todo \cup {q.sop : q \in ToSet(Taken(n))}
        /\ Starting(d) = d.todo \cup {q.sop : q \in ToSet(Taken(d))}
    BY <1>1, <1>3, DeliveryFields
  <2>3. n.todo = d.todo \ {s} /\ s \in d.todo /\ r.sop = s
    BY <1>1, <1>3
  <2> QED BY <2>1, <2>2, <2>3
<1>8. \A i \in 1..Len(Taken(d)) :
        /\ Taken(d)[i].msg = d.msg
        /\ Taken(d)[i].sop \in Matches[d.msg] \ d.todo
        /\ \A j \in 1..Len(Taken(d)) : Taken(d)[i].sop = Taken(d)[j].sop => i = j
  BY DEF Carried, Shape
<1>9. \A i \in 1..Len(Taken(n)) :
        /\ Taken(n)[i].msg = n.msg
        /\ Taken(n)[i].sop \in Matches[n.msg] \ n.todo
        /\ \A j \in 1..Len(Taken(n)) : Taken(n)[i].sop = Taken(n)[j].sop => i = j
  <2>1. n.msg = d.msg /\ n.todo = d.todo \ {s} /\ s \in d.todo /\ s \in Matches[d.msg]
    BY <1>1, <1>3
  <2> HIDE DEF Taken
  <2> SUFFICES ASSUME NEW i \in 1..Len(Taken(n))
               PROVE  /\ Taken(n)[i].msg = n.msg
                      /\ Taken(n)[i].sop \in Matches[n.msg] \ n.todo
                      /\ \A j \in 1..Len(Taken(n)) : Taken(n)[i].sop = Taken(n)[j].sop => i = j
    OBVIOUS
  <2>2. CASE i \in 1..Len(Taken(d)) /\ Taken(n)[i] = Taken(d)[i]
    BY <1>6, <1>8, <2>1, <2>2
  <2>3. CASE i = Len(Taken(d)) + 1 /\ Taken(n)[i] = r
    BY <1>6, <1>8, <2>1, <2>3
  <2> QED BY <1>6, <2>2, <2>3
<1>10. Shape(n)
  <2>1. \A t \in Matches[n.msg] \ Starting(n) : \E x \in n.results : x.sop = t
    BY <1>3, <1>7 DEF Carried, Shape
  <2>2. n.at = "activate" => n.todo = {}
    BY <1>3
  <2>3. n.at = "reserve" => n.todo # {}
    BY <1>1, <1>3
  <2>4. n.at \in {"activate", "reserve"} /\ n.held # <<>> /\ n.live = <<>>
    BY <1>1, <1>2, <1>3
  <2>5. /\ n.batch <=> Cardinality(Matches[n.msg]) > 1
        /\ n.todo \subseteq Matches[n.msg]
        /\ \A x \in n.results : Settles(x)
    BY <1>3 DEF Carried, Shape
  <2> QED BY <1>9, <2>1, <2>2, <2>3, <2>4, <2>5 DEF Shape
<1>11. GatesLead => InOrder(n)
  <2> SUFFICES ASSUME GatesLead PROVE InOrder(n)
    OBVIOUS
  <2>1. \A t \in d.todo : Gate(t) => Gate(s)
    BY <1>1, DueOne
  <2>2. /\ \A i \in 1..Len(Taken(d)) : \A t \in d.todo : Gate(t) => Gate(Taken(d)[i].sop)
        /\ \A i, j \in 1..Len(Taken(d)) : i < j /\ Gate(Taken(d)[j].sop) => Gate(Taken(d)[i].sop)
    BY DEF Carried, InOrder
  <2>3. \A i \in 1..Len(Taken(n)) : \A t \in n.todo : Gate(t) => Gate(Taken(n)[i].sop)
    BY <1>3, <1>6, <2>1, <2>2
  <2>4. \A i, j \in 1..Len(Taken(n)) : i < j /\ Gate(Taken(n)[j].sop) => Gate(Taken(n)[i].sop)
    <3> SUFFICES ASSUME NEW i \in 1..Len(Taken(n)), NEW j \in 1..Len(Taken(n)), i < j,
                        Gate(Taken(n)[j].sop)
                 PROVE  Gate(Taken(n)[i].sop)
      OBVIOUS
    <3>1. i \in 1..Len(Taken(d)) /\ Taken(n)[i] = Taken(d)[i]
      <4>1. j \in 1..Len(Taken(d)) \/ j = Len(Taken(d)) + 1
        BY <1>6
      <4>2. i # Len(Taken(d)) + 1
        <5> HIDE DEF Taken
        <5>1. i \in Int /\ j \in Int /\ i < j
          OBVIOUS
        <5> QED BY <1>6, <4>1, <5>1
      <4>3. i \in 1..Len(Taken(d)) \/ i = Len(Taken(d)) + 1
        BY <1>6
      <4> QED BY <1>6, <4>2, <4>3
    <3>2. CASE j \in 1..Len(Taken(d)) /\ Taken(n)[j] = Taken(d)[j]
      BY <2>2, <3>1, <3>2
    <3>3. CASE Taken(n)[j] = r
      BY <1>1, <2>2, <3>1, <3>3
    <3> QED BY <1>6, <3>2, <3>3
  <2> QED BY <2>3, <2>4 DEF InOrder
<1> QED BY <1>1, <1>2, <1>3, <1>7, <1>10, <1>11 DEF Carried

\* A run is activated: the ones taken are the same, in the same order.
LEMMA Activates ==
  ASSUME NEW d, Carried(d), d.at = "activate"
  PROVE  /\ Head(d.held) \in Run /\ Head(d.held) \in ToSet(d.held)
         /\ Append(d.live, Head(d.held)) \in Seq(Run)
         /\ ToSet(Append(d.live, Head(d.held))) = ToSet(d.live) \cup {Head(d.held)}
         /\ ToSet(d.held) = {Head(d.held)} \cup ToSet(Tail(d.held))
         /\ Len(d.held) > 1 =>
              /\ Carried([d EXCEPT !.held = Tail(@), !.live = Append(d.live, Head(d.held))])
              /\ \A n : n.live = Append(d.live, Head(d.held)) /\ n.held = Tail(d.held)
                         => Taken(n) = Taken(d)
         /\ ~(Len(d.held) > 1) =>
              /\ ToSet(d.held) = {Head(d.held)}
              /\ Taken(d) = Append(d.live, Head(d.held))
<1>1. /\ d \in Delivery /\ d.held \in Seq(Run) /\ d.live \in Seq(Run)
      /\ d.held # <<>> /\ d.todo = {} /\ Len(d.held) \in Nat
  BY DeliveryFields, LenProperties DEF Carried, Shape
<1>2. /\ Head(d.held) \in Run /\ Tail(d.held) \in Seq(Run)
      /\ ToSet(d.held) = {Head(d.held)} \cup ToSet(Tail(d.held))
      /\ Len(d.held) <= 1 => ToSet(d.held) = {Head(d.held)}
      /\ Len(d.held) > 1 => Tail(d.held) # <<>>
      /\ d.held = <<Head(d.held)>> \o Tail(d.held)
  BY <1>1, SetOfHead
<1>3. /\ Append(d.live, Head(d.held)) \in Seq(Run)
      /\ ToSet(Append(d.live, Head(d.held))) = ToSet(d.live) \cup {Head(d.held)}
      /\ Append(d.live, Head(d.held)) = d.live \o <<Head(d.held)>>
  BY <1>1, <1>2, SetOfAppend
<1>4. Append(d.live, Head(d.held)) \o Tail(d.held) = Taken(d)
  <2>1. <<Head(d.held)>> \in Seq(Run)
    BY <1>2
  <2>2. (d.live \o <<Head(d.held)>>) \o Tail(d.held) = d.live \o (<<Head(d.held)>> \o Tail(d.held))
    <3>1. \A u, v, w \in Seq(Run) : (u \o v) \o w = u \o (v \o w)
      BY ConcatAssociative
    <3> QED BY <1>1, <1>2, <2>1, <3>1, Zenon
  <2> QED BY <1>2, <1>3, <2>2 DEF Taken
<1>5. CASE Len(d.held) > 1
  <2> DEFINE n == [d EXCEPT !.held = Tail(@), !.live = Append(d.live, Head(d.held))]
  <2>1. /\ n \in Delivery /\ n.at = d.at /\ n.msg = d.msg /\ n.batch = d.batch
        /\ n.todo = d.todo /\ n.held = Tail(d.held) /\ n.live = Append(d.live, Head(d.held))
        /\ n.results = d.results
    BY <1>1, <1>2, <1>3 DEF Delivery
  <2> HIDE DEF n
  <2>2. Taken(n) = Taken(d)
    BY <1>4, <2>1 DEF Taken
  <2>3. Starting(n) = Starting(d)
    BY <1>1, <2>1, <2>2, DeliveryFields
  <2>4. Shape(n) /\ (GatesLead => InOrder(n))
    BY <1>2, <1>5, <2>1, <2>2, <2>3 DEF Carried, Shape, InOrder
  <2>5. Carried(n)
    BY <2>1, <2>4 DEF Carried
  <2>6. \A x : x.live = Append(d.live, Head(d.held)) /\ x.held = Tail(d.held) => Taken(x) = Taken(d)
    BY <1>4 DEF Taken
  <2> QED BY <1>2, <1>3, <1>5, <2>5, <2>6 DEF n
<1>6. CASE ~(Len(d.held) > 1)
  <2>1. Len(d.held) <= 1
    BY <1>1, <1>6
  <2>2. Len(Tail(d.held)) = 0
    <3>1. Len(Tail(d.held)) = Len(d.held) - 1
      BY <1>1, HeadTailProperties
    <3>2. Len(d.held) \in Nat \ {0}
      BY <1>1, EmptySeq
    <3>3. Len(d.held) = 1
      <4> DEFINE k == Len(d.held)
      <4>1. k \in Nat \ {0} /\ k <= 1
        BY <2>1, <3>2
      <4> HIDE DEF k
      <4>2. k = 1
        BY <4>1
      <4> QED BY <4>2 DEF k
    <3> QED BY <3>1, <3>3
  <2>3. Tail(d.held) = <<>>
    BY <1>2, <2>2, EmptySeq
  <2>4. Append(d.live, Head(d.held)) \o <<>> = Append(d.live, Head(d.held))
    BY <1>3, ConcatEmptySeq
  <2> QED BY <1>2, <1>3, <1>4, <1>6, <2>1, <2>3, <2>4
<1> QED BY <1>5, <1>6

-----------------------------------------------------------------------------
(* What the steps of a delivery do to it.                                     *)

\* The results bring the message back, or settle every SOP without a run.
Accounts(R, m) ==
  \/ NeedsRedelivery(R)
  \/ \A s \in Matches[m] : \/ Cardinality(Matches[m]) > MaxTotal
                           \/ \E x \in R : x.sop = s /\ Settles(x)

Others(e) == DOMAIN pc' = Engines /\ \A f \in Engines \ {e} : pc'[f] = pc[f]

Answers(e) == pc'[e] \in Answer /\ pc'[e].msg = pc[e].msg

\* The delivery is at another stage, all else is the same.
Moves(e, to) ==
  /\ Carried(pc'[e]) /\ pc'[e].at = to /\ pc'[e].msg = pc[e].msg /\ pc'[e].batch = pc[e].batch
  /\ pc'[e].todo = pc[e].todo /\ pc'[e].held = pc[e].held /\ pc'[e].live = pc[e].live
  /\ Starting(pc'[e]) = Starting(pc[e])

LEMMA GotoEffect ==
  ASSUME TypeOK, NEW e \in Engines, NEW d, Goto(e, d)
  PROVE  Others(e) /\ pc'[e] = d
  BY DEF TypeOK, Goto, Others

LEMMA GoesEffect ==
  ASSUME TypeOK, NEW e \in Engines, pc[e].at \in {"single", "reserve", "claim"},
         NEW to \in {"reserve", "claim", "insert"}, Goto(e, [pc[e] EXCEPT !.at = to])
  PROVE  Others(e) /\ Moves(e, to)
<1>1. Carried(pc[e]) /\ pc[e] \in Delivery
  BY InHand DEF Working, Stage, Carried
<1> DEFINE n == [pc[e] EXCEPT !.at = to]
<1>2. Others(e) /\ pc'[e] = n
  BY GotoEffect
<1>3. Carried(n)
  BY <1>1, Goes
<1>4. /\ n.at = to /\ n.msg = pc[e].msg /\ n.batch = pc[e].batch
      /\ n.todo = pc[e].todo /\ n.held = pc[e].held /\ n.live = pc[e].live
  BY <1>1 DEF Delivery
<1> HIDE DEF n
<1>5. Starting(n) = Starting(pc[e])
  BY <1>4 DEF Starting
<1> QED BY <1>2, <1>3, <1>4, <1>5 DEF Moves

LEMMA ReplyEffect ==
  ASSUME TypeOK, NEW e \in Engines, Working(e), NEW R, R \subseteq Outcome,
         Goto(e, Reply(pc[e], R))
  PROVE  /\ Others(e) /\ Answers(e) /\ pc'[e].at = "reply"
         /\ pc'[e].results = pc[e].results \cup R
<1>1. pc[e] \in Delivery /\ pc[e].msg \in Messages /\ pc[e].results \subseteq Outcome
  BY InHand, DeliveryFields DEF Carried
<1>2. Others(e) /\ pc'[e] = Reply(pc[e], R)
  BY GotoEffect
<1> QED BY <1>1, <1>2, ReplyType DEF Answers

\* While a delivery is carried, nothing of it is deferred or started.
LEMMA Redelivers ==
  ASSUME NEW d, Carried(d), NEW R, \E x \in R : x.as = "deferred",
         \A x \in R : x.as # "started"
  PROVE  NeedsRedelivery(d.results \cup R)
<1>1. \A x \in d.results : x.as # "started"
  BY DEF Carried, Shape, Settles
<1> QED BY <1>1 DEF NeedsRedelivery

LEMMA ReceiveEffect ==
  ASSUME TypeOK, NEW e \in Engines, NEW m \in Messages, Receive(e, m)
  PROVE  /\ Others(e) /\ pc'[e] # Idle
         /\ \/ /\ pc'[e] \in Answer /\ pc'[e].at = "reply"
               /\ pc'[e].msg = m /\ Accounts(pc'[e].results, m)
            \/ /\ Carried(pc'[e]) /\ pc'[e].at \in {"single", "batch"} /\ pc'[e].msg = m
               /\ pc'[e].held = <<>> /\ pc'[e].live = <<>>
               /\ pc'[e].todo = Matches[m] \ Known(e, m)
<1> DEFINE batch == Cardinality(Matches[m]) > 1
           d == [at |-> IF batch THEN "batch" ELSE "single", msg |-> m, batch |-> batch,
                 todo |-> Matches[m] \ Known(e, m), held |-> <<>>, live |-> <<>>,
                 results |-> {Result(s, "coalesced") : s \in Known(e, m) \cap Matches[m]}]
<1>1. Goto(e, IF d.todo = {} THEN Reply(d, {}) ELSE d)
  BY DEF Receive
<1>2. Others(e) /\ pc'[e] = IF d.todo = {} THEN Reply(d, {}) ELSE d
  BY <1>1, GotoEffect
<1>3. Known(e, m) \subseteq Sops
  BY DEF Known
<1>4. d \in Delivery /\ (d.todo # {} => Carried(d))
  <2>1. batch \in BOOLEAN
    OBVIOUS
  <2> QED BY <1>3, <2>1, Arrives, Zenon
<1>5. /\ d.at = (IF batch THEN "batch" ELSE "single") /\ d.msg = m
      /\ d.todo = Matches[m] \ Known(e, m) /\ d.held = <<>> /\ d.live = <<>>
      /\ d.results = {Result(s, "coalesced") : s \in Known(e, m) \cap Matches[m]}
  OBVIOUS
<1> HIDE DEF d, batch
<1>6. CASE d.todo = {}
  <2>1. d.results \subseteq Outcome
    BY <1>4, DeliveryFields
  <2>2. /\ pc'[e] \in Answer /\ pc'[e].at = "reply" /\ pc'[e].msg = m
        /\ pc'[e].results = d.results
    BY <1>2, <1>5, <1>6, <2>1, ReplyType
  <2>3. \A s \in Matches[m] : \E x \in d.results : x.sop = s /\ Settles(x)
    <3>1. \A s \in Matches[m] : s \in Known(e, m) \cap Matches[m]
      BY <1>5, <1>6
    <3>2. \A s \in Sops : Result(s, "coalesced").sop = s /\ Result(s, "coalesced").as = "coalesced"
      BY ResultType
    <3>3. \A s \in Matches[m] : s \in Sops
      BY IngressAssumption
    <3> QED BY <1>5, <3>1, <3>2, <3>3 DEF Settles
  <2>4. pc'[e] # Idle
    BY <2>2 DEF Idle
  <2> QED BY <1>2, <2>2, <2>3, <2>4 DEF Accounts
<1>7. CASE d.todo # {}
  <2>1. pc'[e] = d /\ Carried(d) /\ d.at \in {"single", "batch"}
    BY <1>2, <1>4, <1>5, <1>7
  <2>2. pc'[e] # Idle
    BY <2>1 DEF Idle
  <2> QED BY <1>2, <1>5, <2>1, <2>2
<1> QED BY <1>6, <1>7

LEMMA FiniteMatches ==
  ASSUME NEW m \in Messages
  PROVE  IsFiniteSet(Matches[m])
<1>1. IsFiniteSet(Sops)
  <2>1. Order \in [1..Len(Order) -> Sops] /\ Len(Order) \in Nat
    BY IngressAssumption, LenProperties
  <2>2. \A t \in Sops : \E i \in 1..Len(Order) : Order[i] = t
    BY IngressAssumption, InSeq
  <2>3. Order \in Surjection(1..Len(Order), Sops)
    BY <2>1, <2>2 DEF Surjection
  <2>4. IsFiniteSet(1..Len(Order))
    BY <2>1, FS_Interval
  <2> QED BY <2>3, <2>4, FS_Surjection
<1> QED BY <1>1, IngressAssumption, FS_Subset

\* The one SOP of a delivery that is not fanned out.
LEMMA OneMatch ==
  ASSUME NEW m \in Messages, ~(Cardinality(Matches[m]) > 1), NEW s \in Matches[m]
  PROVE  Matches[m] = {s}
<1>1. IsFiniteSet(Matches[m])
  BY FiniteMatches
<1>2. Cardinality(Matches[m]) \in Nat
  BY <1>1, FS_CardinalityType
<1>3. Cardinality(Matches[m]) # 0
  BY <1>1, FS_EmptySet
<1>4. Cardinality(Matches[m]) = 1
  BY <1>2, <1>3
<1>5. \E x : Matches[m] = {x}
  BY <1>1, <1>4, FS_Singleton
<1> QED BY <1>5

LEMMA AdmitSingleEffect ==
  ASSUME TypeOK, NEW e \in Engines, AdmitSingle(e)
  PROVE  /\ Others(e) /\ Carried(pc[e]) /\ ~pc[e].batch
         /\ \/ /\ Moves(e, "reserve")
               /\ \A s \in pc[e].todo : Admission(s) = "admit"
            \/ Answers(e) /\ pc'[e].at = "reply" /\ Accounts(pc'[e].results, pc[e].msg)
<1>1. Carried(pc[e]) /\ pc[e].at = "single" /\ Working(e)
  BY InHand DEF AdmitSingle, Working, Stage
<1>2. pc[e].todo \subseteq Matches[pc[e].msg] /\ ~pc[e].batch /\ Matches[pc[e].msg] \subseteq Sops
      /\ pc[e].msg \in Messages /\ ~(Cardinality(Matches[pc[e].msg]) > 1)
  BY <1>1, DeliveryFields DEF Carried, Shape
<1>3. PICK s \in pc[e].todo :
        Goto(e, IF Admission(s) = "admit" THEN [pc[e] EXCEPT !.at = "reserve"]
                ELSE Reply(pc[e], {Result(s, Verdict(Admission(s)))}))
  BY DEF AdmitSingle
<1>4. s \in Sops /\ Matches[pc[e].msg] = {s}
  BY <1>2, OneMatch
<1>5. CASE Admission(s) = "admit"
  <2>1. Others(e) /\ Moves(e, "reserve")
    BY <1>1, <1>3, <1>5, GoesEffect
  <2> QED BY <1>1, <1>2, <1>4, <1>5, <2>1
<1>6. CASE Admission(s) # "admit"
  <2> DEFINE v == Verdict(Admission(s))
  <2>1. v \in {"deferred", "coalesced", "skipped"} /\ (v = "skipped" => Policy[s] = "Drop")
    BY <1>4, <1>6, VerdictRange
  <2>2. Goto(e, Reply(pc[e], {Result(s, v)}))
    BY <1>3, <1>6
  <2> HIDE DEF v
  <2>3. Result(s, v) \in Outcome /\ Result(s, v).sop = s /\ Result(s, v).as = v
    BY <1>4, <2>1, ResultType
  <2>4. /\ Others(e) /\ Answers(e) /\ pc'[e].at = "reply"
        /\ pc'[e].results = pc[e].results \cup {Result(s, v)}
    BY <1>1, <2>2, <2>3, ReplyEffect
  <2>5. CASE v = "deferred"
    <3>1. NeedsRedelivery(pc'[e].results)
      BY <1>1, <2>3, <2>4, <2>5, Redelivers
    <3> QED BY <1>1, <1>2, <2>4, <3>1 DEF Accounts
  <2>6. CASE v # "deferred"
    <3>1. Settles(Result(s, v))
      BY <2>1, <2>3, <2>6 DEF Settles
    <3> QED BY <1>1, <1>2, <1>4, <2>3, <2>4, <3>1 DEF Accounts
  <2> QED BY <2>5, <2>6
<1> QED BY <1>5, <1>6

LEMMA AdmitBatchEffect ==
  ASSUME TypeOK, NEW e \in Engines, AdmitBatch(e)
  PROVE  /\ Others(e) /\ Carried(pc[e])
         /\ \/ /\ Carried(pc'[e]) /\ pc'[e].at = "reserve" /\ pc'[e].msg = pc[e].msg
               /\ pc'[e].batch = pc[e].batch /\ pc[e].batch
               /\ pc'[e].held = <<>> /\ pc'[e].live = <<>> /\ pc'[e].todo \subseteq pc[e].todo
               /\ pc[e].held = <<>> /\ pc[e].live = <<>>
            \/ Answers(e) /\ pc'[e].at = "reply" /\ Accounts(pc'[e].results, pc[e].msg)
<1>1. Carried(pc[e]) /\ pc[e].at = "batch" /\ Working(e) /\ pc[e] \in Delivery
  BY InHand DEF AdmitBatch, Working, Stage, Carried
<1> DEFINE todo == pc[e].todo
           m == pc[e].msg
           terminal == {s \in todo : Admission(s) \in {"coalesce", "drop"}}
           settled == {Result(s, Verdict(Admission(s))) : s \in terminal}
           rest == todo \ terminal
           all(as) == {Result(s, as) : s \in rest}
           d == [pc[e] EXCEPT !.at = "reserve", !.todo = rest, !.results = @ \cup settled]
<1>2. Goto(e, IF \E s \in todo : Admission(s) = "defer" THEN Reply(d, all("deferred"))
              ELSE IF Cardinality(rest) > MaxTotal THEN Reply(d, all("skipped"))
              ELSE IF rest = {} THEN Reply(d, {})
              ELSE d)
  BY DEF AdmitBatch
<1>3. /\ todo \subseteq Sops /\ todo \subseteq Matches[m] /\ m \in Messages
      /\ pc[e].held = <<>> /\ pc[e].live = <<>> /\ pc[e].batch \in BOOLEAN
      /\ pc[e].results \subseteq Outcome
      /\ (pc[e].batch <=> Cardinality(Matches[m]) > 1) /\ Matches[m] \subseteq Sops
  BY <1>1, DeliveryFields DEF Carried, Shape
<1>4. \A s \in terminal : LET x == Result(s, Verdict(Admission(s))) IN
        x \in Outcome /\ x.sop = s /\ Settles(x)
  <2> SUFFICES ASSUME NEW s \in terminal
               PROVE  LET x == Result(s, Verdict(Admission(s))) IN
                        x \in Outcome /\ x.sop = s /\ Settles(x)
    OBVIOUS
  <2> DEFINE v == Verdict(Admission(s))
  <2>1. s \in Sops /\ Admission(s) \in {"coalesce", "drop"}
    BY <1>3
  <2>2. v \in {"coalesced", "skipped"} /\ (v = "skipped" => Policy[s] = "Drop")
    BY <2>1, VerdictRange
  <2> HIDE DEF v
  <2>3. Result(s, v) \in Outcome /\ Result(s, v).sop = s /\ Result(s, v).as = v
    BY <2>1, <2>2, ResultType
  <2> QED BY <2>2, <2>3 DEF v, Settles
<1>5. /\ settled \subseteq Outcome /\ \A x \in settled : Settles(x)
      /\ \A s \in terminal : \E x \in settled : x.sop = s
  BY <1>4
<1>6. /\ d.at = "reserve" /\ d.msg = m /\ d.batch = pc[e].batch /\ d.todo = rest
      /\ d.held = <<>> /\ d.live = <<>> /\ d.results = pc[e].results \cup settled
  BY <1>1, <1>3 DEF Delivery
<1>7. rest # {} => Carried(d)
  <2>1. terminal \subseteq todo /\ rest = todo \ terminal
    OBVIOUS
  <2> HIDE DEF terminal, rest, settled
  <2> QED BY <1>1, <1>5, <2>1, Sifted
<1>8. \A as \in {"deferred", "skipped"} :
        /\ all(as) \subseteq Outcome /\ \A x \in all(as) : x.as = as
        /\ \A s \in rest : \E x \in all(as) : x.sop = s
  <2> SUFFICES ASSUME NEW as \in {"deferred", "skipped"}
               PROVE  /\ all(as) \subseteq Outcome /\ \A x \in all(as) : x.as = as
                      /\ \A s \in rest : \E x \in all(as) : x.sop = s
    OBVIOUS
  <2>1. \A s \in rest : /\ Result(s, as) \in Outcome
                        /\ Result(s, as).sop = s /\ Result(s, as).as = as
    <3>1. \A s \in rest : s \in Sops
      BY <1>3
    <3> HIDE DEF rest
    <3>2. \A s \in Sops : /\ Result(s, as) \in Outcome
                          /\ Result(s, as).sop = s /\ Result(s, as).as = as
      <4>1. as \in {"started", "deferred", "coalesced", "skipped"}
        OBVIOUS
      <4> HIDE DEF all, settled, terminal, todo, m, d
      <4> QED BY <4>1, ResultType, Zenon
    <3> QED BY <3>1, <3>2
  <2> HIDE DEF rest
  <2> QED BY <2>1
<1>9. \A s \in Matches[m] \ todo : \E x \in pc[e].results : x.sop = s /\ Settles(x)
  <2>1. Starting(pc[e]) = todo
    BY <1>3, NothingTaken
  <2> QED BY <1>1, <2>1 DEF Carried, Shape
<1>10. \A s \in Matches[m] \ rest : \E x \in d.results : x.sop = s /\ Settles(x)
  BY <1>5, <1>6, <1>9
<1>11. d.results \subseteq Outcome /\ d.msg \in Messages
  BY <1>3, <1>5, <1>6
<1>12. CASE \E s \in todo : Admission(s) = "defer"
  <2>1. Goto(e, Reply(d, all("deferred")))
    BY <1>2, <1>12
  <2>2. Others(e) /\ pc'[e] = Reply(d, all("deferred"))
    BY <2>1, GotoEffect
  <2>3. /\ pc'[e] \in Answer /\ pc'[e].at = "reply" /\ pc'[e].msg = m
        /\ pc'[e].results = d.results \cup all("deferred")
    <3> HIDE DEF d, all
    <3> QED BY <1>6, <1>8, <1>11, <2>2, ReplyType
  <2>4. rest # {}
    BY <1>12
  <2>5. \E x \in all("deferred") : x.as = "deferred"
    BY <1>8, <2>4
  <2>6. NeedsRedelivery(d.results \cup all("deferred"))
    <3>1. Carried(d) /\ \A x \in all("deferred") : x.as # "started"
      BY <1>7, <1>8, <2>4
    <3> HIDE DEF d, all
    <3> QED BY <2>5, <3>1, Redelivers
  <2> QED BY <1>1, <2>2, <2>3, <2>6 DEF Answers, Accounts
<1>13. CASE ~(\E s \in todo : Admission(s) = "defer") /\ Cardinality(rest) > MaxTotal
  <2>1. Goto(e, Reply(d, all("skipped")))
    BY <1>2, <1>13
  <2>2. Others(e) /\ pc'[e] = Reply(d, all("skipped"))
    BY <2>1, GotoEffect
  <2>3. /\ pc'[e] \in Answer /\ pc'[e].at = "reply" /\ pc'[e].msg = m
    <3> HIDE DEF d, all
    <3> QED BY <1>6, <1>8, <1>11, <2>2, ReplyType
  <2>4. Matches[m] # {} => Cardinality(Matches[m]) > MaxTotal
    <3> SUFFICES ASSUME NEW t \in Matches[m] PROVE Cardinality(Matches[m]) > MaxTotal
      OBVIOUS
    <3>1. IsFiniteSet(Matches[m])
      BY <1>3, FiniteMatches
    <3>2. rest \subseteq Matches[m]
      BY <1>3
    <3>3. Cardinality(rest) <= Cardinality(Matches[m])
      BY <3>1, <3>2, FS_Subset
    <3>4. IsFiniteSet(rest) /\ Cardinality(rest) \in Nat /\ Cardinality(Matches[m]) \in Nat
      BY <3>1, <3>2, FS_Subset, FS_CardinalityType
    <3> HIDE DEF rest
    <3> QED BY <1>13, <3>3, <3>4, IngressAssumption
  <2> QED BY <1>1, <2>2, <2>3, <2>4 DEF Answers, Accounts
<1>14. CASE ~(\E s \in todo : Admission(s) = "defer") /\ ~(Cardinality(rest) > MaxTotal) /\ rest = {}
  <2>1. Goto(e, Reply(d, {}))
    BY <1>2, <1>14
  <2>2. Others(e) /\ pc'[e] = Reply(d, {})
    BY <2>1, GotoEffect
  <2>3. /\ pc'[e] \in Answer /\ pc'[e].at = "reply" /\ pc'[e].msg = m
        /\ pc'[e].results = d.results
    <3> HIDE DEF d
    <3> QED BY <1>6, <1>11, <2>2, ReplyType
  <2> QED BY <1>1, <1>10, <1>14, <2>2, <2>3 DEF Answers, Accounts
<1>15. CASE ~(\E s \in todo : Admission(s) = "defer") /\ ~(Cardinality(rest) > MaxTotal) /\ rest # {}
  <2>1. Goto(e, d)
    BY <1>2, <1>15
  <2>2. Others(e) /\ pc'[e] = d
    BY <2>1, GotoEffect
  <2>3. pc[e].batch
    BY <1>1 DEF Carried, Shape
  <2> QED BY <1>1, <1>3, <1>6, <1>7, <1>15, <2>2, <2>3
<1> QED BY <1>12, <1>13, <1>14, <1>15

LEMMA AbandonEffect ==
  ASSUME TypeOK, NEW e \in Engines, Carried(pc[e]), pc[e].at \in {"reserve", "claim", "activate"},
         Abandon(e)
  PROVE  /\ Others(e)
         /\ \/ ~pc[e].batch /\ Moves(e, "reclassify")
            \/ Answers(e) /\ pc'[e].at = "reply" /\ Accounts(pc'[e].results, pc[e].msg)
<1>1. Working(e) /\ pc[e] \in Delivery /\ pc[e].batch \in BOOLEAN
  BY DEF Working, Stage, Carried, Delivery
<1>2. CASE pc[e].batch
  <2> DEFINE R == {Result(s, "deferred") : s \in Starting(pc[e])}
  <2>1. Goto(e, Reply(pc[e], R))
    BY <1>2 DEF Abandon
  <2>2. \A s \in Starting(pc[e]) : Result(s, "deferred") \in Outcome /\ Result(s, "deferred").as = "deferred"
    BY <1>1, DeliveryFields, ResultType
  <2>3. Starting(pc[e]) # {}
    <3>1. CASE pc[e].at # "activate"
      BY <3>1 DEF Carried, Shape, Starting
    <3>2. CASE pc[e].at = "activate"
      <4>1. pc[e].held # <<>> /\ pc[e].held \in Seq(Run)
        BY <1>1, <3>2, DeliveryFields DEF Carried, Shape
      <4>2. ToSet(pc[e].held) # {}
        BY <4>1, SetOfSeq
      <4> QED BY <4>2 DEF Starting
    <3> QED BY <3>1, <3>2
  <2>4. /\ R \subseteq Outcome /\ \E x \in R : x.as = "deferred"
        /\ \A x \in R : x.as # "started"
    BY <2>2, <2>3
  <2> HIDE DEF R
  <2>5. /\ Others(e) /\ Answers(e) /\ pc'[e].at = "reply"
        /\ pc'[e].results = pc[e].results \cup R
    BY <1>1, <2>1, <2>4, ReplyEffect
  <2>6. NeedsRedelivery(pc'[e].results)
    BY <2>4, <2>5, Redelivers
  <2> QED BY <2>5, <2>6 DEF Accounts
<1>3. CASE ~pc[e].batch
  <2> DEFINE n == [pc[e] EXCEPT !.at = "reclassify"]
  <2>1. Goto(e, n)
    BY <1>3 DEF Abandon
  <2>2. Others(e) /\ pc'[e] = n
    BY <2>1, GotoEffect
  <2>3. Carried(n)
    BY <1>3, GoesBack
  <2>4. /\ n.at = "reclassify" /\ n.msg = pc[e].msg /\ n.batch = pc[e].batch
        /\ n.todo = pc[e].todo /\ n.held = pc[e].held /\ n.live = pc[e].live
    BY <1>1 DEF Delivery
  <2> HIDE DEF n
  <2>5. Starting(n) = Starting(pc[e])
    BY <2>4 DEF Starting
  <2> QED BY <1>3, <2>2, <2>3, <2>4, <2>5 DEF Moves
<1> QED BY <1>1, <1>2, <1>3

LEMMA ReserveEffect ==
  ASSUME TypeOK, NEW e \in Engines, Reserve(e)
  PROVE  /\ Others(e) /\ Carried(pc[e]) /\ pc[e].at = "reserve"
         /\ \/ /\ Moves(e, "claim") /\ claims' = claims
               /\ \E s \in Due(pc[e]) : Admission(s) = "admit"
            \/ /\ claims' = claims \ ToSet(pc[e].held)
               /\ Answers(e) /\ pc'[e].at = "reply" /\ Accounts(pc'[e].results, pc[e].msg)
            \/ /\ claims' = claims \ ToSet(pc[e].held) /\ ~pc[e].batch /\ Moves(e, "reclassify")
               /\ \E s \in pc[e].todo : Admission(s) # "admit" \/ FirstStep[s] = "none"
<1>1. Carried(pc[e]) /\ pc[e].at = "reserve" /\ pc[e] \in Delivery
  BY InHand DEF Reserve, Working, Stage, Carried
<1>2. PICK s \in Due(pc[e]) :
        IF Admission(s) = "admit" /\ FirstStep[s] # "none"
        THEN Goto(e, [pc[e] EXCEPT !.at = "claim"]) /\ UNCHANGED claims
        ELSE Abandon(e) /\ claims' = claims \ ToSet(pc[e].held)
  BY DEF Reserve
<1>3. CASE Admission(s) = "admit" /\ FirstStep[s] # "none"
  <2>1. Others(e) /\ Moves(e, "claim")
    BY <1>1, <1>2, <1>3, GoesEffect
  <2> QED BY <1>1, <1>2, <1>3, <2>1
<1>4. CASE ~(Admission(s) = "admit" /\ FirstStep[s] # "none")
  <2>1. Abandon(e) /\ claims' = claims \ ToSet(pc[e].held) /\ s \in pc[e].todo
    BY <1>2, <1>4 DEF Due
  <2> QED BY <1>1, <1>4, <2>1, AbandonEffect
<1> QED BY <1>3, <1>4

LEMMA ClaimEffect ==
  ASSUME TypeOK, NEW e \in Engines, Claim(e)
  PROVE  /\ Others(e) /\ Carried(pc[e]) /\ pc[e].at = "claim"
         /\ \/ Moves(e, "insert") /\ claims' = claims
            \/ /\ claims' = claims \ ToSet(pc[e].held)
               /\ Answers(e) /\ pc'[e].at = "reply" /\ Accounts(pc'[e].results, pc[e].msg)
            \/ /\ claims' = claims \ ToSet(pc[e].held) /\ ~pc[e].batch /\ Moves(e, "reclassify")
               /\ \E s \in pc[e].todo : ~HasSlot(s)
<1>1. Carried(pc[e]) /\ pc[e].at = "claim" /\ pc[e] \in Delivery
  BY InHand DEF Claim, Working, Stage, Carried
<1>2. PICK s \in Due(pc[e]) :
        IF HasSlot(s)
        THEN Goto(e, [pc[e] EXCEPT !.at = "insert"]) /\ UNCHANGED claims
        ELSE Abandon(e) /\ claims' = claims \ ToSet(pc[e].held)
  BY DEF Claim
<1>3. CASE HasSlot(s)
  <2>1. Others(e) /\ Moves(e, "insert")
    BY <1>1, <1>2, <1>3, GoesEffect
  <2> QED BY <1>1, <1>2, <1>3, <2>1
<1>4. CASE ~HasSlot(s)
  <2>1. Abandon(e) /\ claims' = claims \ ToSet(pc[e].held) /\ s \in pc[e].todo
    BY <1>2, <1>4 DEF Due
  <2> QED BY <1>1, <1>4, <2>1, AbandonEffect
<1> QED BY <1>3, <1>4

\* The claim that is inserted is that of a run nobody knows yet.
LEMMA InsertEffect ==
  ASSUME TypeOK, NEW e \in Engines, InsertClaim(e)
  PROVE  /\ Others(e) /\ Carried(pc[e]) /\ pc[e].at = "insert"
         /\ \E s \in Due(pc[e]) : \E r \in Run \ Used :
              /\ r.sop = s /\ r.msg = pc[e].msg
              /\ claims' = claims \cup {r}
              /\ Carried(pc'[e]) /\ pc'[e].at \in {"reserve", "activate"}
              /\ pc'[e].msg = pc[e].msg /\ pc'[e].batch = pc[e].batch
              /\ pc'[e].todo = pc[e].todo \ {s}
              /\ ToSet(pc'[e].held) = ToSet(pc[e].held) \cup {r}
              /\ pc[e].live = <<>> /\ pc'[e].live = <<>>
              /\ Starting(pc'[e]) = Starting(pc[e])
<1>1. Carried(pc[e]) /\ pc[e].at = "insert" /\ pc[e] \in Delivery
  BY InHand DEF InsertClaim, Working, Stage, Carried
<1>2. PICK s \in Due(pc[e]) : \E r \in NewRun(s, pc[e].msg) :
        claims' = claims \cup {r} /\ Goto(e, Taking(pc[e], s, r))
  BY DEF InsertClaim, Taking
<1>3. PICK r \in NewRun(s, pc[e].msg) :
        claims' = claims \cup {r} /\ Goto(e, Taking(pc[e], s, r))
  BY <1>2
<1>4. r \in Run \ Used /\ r.sop = s /\ r.msg = pc[e].msg
  BY DEF NewRun
<1>5. Others(e) /\ pc'[e] = Taking(pc[e], s, r)
  BY <1>3, GotoEffect
<1>6. /\ Carried(pc'[e]) /\ pc'[e].at \in {"reserve", "activate"}
      /\ pc'[e].msg = pc[e].msg /\ pc'[e].batch = pc[e].batch
      /\ pc'[e].todo = pc[e].todo \ {s}
      /\ ToSet(pc'[e].held) = ToSet(pc[e].held) \cup {r}
      /\ pc'[e].live = pc[e].live /\ pc'[e].live = <<>>
      /\ Starting(pc'[e]) = Starting(pc[e])
  <2> SUFFICES ASSUME NEW n, n = Taking(pc[e], s, r)
               PROVE  /\ Carried(n) /\ n.at \in {"reserve", "activate"}
                      /\ n.msg = pc[e].msg /\ n.batch = pc[e].batch
                      /\ n.todo = pc[e].todo \ {s}
                      /\ ToSet(n.held) = ToSet(pc[e].held) \cup {r}
                      /\ n.live = pc[e].live /\ n.live = <<>>
                      /\ Starting(n) = Starting(pc[e])
    BY <1>5
  <2> QED BY <1>1, <1>4, Takes
<1> QED BY <1>1, <1>3, <1>4, <1>5, <1>6

\* A run enters the memory of its engine, and the store if it takes it.
Enters(e, r) ==
  /\ DOMAIN mem' = Engines /\ \A f \in Engines \ {e} : mem'[f] = mem[f]
  /\ DOMAIN mem'[e] = DOMAIN mem[e] \cup {r}
  /\ \A q \in DOMAIN mem[e] \ {r} : mem'[e][q] = mem[e][q]
  /\ mem'[e][r] = IF Gate(r.sop) /\ ~PoolFull(r.sop) THEN "Parked" ELSE "Running"
  /\ UNCHANGED crashed
  /\ \/ /\ DOMAIN rows' = DOMAIN rows \cup {r} /\ rows'[r] = mem'[e][r]
        /\ \A q \in DOMAIN rows \ {r} : rows'[q] = rows[q]
        /\ claims' = IF mem'[e][r] = "Parked" THEN claims \ {r} ELSE claims
        /\ UNCHANGED <<unsaved, failed, faults>>
     \/ /\ failed' = failed \cup {r} /\ faults < MaxFaults /\ faults' = faults + 1
        /\ unsaved' \in {unsaved, unsaved \cup {r}} /\ UNCHANGED <<rows, claims>>

LEMMA EnterEffect ==
  ASSUME TypeOK, NEW e \in Engines, NEW r, Enter(e, r)
  PROVE  Enters(e, r)
<1> DEFINE parks == FirstStep[r.sop] = "gate" /\ ~PoolFull(r.sop)
           status == IF parks THEN "Parked" ELSE "Running"
<1>1. mem' = [mem EXCEPT ![e] = With(@, r, status)]
  BY DEF Enter
<1>2. \/ /\ rows' = With(rows, r, status)
         /\ claims' = IF parks THEN claims \ {r} ELSE claims
         /\ UNCHANGED <<unsaved, trouble>>
      \/ /\ Fails({r})
         /\ unsaved' = IF parks THEN unsaved \cup {r} ELSE unsaved
         /\ UNCHANGED <<rows, claims>>
  BY DEF Enter
<1>3. DOMAIN mem' = Engines /\ mem'[e] = With(mem[e], r, status) /\ \A f \in Engines \ {e} : mem'[f] = mem[f]
  BY <1>1 DEF TypeOK
<1>4. /\ DOMAIN mem'[e] = DOMAIN mem[e] \cup {r} /\ mem'[e][r] = status
      /\ \A q \in DOMAIN mem[e] \ {r} : mem'[e][q] = mem[e][q]
  <2> HIDE DEF status
  <2> QED BY <1>3 DEF With
<1>5. status = "Parked" <=> parks
  OBVIOUS
<1>6. status = IF Gate(r.sop) /\ ~PoolFull(r.sop) THEN "Parked" ELSE "Running"
  BY DEF Gate
<1> HIDE DEF parks, status
<1>7. CASE /\ rows' = With(rows, r, status)
           /\ claims' = IF parks THEN claims \ {r} ELSE claims
           /\ UNCHANGED <<unsaved, trouble>>
  <2>1. /\ DOMAIN rows' = DOMAIN rows \cup {r} /\ rows'[r] = status
        /\ \A q \in DOMAIN rows \ {r} : rows'[q] = rows[q]
    BY <1>7 DEF With
  <2>2. UNCHANGED <<unsaved, failed, faults, crashed>>
    BY <1>7 DEF trouble
  <2>3. claims' = IF mem'[e][r] = "Parked" THEN claims \ {r} ELSE claims
    BY <1>4, <1>5, <1>7
  <2> QED BY <1>3, <1>4, <1>6, <2>1, <2>2, <2>3 DEF Enters
<1>8. CASE /\ Fails({r})
           /\ unsaved' = IF parks THEN unsaved \cup {r} ELSE unsaved
           /\ UNCHANGED <<rows, claims>>
  BY <1>3, <1>4, <1>6, <1>8 DEF Enters, Fails, Fault
<1> QED BY <1>2, <1>7, <1>8

LEMMA ActivateEffect ==
  ASSUME TypeOK, NEW e \in Engines, Activate(e)
  PROVE  /\ Others(e) /\ Carried(pc[e]) /\ pc[e].at = "activate"
         /\ \E r \in ToSet(pc[e].held) :
              /\ r \in Run /\ Enters(e, r)
              /\ \/ /\ Carried(pc'[e]) /\ pc'[e].at = "activate"
                    /\ pc'[e].msg = pc[e].msg /\ pc'[e].batch = pc[e].batch
                    /\ ToSet(pc[e].held) = {r} \cup ToSet(pc'[e].held)
                    /\ ToSet(pc'[e].live) = ToSet(pc[e].live) \cup {r}
                    /\ Starting(pc'[e]) = Starting(pc[e])
                    /\ Taken(pc'[e]) = Taken(pc[e])
                    /\ UNCHANGED <<window, started>>
                 \/ /\ Answers(e) /\ pc'[e].at = "reply"
                    /\ ToSet(pc[e].held) = {r}
                    /\ ToSet(Taken(pc[e])) = ToSet(pc[e].live) \cup {r}
                    /\ pc'[e].results = pc[e].results
                                        \cup {Result(x.sop, "started") : x \in ToSet(Taken(pc[e]))}
                    /\ window' = [window EXCEPT ![e] = Remembered(@, Taken(pc[e]))]
                    /\ started' = started \cup ToSet(Taken(pc[e]))
<1>1. Carried(pc[e]) /\ pc[e].at = "activate" /\ Working(e) /\ pc[e] \in Delivery
  BY InHand DEF Activate, Working, Stage, Carried
<1> DEFINE d == pc[e]
           r == Head(d.held)
           live == Append(d.live, r)
<1>2. /\ r \in Run /\ r \in ToSet(d.held) /\ live \in Seq(Run)
      /\ ToSet(live) = ToSet(d.live) \cup {r}
      /\ ToSet(d.held) = {r} \cup ToSet(Tail(d.held))
  BY <1>1, Activates
<1>3. Enters(e, r)
  BY EnterEffect DEF Activate
<1>4. CASE Len(d.held) > 1
  <2> DEFINE n == [d EXCEPT !.held = Tail(@), !.live = live]
  <2>1. Goto(e, n) /\ UNCHANGED <<window, started>>
    BY <1>4 DEF Activate
  <2>2. Others(e) /\ pc'[e] = n
    BY <2>1, GotoEffect
  <2>3. Carried(n)
    BY <1>1, <1>4, Activates
  <2>4. /\ n.at = d.at /\ n.msg = d.msg /\ n.batch = d.batch /\ n.todo = d.todo
        /\ n.held = Tail(d.held) /\ n.live = live
    BY <1>1 DEF Delivery
  <2> HIDE DEF n
  <2>5. Taken(n) = Taken(d)
    BY <1>1, <1>4, <2>4, Activates
  <2>6. Starting(n) = Starting(d)
    BY <1>1, <2>3, <2>4, <2>5, DeliveryFields DEF Carried
  <2> QED BY <1>1, <1>2, <1>3, <2>1, <2>2, <2>3, <2>4, <2>5, <2>6
<1>5. CASE ~(Len(d.held) > 1)
  <2>1. /\ ToSet(d.held) = {r} /\ Taken(d) = live
    BY <1>1, <1>5, Activates
  <2> DEFINE R == {Result(x.sop, "started") : x \in ToSet(live)}
  <2>2. /\ Goto(e, Reply(d, R))
        /\ window' = [window EXCEPT ![e] = Remembered(@, live)]
        /\ started' = started \cup ToSet(live)
    BY <1>5 DEF Activate
  <2>3. R \subseteq Outcome
    <3>1. ToSet(live) \subseteq Run
      BY <1>2, SetOfSeq
    <3>2. \A x \in ToSet(live) : x.sop \in Sops
      BY <3>1 DEF Run
    <3> HIDE DEF live
    <3> QED BY <3>2, ResultType
  <2>4. /\ Others(e) /\ Answers(e) /\ pc'[e].at = "reply"
        /\ pc'[e].results = d.results \cup R
    <3> HIDE DEF R
    <3> QED BY <1>1, <2>2, <2>3, ReplyEffect
  <2> QED BY <1>1, <1>2, <1>3, <2>1, <2>2, <2>4
<1> QED BY <1>4, <1>5

\* Runs are rolled back: they leave the memory, the parked ones are ended in the store.
RollsBack(e, gone, h, taken) ==
  /\ DOMAIN mem' = Engines /\ \A f \in Engines \ {e} : mem'[f] = mem[f]
  /\ DOMAIN mem'[e] = DOMAIN mem[e] \ gone
  /\ \A q \in DOMAIN mem[e] \ gone : mem'[e][q] = mem[e][q]
  /\ unsaved' = unsaved \ gone /\ rolled' = rolled \cup gone
  /\ \E parked, lost \in SUBSET gone :
       /\ parked = {r \in gone : mem[e][r] = "Parked"}
       /\ DOMAIN rows' = DOMAIN rows \cup (parked \ lost)
       /\ \A q \in DOMAIN rows' : rows'[q] = IF q \in parked \ lost THEN "Ended" ELSE rows[q]
       /\ failed' = failed \cup lost \cup {h}
       /\ claims' = claims \ (taken \cup (gone \ lost))

LEMMA FailActivationEffect ==
  ASSUME TypeOK, NEW e \in Engines, FailActivation(e)
  PROVE  /\ Others(e) /\ Carried(pc[e]) /\ pc[e].at = "activate"
         /\ \E h \in ToSet(pc[e].held) :
              /\ h \in Run /\ Gate(h.sop)
              /\ h = Head(pc[e].held)
              /\ RollsBack(e, ToSet(pc[e].live), h, ToSet(pc[e].held))
         /\ \/ ~pc[e].batch /\ Moves(e, "reclassify")
            \/ Answers(e) /\ pc'[e].at = "reply" /\ Accounts(pc'[e].results, pc[e].msg)
<1>1. Carried(pc[e]) /\ pc[e].at = "activate" /\ pc[e] \in Delivery
  BY InHand DEF FailActivation, Working, Stage, Carried
<1> DEFINE h == Head(pc[e].held)
           gone == ToSet(pc[e].live)
<1>2. h \in Run /\ h \in ToSet(pc[e].held)
  BY <1>1, Activates
<1>3. Gate(h.sop)
  BY DEF FailActivation, Gate
<1>4. RollBack(e, gone) /\ Abandon(e)
  BY DEF FailActivation
<1>5. RollsBack(e, gone, h, ToSet(pc[e].held))
  <2> DEFINE parked == {r \in gone : mem[e][r] = "Parked"}
  <2>1. /\ mem' = [mem EXCEPT ![e] = Without(@, gone)]
        /\ unsaved' = unsaved \ gone /\ rolled' = rolled \cup gone
    BY <1>4 DEF RollBack
  <2>2. PICK lost \in {{}, parked} :
          /\ rows' = [r \in DOMAIN rows \cup (parked \ lost) |->
                        IF r \in parked \ lost THEN "Ended" ELSE rows[r]]
          /\ failed' = failed \cup lost \cup {h}
          /\ claims' = claims \ (ToSet(pc[e].held) \cup (gone \ lost))
    BY <1>4 DEF RollBack
  <2>3. /\ DOMAIN mem' = Engines /\ \A f \in Engines \ {e} : mem'[f] = mem[f]
        /\ mem'[e] = Without(mem[e], gone)
    BY <2>1 DEF TypeOK
  <2>4. /\ DOMAIN mem'[e] = DOMAIN mem[e] \ gone
        /\ \A q \in DOMAIN mem[e] \ gone : mem'[e][q] = mem[e][q]
    <3> HIDE DEF gone
    <3> QED BY <2>3 DEF Without
  <2>5. parked \subseteq gone /\ lost \subseteq gone
    BY <2>2
  <2>6. parked = {r \in gone : mem[e][r] = "Parked"}
    OBVIOUS
  <2> HIDE DEF parked, gone, h
  <2>7. /\ DOMAIN rows' = DOMAIN rows \cup (parked \ lost)
        /\ \A q \in DOMAIN rows' : rows'[q] = IF q \in parked \ lost THEN "Ended" ELSE rows[q]
    BY <2>2
  <2>8. parked \in SUBSET gone /\ lost \in SUBSET gone
    BY <2>5
  <2> QED BY <2>1, <2>2, <2>3, <2>4, <2>6, <2>7, <2>8 DEF RollsBack
<1>6. Others(e) /\ (\/ ~pc[e].batch /\ Moves(e, "reclassify")
                    \/ Answers(e) /\ pc'[e].at = "reply" /\ Accounts(pc'[e].results, pc[e].msg))
  BY <1>1, <1>4, AbandonEffect
<1> QED BY <1>1, <1>2, <1>3, <1>5, <1>6

LEMMA ReclassifyEffect ==
  ASSUME TypeOK, NEW e \in Engines, Reclassify(e)
  PROVE  /\ Others(e) /\ Carried(pc[e]) /\ pc[e].at = "reclassify"
         /\ Answers(e) /\ pc'[e].at = "reply"
         /\ Accounts(pc'[e].results, pc[e].msg) \/ ~pc[e].batch
<1>1. Carried(pc[e]) /\ pc[e].at = "reclassify" /\ Working(e) /\ pc[e] \in Delivery
  BY InHand DEF Reclassify, Working, Stage, Carried
<1>2. PICK s \in Starting(pc[e]) :
        Goto(e, Reply(pc[e], {Result(s, IF Admission(s) = "admit" THEN "skipped"
                                        ELSE Verdict(Admission(s)))}))
  BY DEF Reclassify
<1> DEFINE as == IF Admission(s) = "admit" THEN "skipped" ELSE Verdict(Admission(s))
<1>3. s \in Sops
  BY <1>1, DeliveryFields
<1>4. as \in {"started", "deferred", "coalesced", "skipped"}
  BY <1>3, VerdictRange
<1>5. Goto(e, Reply(pc[e], {Result(s, as)}))
  BY <1>2
<1> HIDE DEF as
<1>6. {Result(s, as)} \subseteq Outcome
  BY <1>3, <1>4, ResultType
<1>7. Others(e) /\ Answers(e) /\ pc'[e].at = "reply"
  <2> DEFINE R == {Result(s, as)}
  <2>1. R \subseteq Outcome /\ Goto(e, Reply(pc[e], R))
    BY <1>5, <1>6
  <2> HIDE DEF R
  <2> QED BY <1>1, <2>1, ReplyEffect
<1>8. ~pc[e].batch
  BY <1>1 DEF Carried, Shape
<1> QED BY <1>1, <1>7, <1>8

-----------------------------------------------------------------------------
(* Types.                                                                     *)

LEMMA TypeInit == Init => TypeOK
<1> SUFFICES ASSUME Init PROVE TypeOK
  OBVIOUS
<1>1. <<>> \in Seq(Run) /\ DOMAIN <<>> = {}
  OBVIOUS
<1>2. IsFiniteSet({})
  BY FS_EmptySet
<1>3. 0 \in 0..MaxFaults
  BY IngressAssumption
<1>4. Table(<<>>, {"Running", "Parked"}) /\ Table(<<>>, {"Running", "Parked", "Ended"})
  BY <1>1 DEF Table
<1>5. broker \in [Messages -> [at : {"queue", "acked"} \cup Engines, again : BOOLEAN]]
  BY DEF Init
<1>6. outcome \in [Messages -> SUBSET Outcome]
  BY DEF Init
<1> QED BY <1>1, <1>2, <1>3, <1>4, <1>5, <1>6 DEF TypeOK, Init

LEMMA PcTypes ==
  ASSUME TypeOK, NEW e \in Engines, Others(e),
         pc'[e] = Idle \/ pc'[e] \in Answer \/ Carried(pc'[e])
  PROVE  DOMAIN pc' = Engines /\ \A f \in Engines : pc'[f] = Idle \/ pc'[f] \in Answer \/ Carried(pc'[f])
  BY DEF TypeOK, Others

\* What the steps that only move a delivery leave as it is.
Still ==
  UNCHANGED <<mem, window, rows, unsaved, failed, started, rolled, outcome, faults, crashed>>

LEMMA StillTypes ==
  ASSUME TypeOK, Still, claims' \subseteq Run,
         broker' \in [Messages -> [at : {"queue", "acked"} \cup Engines, again : BOOLEAN]],
         DOMAIN pc' = Engines,
         \A f \in Engines : pc'[f] = Idle \/ pc'[f] \in Answer \/ Carried(pc'[f])
  PROVE  TypeOK'
  BY DEF TypeOK, Still

LEMMA BrokerTypes ==
  ASSUME TypeOK, NEW m \in Messages, NEW x,
         broker' = [broker EXCEPT ![m] = x],
         x \in [at : {"queue", "acked"} \cup Engines, again : BOOLEAN]
  PROVE  broker' \in [Messages -> [at : {"queue", "acked"} \cup Engines, again : BOOLEAN]]
  BY DEF TypeOK

LEMMA EnterTypes ==
  ASSUME TypeOK, NEW e \in Engines, NEW r \in Run, Enters(e, r)
  PROVE  /\ DOMAIN mem' = Engines /\ \A f \in Engines : Table(mem'[f], {"Running", "Parked"})
         /\ Table(rows', {"Running", "Parked", "Ended"})
         /\ unsaved' \subseteq Run /\ claims' \subseteq Run /\ failed' \subseteq Run
         /\ faults' \in 0..MaxFaults /\ crashed' \in BOOLEAN
<1>1. mem'[e][r] \in {"Running", "Parked"}
  BY DEF Enters
<1>2. DOMAIN mem' = Engines /\ \A f \in Engines : Table(mem'[f], {"Running", "Parked"})
  <2>1. /\ DOMAIN mem' = Engines /\ \A f \in Engines \ {e} : mem'[f] = mem[f]
        /\ DOMAIN mem'[e] = DOMAIN mem[e] \cup {r}
        /\ \A q \in DOMAIN mem[e] \ {r} : mem'[e][q] = mem[e][q]
    BY DEF Enters
  <2>2. \A f \in Engines : Table(mem[f], {"Running", "Parked"})
    BY DEF TypeOK
  <2>3. Table(mem'[e], {"Running", "Parked"})
    BY <1>1, <2>1, <2>2 DEF Table
  <2> QED BY <2>1, <2>2, <2>3
<1>3. Table(rows', {"Running", "Parked", "Ended"})
  BY <1>1 DEF TypeOK, Enters, Table
<1>4. /\ unsaved' \subseteq Run /\ claims' \subseteq Run /\ failed' \subseteq Run
  BY DEF TypeOK, Enters
<1>5. faults' \in 0..MaxFaults /\ crashed' \in BOOLEAN
  BY IngressAssumption DEF TypeOK, Enters
<1> QED BY <1>2, <1>3, <1>4, <1>5

LEMMA FiniteSeq ==
  ASSUME NEW S, NEW w \in Seq(S)
  PROVE  IsFiniteSet(ToSet(w))
<1>1. w \in [1..Len(w) -> S] /\ Len(w) \in Nat
  BY LenProperties
<1>2. \A x \in ToSet(w) : \E i \in 1..Len(w) : w[i] = x
  BY InSeq
<1>3. w \in [1..Len(w) -> ToSet(w)]
  BY <1>1, LenProperties DEF ToSet
<1>4. w \in Surjection(1..Len(w), ToSet(w))
  BY <1>2, <1>3 DEF Surjection
<1>5. IsFiniteSet(1..Len(w))
  BY <1>1, FS_Interval
<1> QED BY <1>4, <1>5, FS_Surjection

LEMMA RememberedType ==
  ASSUME NEW w \in Seq(Run), NEW v \in Seq(Run)
  PROVE  /\ Remembered(w, v) \in Seq(Run)
         /\ Len(w) + Len(v) <= WindowCap =>
              /\ ToSet(Remembered(w, v)) = ToSet(w) \cup ToSet(v)
              /\ Len(Remembered(w, v)) = Len(w) + Len(v)
<1>1. /\ w \o v \in Seq(Run) /\ Len(w \o v) = Len(w) + Len(v)
      /\ Len(w) \in Nat /\ Len(v) \in Nat
      /\ ToSet(w \o v) = ToSet(w) \cup ToSet(v)
  BY ConcatProperties, LenProperties, SetOfConcat
<1> DEFINE all == w \o v
<1>2. all \in Seq(Run) /\ Len(all) \in Nat
  BY <1>1
<1> HIDE DEF all
<1>3. Remembered(w, v) = IF Len(all) <= WindowCap THEN all
                         ELSE SubSeq(all, Len(all) - WindowCap + 1, Len(all))
  BY DEF Remembered, all
<1>4. ~(Len(all) <= WindowCap) => SubSeq(all, Len(all) - WindowCap + 1, Len(all)) \in Seq(Run)
  <2> DEFINE a == Len(all) - WindowCap + 1
             b == Len(all)
  <2> SUFFICES ASSUME ~(Len(all) <= WindowCap) PROVE SubSeq(all, a, b) \in Seq(Run)
    OBVIOUS
  <2>1. a \in Int /\ b \in Int
    BY <1>2, IngressAssumption
  <2>2. \A i \in a..b : i \in 1..Len(all)
    BY <1>2, IngressAssumption
  <2>3. \A i \in a..b : all[i] \in Run
    BY <1>2, <2>2, ElementOfSeq
  <2> HIDE DEF a, b
  <2> QED BY <2>1, <2>3, SubSeqProperties
<1>5. Len(w) + Len(v) <= WindowCap => Len(all) <= WindowCap
  BY <1>1 DEF all
<1>6. Remembered(w, v) \in Seq(Run)
  BY <1>2, <1>3, <1>4
<1>7. Len(w) + Len(v) <= WindowCap =>
        /\ ToSet(Remembered(w, v)) = ToSet(w) \cup ToSet(v)
        /\ Len(Remembered(w, v)) = Len(w) + Len(v)
  <2> SUFFICES ASSUME Len(w) + Len(v) <= WindowCap
               PROVE  /\ ToSet(Remembered(w, v)) = ToSet(w) \cup ToSet(v)
                      /\ Len(Remembered(w, v)) = Len(w) + Len(v)
    OBVIOUS
  <2>1. Remembered(w, v) = w \o v
    BY <1>3, <1>5 DEF all
  <2> QED BY <1>1, <2>1
<1> QED BY <1>6, <1>7

LEMMA DispatchTypes ==
  ASSUME TypeOK, NEW e \in Engines, Dispatch(e)
  PROVE  TypeOK'
<1>1. ASSUME NEW m \in Messages, Receive(e, m) PROVE TypeOK'
  <2>1. Others(e) /\ (pc'[e] \in Answer \/ Carried(pc'[e]))
    BY <1>1, ReceiveEffect
  <2>2. Still /\ claims' = claims /\ broker' = [broker EXCEPT ![m].at = e]
    BY <1>1 DEF Receive, Still, engine, store, history, trouble
  <2>3. broker' \in [Messages -> [at : {"queue", "acked"} \cup Engines, again : BOOLEAN]]
    BY <2>2 DEF TypeOK
  <2> QED BY <2>1, <2>2, <2>3, PcTypes, StillTypes DEF TypeOK
<1>2. CASE AdmitSingle(e) \/ AdmitBatch(e) \/ Reclassify(e)
  <2>1. Others(e) /\ (pc'[e] \in Answer \/ Carried(pc'[e]))
    BY <1>2, AdmitSingleEffect, AdmitBatchEffect, ReclassifyEffect DEF Moves, Answers
  <2>2. Still /\ UNCHANGED <<claims, broker>>
    BY <1>2 DEF AdmitSingle, AdmitBatch, Reclassify, Still, engine, store, history, trouble
  <2> QED BY <2>1, <2>2, PcTypes, StillTypes DEF TypeOK
<1>3. CASE Reserve(e) \/ Claim(e)
  <2>1. /\ Others(e) /\ (pc'[e] \in Answer \/ Carried(pc'[e]))
        /\ claims' \subseteq claims
    BY <1>3, ReserveEffect, ClaimEffect DEF Moves, Answers
  <2>2. Still /\ UNCHANGED broker
    BY <1>3 DEF Reserve, Claim, Still, engine, history, trouble
  <2> QED BY <2>1, <2>2, PcTypes, StillTypes DEF TypeOK
<1>4. CASE InsertClaim(e)
  <2>1. /\ Others(e) /\ Carried(pc'[e])
        /\ \E r \in Run : claims' = claims \cup {r}
    BY <1>4, InsertEffect
  <2>2. Still /\ UNCHANGED broker
    BY <1>4 DEF InsertClaim, Still, engine, history, trouble
  <2> QED BY <2>1, <2>2, PcTypes, StillTypes DEF TypeOK
<1>5. CASE Activate(e)
  <2>1. Others(e) /\ (pc'[e] \in Answer \/ Carried(pc'[e]))
    BY <1>5, ActivateEffect DEF Answers
  <2>2. PICK r \in Run : Enters(e, r)
    BY <1>5, ActivateEffect
  <2>3. Taken(pc[e]) \in Seq(Run) /\ ToSet(Taken(pc[e])) \subseteq Run
    BY <1>5, ActivateEffect, DeliveryFields, SetOfSeq DEF Carried
  <2>4. /\ DOMAIN window' = Engines /\ \A f \in Engines : window'[f] \in Seq(Run)
        /\ started' \subseteq Run /\ IsFiniteSet(started')
    <3>1. CASE UNCHANGED <<window, started>>
      BY <3>1 DEF TypeOK
    <3>2. CASE /\ window' = [window EXCEPT ![e] = Remembered(@, Taken(pc[e]))]
               /\ started' = started \cup ToSet(Taken(pc[e]))
      <4>1. Remembered(window[e], Taken(pc[e])) \in Seq(Run)
        BY <2>3, RememberedType DEF TypeOK
      <4>2. IsFiniteSet(ToSet(Taken(pc[e])))
        BY <2>3, FiniteSeq
      <4>3. IsFiniteSet(started')
        BY <3>2, <4>2, FS_Union DEF TypeOK
      <4> QED BY <2>3, <3>2, <4>1, <4>3 DEF TypeOK
    <3> QED BY <1>5, <3>1, <3>2, ActivateEffect
  <2>5. UNCHANGED <<broker, rolled, outcome>>
    BY <1>5 DEF Activate
  <2> QED BY <2>1, <2>2, <2>4, <2>5, PcTypes, EnterTypes DEF TypeOK
<1>6. CASE FailActivation(e)
  <2>1. Others(e) /\ (pc'[e] \in Answer \/ Carried(pc'[e]))
    BY <1>6, FailActivationEffect DEF Moves, Answers
  <2>2. PICK h \in Run : RollsBack(e, ToSet(pc[e].live), h, ToSet(pc[e].held))
    BY <1>6, FailActivationEffect
  <2>3. ToSet(pc[e].live) \subseteq Run
    BY <1>6, FailActivationEffect, DeliveryFields, SetOfSeq DEF Carried
  <2>4. UNCHANGED <<broker, window, started, outcome, crashed>> /\ faults' \in 0..MaxFaults
    BY <1>6, IngressAssumption DEF FailActivation, Fault, TypeOK
  <2>5. DOMAIN mem' = Engines /\ \A f \in Engines : Table(mem'[f], {"Running", "Parked"})
    <3>1. /\ DOMAIN mem' = Engines /\ \A f \in Engines \ {e} : mem'[f] = mem[f]
          /\ DOMAIN mem'[e] \subseteq DOMAIN mem[e]
          /\ \A q \in DOMAIN mem'[e] : mem'[e][q] = mem[e][q]
      BY <2>2 DEF RollsBack
    <3>2. \A f \in Engines : Table(mem[f], {"Running", "Parked"})
      BY DEF TypeOK
    <3>3. Table(mem'[e], {"Running", "Parked"})
      BY <3>1, <3>2 DEF Table
    <3> QED BY <3>1, <3>2, <3>3
  <2>6. /\ Table(rows', {"Running", "Parked", "Ended"})
        /\ failed' \subseteq Run /\ claims' \subseteq Run
    <3>1. PICK parked, lost \in SUBSET ToSet(pc[e].live) :
             /\ DOMAIN rows' = DOMAIN rows \cup (parked \ lost)
             /\ \A q \in DOMAIN rows' : rows'[q] = IF q \in parked \ lost THEN "Ended" ELSE rows[q]
             /\ failed' = failed \cup lost \cup {h}
             /\ claims' \subseteq claims
      BY <2>2 DEF RollsBack
    <3>2. Table(rows, {"Running", "Parked", "Ended"}) /\ failed \subseteq Run /\ claims \subseteq Run
      BY DEF TypeOK
    <3> QED BY <2>3, <3>1, <3>2 DEF Table
  <2>7. unsaved' \subseteq Run /\ rolled' \subseteq Run
    BY <2>2, <2>3 DEF RollsBack, TypeOK
  <2> QED BY <2>1, <2>4, <2>5, <2>6, <2>7, PcTypes DEF TypeOK
<1>7. CASE Acknowledge(e)
  <2>1. Others(e) /\ pc'[e] = Idle
    BY <1>7, GotoEffect DEF Acknowledge
  <2>2. pc[e] \in Answer
    BY <1>7, InHand DEF Acknowledge
  <2>3. pc[e].msg \in Messages /\ pc[e].results \subseteq Outcome
    BY <2>2 DEF Answer
  <2>4. broker' \in [Messages -> [at : {"queue", "acked"} \cup Engines, again : BOOLEAN]]
    <3>1. CASE broker' = [broker EXCEPT ![pc[e].msg] = [at |-> "queue", again |-> TRUE]]
      BY <2>3, <3>1, BrokerTypes
    <3>2. CASE broker' = [broker EXCEPT ![pc[e].msg].at = "acked"]
      BY <2>3, <3>2 DEF TypeOK
    <3> QED BY <1>7, <3>1, <3>2 DEF Acknowledge
  <2>5. outcome' \in [Messages -> SUBSET Outcome]
    BY <1>7, <2>3 DEF Acknowledge, TypeOK
  <2>6. UNCHANGED <<mem, unsaved, window, rows, claims, started, rolled, failed, faults, crashed>>
    BY <1>7 DEF Acknowledge, engine, store, trouble
  <2> QED BY <2>1, <2>4, <2>5, <2>6, PcTypes DEF TypeOK
<1> QED BY <1>1, <1>2, <1>3, <1>4, <1>5, <1>6, <1>7 DEF Dispatch

LEMMA CrashEffect ==
  ASSUME TypeOK, NEW e \in Engines, Crash(e)
  PROVE  /\ Others(e) /\ pc'[e] = Idle /\ crashed' = TRUE
         /\ faults' \in 0..MaxFaults /\ UNCHANGED <<failed, rows, started, rolled, outcome>>
         /\ \A m \in Messages : broker'[m] = IF broker[m].at = e THEN [at |-> "queue", again |-> TRUE]
                                             ELSE broker[m]
         /\ DOMAIN mem' = Engines /\ \A f \in Engines \ {e} : mem'[f] = mem[f]
         /\ DOMAIN mem'[e] = Active /\ \A r \in Active : mem'[e][r] = rows[r]
         /\ unsaved' \subseteq unsaved
         /\ DOMAIN window' = Engines /\ window'[e] = <<>> /\ \A f \in Engines \ {e} : window'[f] = window[f]
         /\ claims' \subseteq claims \cup Active
         /\ \A r \in claims : r \in DOMAIN rows \/ r \in claims'
<1>1. Others(e) /\ pc'[e] = Idle
  BY GotoEffect DEF Crash
<1>2. mem' = [mem EXCEPT ![e] = [r \in Active |-> rows[r]]] /\ window' = [window EXCEPT ![e] = <<>>]
  BY DEF Crash
<1>3. /\ DOMAIN mem' = Engines /\ \A f \in Engines \ {e} : mem'[f] = mem[f]
      /\ mem'[e] = [r \in Active |-> rows[r]]
  BY <1>2 DEF TypeOK
<1>4. DOMAIN mem'[e] = Active /\ \A r \in Active : mem'[e][r] = rows[r]
  BY <1>3
<1>5. DOMAIN window' = Engines /\ window'[e] = <<>> /\ \A f \in Engines \ {e} : window'[f] = window[f]
  BY <1>2 DEF TypeOK
<1>6. faults' \in 0..MaxFaults /\ crashed' = TRUE
  BY IngressAssumption DEF Crash, Fault, TypeOK
<1>7. \A m \in Messages : broker'[m] = IF broker[m].at = e THEN [at |-> "queue", again |-> TRUE]
                                       ELSE broker[m]
  BY DEF Crash
<1>8. /\ claims' \subseteq claims \cup Active
      /\ \A r \in claims : r \in DOMAIN rows \/ r \in claims'
  BY DEF Crash, Active
<1>9. UNCHANGED <<failed, rows, started, rolled, outcome>> /\ unsaved' \subseteq unsaved
  BY DEF Crash, history
<1> QED BY <1>1, <1>3, <1>4, <1>5, <1>6, <1>7, <1>8, <1>9

\* What is saved of a run that is known: its status v, and its claim if it parks or ends.
Saves(e, r, v) ==
  /\ DOMAIN rows' = DOMAIN rows \cup {r} /\ rows'[r] = v
  /\ \A q \in DOMAIN rows \ {r} : rows'[q] = rows[q]
  /\ UNCHANGED <<broker, pc, window, started, rolled, outcome, failed, faults, crashed>>

LEMMA SaveProgressEffect ==
  ASSUME TypeOK, NEW e \in Engines, SaveProgress(e)
  PROVE  \E r \in DOMAIN mem[e] \ DOMAIN rows :
           /\ mem[e][r] = "Running" /\ Saves(e, r, "Running")
           /\ UNCHANGED <<claims, mem, unsaved>>
  BY DEF SaveProgress, With, Saves, engine, history, trouble

LEMMA EndRunEffect ==
  ASSUME TypeOK, NEW e \in Engines, EndRun(e)
  PROVE  \E r \in DOMAIN mem[e] :
           /\ Saves(e, r, "Ended") /\ claims' = claims \ {r} /\ UNCHANGED unsaved
           /\ DOMAIN mem' = Engines /\ \A f \in Engines \ {e} : mem'[f] = mem[f]
           /\ DOMAIN mem'[e] = DOMAIN mem[e] \ {r}
           /\ \A q \in DOMAIN mem'[e] : mem'[e][q] = mem[e][q]
<1>1. PICK r \in DOMAIN mem[e] \ unsaved :
        /\ mem' = [mem EXCEPT ![e] = Without(@, {r})]
        /\ rows' = With(rows, r, "Ended") /\ claims' = claims \ {r}
  BY DEF EndRun
<1>2. /\ DOMAIN mem' = Engines /\ \A f \in Engines \ {e} : mem'[f] = mem[f]
      /\ mem'[e] = Without(mem[e], {r})
  BY <1>1 DEF TypeOK
<1>3. DOMAIN mem'[e] = DOMAIN mem[e] \ {r} /\ \A q \in DOMAIN mem'[e] : mem'[e][q] = mem[e][q]
  BY <1>2 DEF Without
<1>4. Saves(e, r, "Ended") /\ UNCHANGED unsaved
  BY <1>1 DEF EndRun, With, Saves, history, trouble
<1> QED BY <1>1, <1>2, <1>3, <1>4

LEMMA SaveParkEffect ==
  ASSUME TypeOK, NEW e \in Engines, SavePark(e)
  PROVE  \E r \in DOMAIN mem[e] \cap unsaved :
           /\ Saves(e, r, "Parked") /\ claims' = claims \ {r} /\ unsaved' = unsaved \ {r}
           /\ UNCHANGED mem
  BY DEF SavePark, With, Saves, history, trouble

LEMMA SavesTypes ==
  ASSUME TypeOK, NEW e \in Engines, NEW r \in Run, NEW v \in {"Running", "Parked", "Ended"},
         Saves(e, r, v), claims' \subseteq claims, unsaved' \subseteq unsaved,
         DOMAIN mem' = Engines, \A f \in Engines : Table(mem'[f], {"Running", "Parked"})
  PROVE  TypeOK'
<1>1. Table(rows', {"Running", "Parked", "Ended"})
  BY DEF Saves, Table, TypeOK
<1> QED BY <1>1 DEF Saves, TypeOK

LEMMA LoseEffect ==
  ASSUME TypeOK, NEW e \in Engines, LoseConnection(e)
  PROVE  /\ Others(e) /\ pc[e] \in Answer /\ pc'[e] = Idle
         /\ broker' = [broker EXCEPT ![pc[e].msg] = [at |-> "queue", again |-> TRUE]]
         /\ pc[e].msg \in Messages
         /\ UNCHANGED <<mem, unsaved, window, rows, claims, started, rolled, outcome, failed, crashed>>
         /\ faults' \in 0..MaxFaults
<1>1. Others(e) /\ pc'[e] = Idle
  BY GotoEffect DEF LoseConnection
<1>2. pc[e] \in Answer /\ pc[e].msg \in Messages
  BY InHand DEF LoseConnection, Answer
<1>3. failed' = failed \cup {} /\ UNCHANGED crashed /\ faults < MaxFaults /\ faults' = faults + 1
  BY DEF LoseConnection, Fails, Fault
<1>4. faults' \in 0..MaxFaults
  BY <1>3, IngressAssumption DEF TypeOK
<1>5. UNCHANGED <<mem, unsaved, window, rows, claims, started, rolled, outcome>>
  BY DEF LoseConnection, engine, store, history
<1>6. broker' = [broker EXCEPT ![pc[e].msg] = [at |-> "queue", again |-> TRUE]]
  BY DEF LoseConnection
<1> QED BY <1>1, <1>2, <1>3, <1>4, <1>5, <1>6

LEMMA ReapEffect ==
  ASSUME NEW e \in Engines, Reap(e)
  PROVE  /\ UNCHANGED <<broker, pc, mem, unsaved, window, rows, started, rolled, outcome, failed, faults, crashed>>
         /\ \E r \in claims \ UNION {Renewed(f) : f \in Engines} : claims' = claims \ {r}
  BY DEF Reap, engine, history, trouble

LEMMA StepTypes ==
  ASSUME TypeOK, [Next]_vars
  PROVE  TypeOK'
<1>1. ASSUME NEW e \in Engines, Dispatch(e) PROVE TypeOK'
  BY <1>1, DispatchTypes
<1>2. ASSUME NEW e \in Engines, SaveProgress(e) PROVE TypeOK'
  <2>1. PICK r \in DOMAIN mem[e] : Saves(e, r, "Running") /\ UNCHANGED <<claims, mem, unsaved>>
    BY <1>2, SaveProgressEffect
  <2>2. r \in Run
    BY DEF TypeOK, Table
  <2>3. DOMAIN mem' = Engines /\ \A f \in Engines : Table(mem'[f], {"Running", "Parked"})
    BY <2>1 DEF TypeOK
  <2> QED BY <2>1, <2>2, <2>3, SavesTypes
<1>3. ASSUME NEW e \in Engines, EndRun(e) PROVE TypeOK'
  <2>1. PICK r \in DOMAIN mem[e] :
          /\ Saves(e, r, "Ended") /\ claims' = claims \ {r} /\ UNCHANGED unsaved
          /\ DOMAIN mem' = Engines /\ \A f \in Engines \ {e} : mem'[f] = mem[f]
          /\ DOMAIN mem'[e] = DOMAIN mem[e] \ {r}
          /\ \A q \in DOMAIN mem'[e] : mem'[e][q] = mem[e][q]
    BY <1>3, EndRunEffect
  <2>2. \A f \in Engines : Table(mem[f], {"Running", "Parked"})
    BY DEF TypeOK
  <2>3. r \in Run
    BY <2>2 DEF Table
  <2>4. Table(mem'[e], {"Running", "Parked"})
    BY <2>1, <2>2 DEF Table
  <2>5. \A f \in Engines : Table(mem'[f], {"Running", "Parked"})
    BY <2>1, <2>2, <2>4
  <2> QED BY <2>1, <2>3, <2>5, SavesTypes
<1>4. ASSUME NEW e \in Engines, SavePark(e) PROVE TypeOK'
  <2>1. PICK r \in DOMAIN mem[e] : /\ Saves(e, r, "Parked") /\ claims' = claims \ {r}
                                   /\ unsaved' = unsaved \ {r} /\ UNCHANGED mem
    BY <1>4, SaveParkEffect
  <2>2. r \in Run
    BY DEF TypeOK, Table
  <2>3. DOMAIN mem' = Engines /\ \A f \in Engines : Table(mem'[f], {"Running", "Parked"})
    BY <2>1 DEF TypeOK
  <2> QED BY <2>1, <2>2, <2>3, SavesTypes
<1>5. ASSUME NEW e \in Engines, LoseConnection(e) PROVE TypeOK'
  <2>1. broker' \in [Messages -> [at : {"queue", "acked"} \cup Engines, again : BOOLEAN]]
    BY <1>5, LoseEffect, BrokerTypes
  <2> QED BY <1>5, <2>1, LoseEffect, PcTypes DEF TypeOK
<1>6. ASSUME NEW e \in Engines, Reap(e) PROVE TypeOK'
  BY <1>6, ReapEffect DEF TypeOK
<1>7. ASSUME NEW e \in Engines, Crash(e) PROVE TypeOK'
  <2>1. broker' \in [Messages -> [at : {"queue", "acked"} \cup Engines, again : BOOLEAN]]
    BY <1>7 DEF Crash, TypeOK
  <2>2. \A f \in Engines : Table(mem'[f], {"Running", "Parked"})
    <3>1. DOMAIN mem'[e] = Active /\ \A r \in Active : mem'[e][r] = rows[r]
      BY <1>7, CrashEffect
    <3>2. \A r \in Active : r \in Run /\ rows[r] \in {"Running", "Parked"}
      BY DEF Active, TypeOK, Table
    <3>3. Table(mem'[e], {"Running", "Parked"})
      BY <3>1, <3>2 DEF Table
    <3>4. \A f \in Engines \ {e} : mem'[f] = mem[f]
      BY <1>7, CrashEffect
    <3> QED BY <3>3, <3>4 DEF TypeOK
  <2>3. \A f \in Engines : window'[f] \in Seq(Run)
    <3>1. window'[e] = <<>> /\ \A f \in Engines \ {e} : window'[f] = window[f]
      BY <1>7, CrashEffect
    <3>2. <<>> \in Seq(Run) /\ \A f \in Engines : window[f] \in Seq(Run)
      BY DEF TypeOK
    <3> QED BY <3>1, <3>2
  <2>4. claims' \subseteq Run /\ unsaved' \subseteq Run
    BY <1>7, CrashEffect DEF TypeOK, Active, Table
  <2> QED BY <1>7, <2>1, <2>2, <2>3, <2>4, CrashEffect, PcTypes DEF TypeOK
<1>8. CASE UNCHANGED vars
  BY <1>8 DEF TypeOK, vars, engine, store, history, trouble
<1> QED BY <1>1, <1>2, <1>3, <1>4, <1>5, <1>6, <1>7, <1>8 DEF Next

\* Types, and the shape of every delivery at every stage, for any messages, engines
\* and faults (dispatch.rs, dispatch_sop_event_filtered).
THEOREM IngressTyped == Spec => []TypeOK
  BY TypeInit, StepTypes, PTL DEF Spec

-----------------------------------------------------------------------------
(* No slot leaks.                                                             *)

\* A delivery that is not fanned out takes one run.
LEMMA SingleTakes ==
  ASSUME NEW d, Carried(d), ~d.batch
  PROVE  /\ d.todo # {} => ToSet(d.held) = {}
         /\ \A r, q \in ToSet(d.held) : r = q
<1>1. /\ d \in Delivery /\ Taken(d) \in Seq(Run) /\ d.msg \in Messages
      /\ ToSet(d.held) \subseteq ToSet(Taken(d))
      /\ ~(Cardinality(Matches[d.msg]) > 1) /\ d.todo \subseteq Matches[d.msg]
  BY DeliveryFields DEF Carried, Shape
<1>2. \A s, t \in Matches[d.msg] : s = t
  BY <1>1, OneMatch
<1>3. \A r \in ToSet(Taken(d)) : \E i \in 1..Len(Taken(d)) : Taken(d)[i] = r
  BY <1>1, InSeq
<1>4. \A r \in ToSet(Taken(d)) : r.sop \in Matches[d.msg] \ d.todo
  BY <1>3 DEF Carried, Shape
<1>5. d.todo # {} => ToSet(d.held) = {}
  BY <1>1, <1>2, <1>4
<1>6. \A r, q \in ToSet(Taken(d)) : r = q
  BY <1>2, <1>3, <1>4 DEF Carried, Shape
<1> QED BY <1>1, <1>5, <1>6

\* The claim of a single start that failed is given back, or its row could not be written.
GivenBack(e) == pc[e].at = "reclassify" => ToSet(pc[e].held) \subseteq failed

SlotInv == NoSlotLeaks /\ \A e \in Engines : GivenBack(e)

\* A step of e takes no claim that e does not renew, and lets go of none that stays.
LEMMA SlotStep ==
  ASSUME TypeOK, SlotInv, NEW e \in Engines, Others(e),
         crashed' = crashed, failed \subseteq failed',
         \A f \in Engines \ {e} : mem'[f] = mem[f],
         pc'[e].at = "reclassify" => ToSet(pc'[e].held) \subseteq failed',
         \A c \in claims' : \/ c \in failed' \/ c \in Renewed(e)'
                            \/ c \in claims /\ c \notin Renewed(e)
  PROVE  SlotInv'
<1>1. \A f \in Engines \ {e} : Renewed(f)' = Renewed(f)
  BY DEF Others, Renewed, Unlocked
<1>2. NoSlotLeaks'
  BY <1>1 DEF SlotInv, NoSlotLeaks
<1>3. \A f \in Engines : GivenBack(f)'
  BY DEF Others, SlotInv, GivenBack
<1> QED BY <1>2, <1>3 DEF SlotInv

LEMMA RenewedAt ==
  ASSUME TypeOK, NEW e \in Engines
  PROVE  /\ Working(e) => Renewed(e) = DOMAIN mem[e] \cup ToSet(pc[e].held)
         /\ ~Working(e) => Renewed(e) = DOMAIN mem[e]
  BY InHand DEF Renewed

LEMMA RenewedNext ==
  ASSUME TypeOK, [Next]_vars, NEW e \in Engines
  PROVE  /\ pc'[e].at \in Stage => Renewed(e)' = DOMAIN mem'[e] \cup ToSet(pc'[e].held)
         /\ DOMAIN mem'[e] \subseteq Renewed(e)'
<1>1. TypeOK'
  BY StepTypes
<1>2. pc'[e].at \in Stage => ~(pc'[e].at \in {"idle", "reply"})
  BY DEF Stage
<1> QED BY <1>2 DEF Renewed, Unlocked

LEMMA DispatchSlots ==
  ASSUME TypeOK, [Next]_vars, SlotInv, NEW e \in Engines, Dispatch(e)
  PROVE  SlotInv'
<1> USE DEF Stage
<1>1. ASSUME NEW m \in Messages, Receive(e, m) PROVE SlotInv'
  <2>1. Others(e) /\ pc[e] = Idle /\ UNCHANGED <<mem, claims, failed, crashed>>
        /\ pc'[e].at # "reclassify"
    BY <1>1, ReceiveEffect DEF Receive, engine, store, trouble
  <2>2. Renewed(e) = DOMAIN mem[e]
    BY <2>1, RenewedAt DEF Idle, Working
  <2> QED BY <2>1, <2>2, RenewedNext, SlotStep
<1>2. CASE AdmitSingle(e) \/ AdmitBatch(e)
  <2>1. Others(e) /\ Carried(pc[e]) /\ UNCHANGED <<mem, claims, failed, crashed>>
        /\ pc'[e].at # "reclassify"
    BY <1>2, AdmitSingleEffect, AdmitBatchEffect
       DEF AdmitSingle, AdmitBatch, engine, store, trouble, Moves
  <2>2. ToSet(pc[e].held) = {}
    <3>1. pc[e].held = <<>> /\ <<>> \in Seq(Run)
      BY <1>2, <2>1 DEF Carried, Shape, AdmitSingle, AdmitBatch
    <3> QED BY <3>1, SetOfSeq
  <2>3. Renewed(e) \subseteq DOMAIN mem[e]
    BY <2>2, RenewedAt
  <2> QED BY <2>1, <2>3, RenewedNext, SlotStep
<1>3. CASE Reclassify(e)
  <2>1. Others(e) /\ Carried(pc[e]) /\ UNCHANGED <<mem, claims, failed, crashed>>
        /\ pc[e].at = "reclassify" /\ pc'[e].at = "reply"
    BY <1>3, ReclassifyEffect DEF Reclassify, engine, store, trouble
  <2>2. ToSet(pc[e].held) \subseteq failed
    BY <2>1 DEF SlotInv, GivenBack
  <2>3. Renewed(e) = DOMAIN mem[e] \cup ToSet(pc[e].held)
    BY <2>1, RenewedAt DEF Working
  <2> QED BY <2>1, <2>2, <2>3, RenewedNext, SlotStep
<1>4. CASE Reserve(e) \/ Claim(e)
  <2>1. /\ Others(e) /\ Carried(pc[e]) /\ Working(e) /\ UNCHANGED <<mem, failed, crashed>>
        /\ \/ /\ claims' = claims /\ pc'[e].at \in Stage
              /\ pc'[e].held = pc[e].held
           \/ claims' = claims \ ToSet(pc[e].held)
    BY <1>4, ReserveEffect, ClaimEffect DEF Reserve, Claim, engine, trouble, Moves, Working
  <2>2. Renewed(e) = DOMAIN mem[e] \cup ToSet(pc[e].held)
    BY <2>1, RenewedAt
  <2>3. pc'[e].at = "reclassify" => ToSet(pc'[e].held) \subseteq failed'
    <3> SUFFICES ASSUME pc'[e].at = "reclassify" PROVE ToSet(pc'[e].held) \subseteq failed'
      OBVIOUS
    <3>1. ~pc[e].batch /\ pc'[e].held = pc[e].held /\ pc[e].at \in {"reserve", "claim"}
      BY <1>4, ReserveEffect, ClaimEffect DEF Moves
    <3>2. pc[e].todo # {}
      BY <2>1, <3>1 DEF Carried, Shape
    <3> QED BY <2>1, <3>1, <3>2, SingleTakes
  <2> QED BY <2>1, <2>2, <2>3, RenewedNext, SlotStep
<1>5. CASE InsertClaim(e)
  <2>1. /\ Others(e) /\ Working(e) /\ UNCHANGED <<mem, failed, crashed>>
        /\ pc'[e].at \in Stage
        /\ \E r : claims' = claims \cup {r} /\ ToSet(pc'[e].held) = ToSet(pc[e].held) \cup {r}
        /\ pc'[e].at # "reclassify"
    BY <1>5, InsertEffect DEF InsertClaim, engine, trouble, Working
  <2>2. Renewed(e) = DOMAIN mem[e] \cup ToSet(pc[e].held)
    BY <2>1, RenewedAt
  <2> QED BY <2>1, <2>2, RenewedNext, SlotStep
<1>6. CASE Activate(e)
  <2>1. Others(e) /\ Working(e)
        /\ pc'[e].at # "reclassify"
    BY <1>6, ActivateEffect DEF Working
  <2>2. PICK r \in ToSet(pc[e].held) :
           /\ Enters(e, r)
           /\ \/ pc'[e].at \in Stage /\ ToSet(pc[e].held) = {r} \cup ToSet(pc'[e].held)
              \/ ToSet(pc[e].held) = {r}
    BY <1>6, ActivateEffect
  <2>3. Renewed(e) = DOMAIN mem[e] \cup ToSet(pc[e].held)
    BY <2>1, RenewedAt
  <2>4. /\ \A f \in Engines \ {e} : mem'[f] = mem[f]
        /\ DOMAIN mem'[e] = DOMAIN mem[e] \cup {r}
        /\ claims' \subseteq claims /\ failed \subseteq failed' /\ crashed' = crashed
    BY <2>2 DEF Enters
  <2>5. Renewed(e) \subseteq Renewed(e)'
    BY <2>2, <2>3, <2>4, RenewedNext
  <2> QED BY <2>1, <2>4, <2>5, SlotStep
<1>7. CASE FailActivation(e)
  <2>1. Others(e) /\ Working(e) /\ crashed' = crashed
    BY <1>7, FailActivationEffect DEF Working, FailActivation
  <2>2. PICK h \in ToSet(pc[e].held) : RollsBack(e, ToSet(pc[e].live), h, ToSet(pc[e].held))
    BY <1>7, FailActivationEffect
  <2>3. Renewed(e) = DOMAIN mem[e] \cup ToSet(pc[e].held)
    BY <2>1, RenewedAt
  <2> DEFINE gone == ToSet(pc[e].live)
  <2>4. /\ \A f \in Engines \ {e} : mem'[f] = mem[f]
        /\ DOMAIN mem'[e] = DOMAIN mem[e] \ gone
    BY <2>2 DEF RollsBack
  <2>5. PICK lost \in SUBSET gone : /\ failed' = failed \cup lost \cup {h}
                                    /\ claims' = claims \ (ToSet(pc[e].held) \cup (gone \ lost))
    BY <2>2 DEF RollsBack
  <2>6. DOMAIN mem'[e] \subseteq Renewed(e)'
    BY RenewedNext
  <2>8. pc'[e].at = "reclassify" => ToSet(pc'[e].held) \subseteq failed'
    <3> SUFFICES ASSUME pc'[e].at = "reclassify" PROVE ToSet(pc'[e].held) \subseteq failed'
      OBVIOUS
    <3>1. ~pc[e].batch /\ pc'[e].held = pc[e].held /\ Carried(pc[e])
      BY <1>7, FailActivationEffect DEF Moves
    <3> QED BY <2>2, <2>5, <3>1, SingleTakes
  <2>7. \A c \in claims' : c \in failed' \/ c \in Renewed(e)' \/ (c \in claims /\ c \notin Renewed(e))
    BY <2>3, <2>4, <2>5, <2>6
  <2> QED BY <2>1, <2>4, <2>5, <2>7, <2>8, SlotStep
<1>8. CASE Acknowledge(e)
  <2>1. Others(e) /\ ~Working(e) /\ UNCHANGED <<mem, claims, failed, crashed>>
        /\ pc'[e].at # "reclassify"
    BY <1>8, GotoEffect DEF Acknowledge, engine, store, trouble, Working, Idle
  <2> QED BY <2>1, RenewedAt, RenewedNext, SlotStep
<1> QED BY <1>1, <1>2, <1>3, <1>4, <1>5, <1>6, <1>7, <1>8 DEF Dispatch

LEMMA StepSlots ==
  ASSUME TypeOK, [Next]_vars, SlotInv
  PROVE  SlotInv'
<1> USE DEF Stage
<1>1. ASSUME NEW e \in Engines, Dispatch(e) PROVE SlotInv'
  BY <1>1, DispatchSlots
<1>2. ASSUME NEW e \in Engines, SaveProgress(e) \/ EndRun(e) \/ SavePark(e) PROVE SlotInv'
  <2>1. /\ pc' = pc /\ crashed' = crashed /\ failed' = failed
        /\ \A f \in Engines \ {e} : mem'[f] = mem[f]
        /\ \/ claims' = claims /\ mem' = mem
           \/ \E r : /\ claims' = claims \ {r}
                     /\ DOMAIN mem[e] \ {r} \subseteq DOMAIN mem'[e]
    <3>1. CASE SaveProgress(e)
      BY <3>1, SaveProgressEffect DEF Saves
    <3>2. CASE EndRun(e)
      BY <3>2, EndRunEffect DEF Saves
    <3>3. CASE SavePark(e)
      BY <3>3, SaveParkEffect DEF Saves
    <3> QED BY <1>2, <3>1, <3>2, <3>3
  <2>2. \A c \in claims' : c \in claims /\ (c \in Renewed(e) => c \in Renewed(e)')
    BY <2>1 DEF Renewed, Unlocked
  <2>3. Others(e)
    BY <2>1 DEF Others, TypeOK
  <2>4. pc'[e].at = "reclassify" => ToSet(pc'[e].held) \subseteq failed'
    BY <2>1 DEF SlotInv, GivenBack
  <2> QED BY <2>1, <2>2, <2>3, <2>4, SlotStep
<1>3. ASSUME NEW e \in Engines, LoseConnection(e) PROVE SlotInv'
  <2>1. /\ Others(e) /\ pc[e] \in Answer /\ pc'[e] = Idle
        /\ UNCHANGED <<mem, claims, failed, crashed>>
    BY <1>3, LoseEffect
  <2>2. Renewed(e) = DOMAIN mem[e]
    BY <2>1, RenewedAt DEF Answer, Working
  <2>3. pc'[e].at # "reclassify"
    BY <2>1 DEF Idle
  <2> QED BY <2>1, <2>2, <2>3, RenewedNext, SlotStep
<1>4. ASSUME NEW e \in Engines, Reap(e) PROVE SlotInv'
  BY <1>4, ReapEffect DEF SlotInv, NoSlotLeaks, GivenBack, Renewed, Unlocked
<1>5. ASSUME NEW e \in Engines, Crash(e) PROVE SlotInv'
  <2>1. Others(e) /\ pc'[e] = Idle /\ crashed' = TRUE /\ failed' = failed
    BY <1>5, CrashEffect
  <2>2. \A f \in Engines : GivenBack(f)'
    BY <2>1 DEF Others, SlotInv, GivenBack, Idle
  <2> QED BY <2>1, <2>2 DEF SlotInv, NoSlotLeaks
<1>6. CASE UNCHANGED vars
  BY <1>6 DEF SlotInv, NoSlotLeaks, GivenBack, Renewed, Unlocked, vars, engine, store, history, trouble
<1> QED BY <1>1, <1>2, <1>3, <1>4, <1>5, <1>6 DEF Next

\* Without a crash every claim belongs to a run some engine has or is about to have, or
\* to one whose row could not be written, with any number of engines: a batch given up
\* half way leaves no slot taken (dispatch.rs, the release of what was reserved).
THEOREM SlotsComeBack == Spec => []NoSlotLeaks
<1>1. Init => SlotInv
  BY DEF Init, SlotInv, NoSlotLeaks, GivenBack, Idle
<1>2. SlotInv => NoSlotLeaks
  BY DEF SlotInv
<1> QED BY IngressTyped, <1>1, <1>2, StepSlots, PTL DEF Spec

-----------------------------------------------------------------------------
(* The claims a delivery holds are its own.                                   *)

\* The runs whose claims a delivery has and did not use yet, and the ones it activated.
Reserved(e) == IF Working(e) /\ pc[e].at # "reclassify" THEN ToSet(pc[e].held) ELSE {}
Live(e) == IF Working(e) /\ pc[e].at # "reclassify" THEN ToSet(pc[e].live) ELSE {}

\* The runs that were activated once.
Loaded == UNION {DOMAIN mem[f] : f \in Engines}

Entered == DOMAIN rows \cup rolled \cup failed \cup started \cup Loaded

\* The runs a batch activated so far are in the memory, and the store has them as the
\* memory does, unless they ended at another engine.
Owned(e) ==
  /\ Reserved(e) \subseteq claims
  /\ Reserved(e) \cap Entered = {}
  /\ \A f \in Engines \ {e} : Reserved(e) \cap Reserved(f) = {}
  /\ \A r \in Live(e) : r \in DOMAIN mem[e] /\ (r \in failed \/ rows[r] \in {mem[e][r], "Ended"})

\* Every run an engine has is in the store, but for those a write of which failed.
Written ==
  /\ \A e \in Engines : DOMAIN mem[e] \subseteq DOMAIN rows \cup failed
  /\ unsaved \subseteq failed

\* A run that was rolled back is not left parked in the store.
NotParked == \A r \in rolled \ failed : r \in DOMAIN rows /\ rows[r] # "Parked"

OwnInv == Written /\ NotParked /\ \A e \in Engines : Owned(e)

\* What a step of e can be about.
Mine(e) == Reserved(e) \cup DOMAIN mem[e] \cup DOMAIN rows

LEMMA LoadedStep ==
  ASSUME NEW e \in Engines, \A f \in Engines \ {e} : mem'[f] = mem[f],
         NEW R, DOMAIN mem'[e] \subseteq DOMAIN mem[e] \cup R
  PROVE  Loaded' \subseteq Loaded \cup R
<1> SUFFICES ASSUME NEW x \in Loaded' PROVE x \in Loaded \/ x \in R
  OBVIOUS
<1>1. PICK f \in Engines : x \in DOMAIN mem'[f]
  BY DEF Loaded
<1>2. x \in DOMAIN mem[f] \/ x \in R
  BY <1>1
<1> QED BY <1>2 DEF Loaded

LEMMA StagesKept ==
  ASSUME NEW e, Others(e), NEW f \in Engines \ {e}
  PROVE  /\ Working(f)' = Working(f) /\ Reserved(f)' = Reserved(f) /\ Live(f)' = Live(f)
  BY DEF Others, Reserved, Live, Working

\* A step of e changes the rows of its own runs only, or it ends them.
Rewrites(e) ==
  /\ DOMAIN rows \subseteq DOMAIN rows' /\ failed \subseteq failed'
  /\ \A q \in DOMAIN rows' : \/ q \in DOMAIN rows /\ rows'[q] = rows[q]
                            \/ rows'[q] = "Ended" \/ q \in failed' \/ q \in Reserved(e)
  /\ \A f \in Engines \ {e} : mem'[f] = mem[f]

\* The row of a run that was rolled back changes only by ending.
Lasting ==
  /\ failed \subseteq failed'
  /\ \A r \in rolled \ failed' : rows'[r] \in {rows[r], "Ended"}

LEMMA OwnStep ==
  ASSUME OwnInv, NEW e \in Engines, Others(e), Rewrites(e),
         claims \ claims' \subseteq Mine(e), Entered' \subseteq Entered \cup Mine(e),
         DOMAIN mem'[e] \subseteq DOMAIN rows' \cup failed', unsaved' \subseteq failed',
         \A r \in rolled' \ (rolled \cup failed') : r \in DOMAIN rows' /\ rows'[r] # "Parked",
         Reserved(e)' \subseteq claims', Reserved(e)' \cap Entered' = {},
         \A r \in Reserved(e)' : r \in Reserved(e) \/ r \notin Used,
         \A r \in Live(e)' : r \in DOMAIN mem'[e] /\ (r \in failed' \/ rows'[r] \in {mem'[e][r], "Ended"})
  PROVE  OwnInv' /\ Lasting
<1>1. \A f \in Engines \ {e} : Reserved(f)' = Reserved(f) /\ Live(f)' = Live(f)
  BY StagesKept
<1>2. \A f \in Engines \ {e} : Reserved(f) \cap Mine(e) = {}
  BY DEF OwnInv, Owned, Mine, Entered, Loaded
<1>3. ASSUME NEW f \in Engines \ {e} PROVE Owned(f)'
  <2>1. Reserved(f) \subseteq claims' /\ Reserved(f) \cap Entered' = {}
    BY <1>2, <1>3 DEF OwnInv, Owned
  <2>2. Reserved(f) \cap Reserved(e)' = {}
    BY <1>3 DEF OwnInv, Owned, Used
  <2>3. \A g \in Engines \ {f} : Reserved(f) \cap Reserved(g)' = {}
    BY <1>1, <1>3, <2>2 DEF OwnInv, Owned
  <2>4. ASSUME NEW r \in Live(f)
        PROVE  r \in DOMAIN mem[f] /\ (r \in failed' \/ rows'[r] \in {mem[f][r], "Ended"})
    <3>1. r \in DOMAIN mem[f] /\ (r \in failed \/ rows[r] \in {mem[f][r], "Ended"})
      BY <1>3, <2>4 DEF OwnInv, Owned
    <3>2. r \in DOMAIN rows \cup failed /\ r \notin Reserved(e)
      BY <1>3, <3>1 DEF OwnInv, Owned, Written, Entered, Loaded
    <3> QED BY <3>1, <3>2 DEF Rewrites
  <2>5. mem'[f] = mem[f]
    BY <1>3 DEF Rewrites
  <2> QED BY <1>1, <1>3, <2>1, <2>3, <2>4, <2>5 DEF Owned
<1>4. Owned(e)'
  <2>1. \A g \in Engines \ {e} : Reserved(e)' \cap Reserved(g)' = {}
    BY <1>1 DEF OwnInv, Owned, Used
  <2> QED BY <2>1 DEF Owned
<1>5. Written'
  BY DEF OwnInv, Written, Rewrites
<1>6. NotParked'
  <2> SUFFICES ASSUME NEW r \in rolled' \ failed' PROVE r \in DOMAIN rows' /\ rows'[r] # "Parked"
    BY DEF NotParked
  <2>1. CASE r \in rolled
    <3>1. r \in DOMAIN rows /\ rows[r] # "Parked" /\ r \notin Reserved(e)
      BY <2>1 DEF OwnInv, NotParked, Owned, Entered, Rewrites
    <3> QED BY <3>1 DEF Rewrites
  <2> QED BY <2>1
<1>7. Lasting
  <2>1. \A r \in rolled \ failed' : r \in DOMAIN rows /\ r \notin Reserved(e)
    BY DEF OwnInv, NotParked, Owned, Entered, Rewrites
  <2> QED BY <2>1 DEF Rewrites, Lasting
<1> QED BY <1>3, <1>4, <1>5, <1>6, <1>7 DEF OwnInv

\* Steps that write nothing.
LEMMA OwnStill ==
  ASSUME TypeOK, OwnInv, NEW e \in Engines, Others(e),
         UNCHANGED <<mem, unsaved, rows, started, rolled, failed>>,
         claims \ claims' \subseteq Mine(e),
         Reserved(e)' \subseteq claims',
         \A r \in Reserved(e)' : r \in Reserved(e) \/ r \notin Used,
         Live(e)' \subseteq Live(e)
  PROVE  OwnInv' /\ Lasting
<1>1. Entered' = Entered
  BY DEF Entered, Loaded
<1>2. Rewrites(e)
  BY DEF Rewrites
<1>3. Reserved(e)' \cap Entered = {}
  BY DEF OwnInv, Owned, Used, Entered, Loaded
<1>4. \A r \in Live(e)' : r \in DOMAIN mem'[e] /\ (r \in failed' \/ rows'[r] \in {mem'[e][r], "Ended"})
  BY DEF OwnInv, Owned
<1> QED BY <1>1, <1>2, <1>3, <1>4, OwnStep DEF OwnInv, Written

LEMMA ReservedNone ==
  ASSUME NEW e, pc'[e].at \notin Stage \/ pc'[e].at = "reclassify"
  PROVE  Reserved(e)' = {} /\ Live(e)' = {}
  BY DEF Reserved, Live, Working

LEMMA ReservedSome ==
  ASSUME NEW e, pc'[e].at \in Stage, pc'[e].at # "reclassify"
  PROVE  Reserved(e)' = ToSet(pc'[e].held) /\ Live(e)' = ToSet(pc'[e].live)
  BY DEF Reserved, Live, Working

LEMMA ReservedNow ==
  ASSUME NEW e, pc[e].at \in Stage, pc[e].at # "reclassify"
  PROVE  Reserved(e) = ToSet(pc[e].held) /\ Live(e) = ToSet(pc[e].live)
  BY DEF Reserved, Live, Working

LEMMA EmptySet == ToSet(<<>>) = {}
  BY DEF ToSet

\* No run is taken twice.
LEMMA TakenOnce ==
  ASSUME NEW d, Carried(d)
  PROVE  /\ ToSet(d.live) \cap ToSet(d.held) = {}
         /\ \A r, q \in ToSet(Taken(d)) : r.sop = q.sop => r = q
         /\ \A r \in ToSet(Taken(d)) : /\ r.msg = d.msg
                                       /\ r.sop \in Matches[d.msg] \ d.todo
         /\ GatesLead => \A r \in ToSet(d.live), h \in ToSet(d.held) : Gate(h.sop) => Gate(r.sop)
<1>1. /\ d \in Delivery /\ Taken(d) \in Seq(Run) /\ d.live \in Seq(Run) /\ d.held \in Seq(Run)
  BY DeliveryFields DEF Carried
<1>2. \A r \in ToSet(Taken(d)) : \E i \in 1..Len(Taken(d)) : Taken(d)[i] = r
  BY <1>1, InSeq
<1>3. \A r, q \in ToSet(Taken(d)) : r.sop = q.sop => r = q
  BY <1>2 DEF Carried, Shape
<1>4. \A r \in ToSet(Taken(d)) : r.msg = d.msg /\ r.sop \in Matches[d.msg] \ d.todo
  BY <1>2 DEF Carried, Shape
<1>5. \A r \in ToSet(d.live), h \in ToSet(d.held) :
        \E i, j \in 1..Len(Taken(d)) : i < j /\ Taken(d)[i] = r /\ Taken(d)[j] = h
  <2> SUFFICES ASSUME NEW r \in ToSet(d.live), NEW h \in ToSet(d.held)
               PROVE  \E i, j \in 1..Len(Taken(d)) : i < j /\ Taken(d)[i] = r /\ Taken(d)[j] = h
    OBVIOUS
  <2>1. PICK i \in 1..Len(d.live) : d.live[i] = r
    BY <1>1, InSeq
  <2>2. PICK k \in 1..Len(d.held) : d.held[k] = h
    BY <1>1, InSeq
  <2>3. /\ Len(Taken(d)) = Len(d.live) + Len(d.held)
        /\ \A n \in 1..Len(d.live) + Len(d.held) :
             Taken(d)[n] = IF n <= Len(d.live) THEN d.live[n] ELSE d.held[n - Len(d.live)]
        /\ Len(d.live) \in Nat /\ Len(d.held) \in Nat
    BY <1>1, ConcatProperties, LenProperties DEF Taken
  <2>4. \A l, h1 \in Nat : \A i1 \in 1..l, k1 \in 1..h1 :
          /\ i1 \in 1..(l + h1) /\ l + k1 \in 1..(l + h1) /\ i1 < l + k1 /\ ~(l + k1 <= l)
          /\ i1 <= l /\ l + k1 - l = k1
    OBVIOUS
  <2> DEFINE L == Len(d.live)
             H == Len(d.held)
  <2>6. L \in Nat /\ H \in Nat /\ i \in 1..L /\ k \in 1..H
    BY <2>1, <2>2, <2>3
  <2>7. /\ Len(Taken(d)) = L + H
        /\ \A n \in 1..(L + H) : Taken(d)[n] = IF n <= L THEN d.live[n] ELSE d.held[n - L]
    BY <2>3
  <2> HIDE DEF L, H
  <2>8. /\ i \in 1..(L + H) /\ L + k \in 1..(L + H) /\ i < L + k /\ ~(L + k <= L)
        /\ i <= L /\ L + k - L = k
    BY <2>4, <2>6
  <2> DEFINE T == Taken(d)
             lv == d.live
             hd == d.held
  <2>9. Taken(d)[i] = d.live[i] /\ Taken(d)[L + k] = d.held[k]
    <3>1. \A n \in 1..(L + H) : T[n] = IF n <= L THEN lv[n] ELSE hd[n - L]
      BY <2>7
    <3> HIDE DEF T, lv, hd
    <3>2. T[i] = lv[i]
      BY <2>8, <3>1
    <3>3. \A j \in 1..(L + H), n \in 1..H : ~(j <= L) /\ j - L = n => T[j] = hd[n]
      BY <3>1
    <3>4. T[L + k] = hd[k]
      BY <2>6, <2>8, <3>3
    <3> QED BY <3>2, <3>4 DEF T, lv, hd
  <2> QED BY <2>1, <2>2, <2>7, <2>8, <2>9
<1>6. ToSet(d.live) \cap ToSet(d.held) = {}
  <2> SUFFICES ASSUME NEW r \in ToSet(d.live), r \in ToSet(d.held) PROVE FALSE
    OBVIOUS
  <2>1. PICK i, j \in 1..Len(Taken(d)) : i < j /\ Taken(d)[i] = r /\ Taken(d)[j] = r
    BY <1>5
  <2>2. i = j
    BY <2>1 DEF Carried, Shape
  <2> QED BY <2>1, <2>2
<1>7. GatesLead => \A r \in ToSet(d.live), h \in ToSet(d.held) : Gate(h.sop) => Gate(r.sop)
  BY <1>5 DEF Carried, InOrder
<1> QED BY <1>3, <1>4, <1>6, <1>7

LEMMA ActivateOwn ==
  ASSUME TypeOK, OwnInv, NEW e \in Engines, Activate(e)
  PROVE  OwnInv' /\ Lasting
<1> USE DEF Stage
<1>1. /\ Others(e) /\ Carried(pc[e]) /\ pc[e].at = "activate" /\ rolled' = rolled
  BY ActivateEffect DEF Activate
<1>2. Reserved(e) = ToSet(pc[e].held) /\ Live(e) = ToSet(pc[e].live)
  BY <1>1, ReservedNow
<1>3. PICK r \in ToSet(pc[e].held) :
        /\ Enters(e, r)
        /\ \/ /\ Carried(pc'[e]) /\ pc'[e].at = "activate"
              /\ ToSet(pc[e].held) = {r} \cup ToSet(pc'[e].held)
              /\ ToSet(pc'[e].live) = ToSet(pc[e].live) \cup {r}
              /\ started' = started
           \/ /\ pc'[e].at = "reply" /\ ToSet(pc[e].held) = {r}
              /\ ToSet(Taken(pc[e])) = ToSet(pc[e].live) \cup {r}
              /\ started' = started \cup ToSet(Taken(pc[e]))
  BY ActivateEffect
<1>4. /\ claims \ claims' \subseteq {r}
      /\ DOMAIN rows \subseteq DOMAIN rows' /\ DOMAIN rows' \subseteq DOMAIN rows \cup {r}
      /\ failed \subseteq failed' /\ failed' \subseteq failed \cup {r}
      /\ r \in DOMAIN rows' \cup failed'
      /\ r \in failed' \/ rows'[r] = mem'[e][r]
      /\ \A q \in DOMAIN rows \ {r} : rows'[q] = rows[q]
      /\ unsaved' \subseteq unsaved \cup (failed' \cap {r})
  BY <1>3 DEF Enters
<1>5. /\ DOMAIN mem'[e] = DOMAIN mem[e] \cup {r} /\ \A f \in Engines \ {e} : mem'[f] = mem[f]
      /\ \A q \in DOMAIN mem[e] \ {r} : mem'[e][q] = mem[e][q]
  BY <1>3 DEF Enters
<1>6. r \in Reserved(e) /\ r \in Mine(e) /\ r \notin Entered /\ r \notin Live(e)
  <2>1. r \in Reserved(e)
    BY <1>2, <1>3
  <2> QED BY <2>1, <1>1, <1>2, TakenOnce DEF Mine, OwnInv, Owned
<1>7. Rewrites(e)
  BY <1>4, <1>5, <1>6 DEF Rewrites
<1>8. claims \ claims' \subseteq Mine(e)
  BY <1>4, <1>6
<1>9. Entered' \subseteq Entered \cup {r}
  <2>1. Live(e) \subseteq Entered
    BY DEF OwnInv, Owned, Entered, Loaded
  <2>2. started' \subseteq Entered \cup {r}
    BY <1>2, <1>3, <2>1 DEF Entered
  <2>3. Loaded' \subseteq Loaded \cup {r}
    BY <1>5, LoadedStep
  <2> QED BY <1>1, <1>4, <2>2, <2>3 DEF Entered
<1>10. /\ DOMAIN mem'[e] \subseteq DOMAIN rows' \cup failed' /\ unsaved' \subseteq failed'
  BY <1>4, <1>5 DEF OwnInv, Written
<1>11. \A q \in Live(e) \cup {r} : q \in DOMAIN mem'[e] /\ (q \in failed' \/ rows'[q] \in {mem'[e][q], "Ended"})
  <2>1. ASSUME NEW q \in Live(e)
        PROVE  q \in DOMAIN mem'[e] /\ (q \in failed' \/ rows'[q] \in {mem'[e][q], "Ended"})
    <3>1. q \in DOMAIN mem[e] /\ (q \in failed \/ rows[q] \in {mem[e][q], "Ended"}) /\ q # r
      BY <1>6, <2>1 DEF OwnInv, Owned
    <3>2. q \in DOMAIN rows \cup failed
      BY <3>1 DEF OwnInv, Written
    <3> QED BY <1>4, <1>5, <3>1, <3>2
  <2>2. r \in DOMAIN mem'[e] /\ (r \in failed' \/ rows'[r] \in {mem'[e][r], "Ended"})
    BY <1>4, <1>5
  <2> QED BY <2>1, <2>2
<1>12. Reserved(e)' \subseteq Reserved(e) \ {r} /\ Live(e)' \subseteq Live(e) \cup {r}
  <2>1. CASE /\ Carried(pc'[e]) /\ pc'[e].at = "activate"
             /\ ToSet(pc[e].held) = {r} \cup ToSet(pc'[e].held)
             /\ ToSet(pc'[e].live) = ToSet(pc[e].live) \cup {r}
    <3>1. ToSet(pc'[e].live) \cap ToSet(pc'[e].held) = {}
      BY <2>1, TakenOnce
    <3>2. Reserved(e)' = ToSet(pc'[e].held) /\ Live(e)' = ToSet(pc'[e].live)
      BY <2>1, ReservedSome
    <3> QED BY <1>2, <2>1, <3>1, <3>2
  <2>2. CASE pc'[e].at = "reply"
    BY <2>2, ReservedNone
  <2> QED BY <1>3, <2>1, <2>2
<1>13. Reserved(e)' \subseteq claims' /\ Reserved(e)' \cap Entered' = {}
  <2>1. Reserved(e) \subseteq claims /\ Reserved(e) \cap Entered = {}
    BY DEF OwnInv, Owned
  <2> QED BY <1>4, <1>9, <1>12, <2>1
<1> QED BY <1>1, <1>6, <1>7, <1>8, <1>9, <1>10, <1>11, <1>12, <1>13, OwnStep

LEMMA FailActivationOwn ==
  ASSUME TypeOK, OwnInv, NEW e \in Engines, FailActivation(e)
  PROVE  OwnInv' /\ Lasting
<1> USE DEF Stage
<1>1. /\ Others(e) /\ Carried(pc[e]) /\ pc[e].at = "activate" /\ started' = started
      /\ pc'[e].at \in {"reply", "reclassify"}
  BY FailActivationEffect DEF FailActivation, Moves
<1>2. Reserved(e) = ToSet(pc[e].held) /\ Live(e) = ToSet(pc[e].live)
  BY <1>1, ReservedNow
<1>3. Reserved(e)' = {} /\ Live(e)' = {}
  BY <1>1, ReservedNone
<1>4. PICK h \in Reserved(e) : RollsBack(e, Live(e), h, Reserved(e))
  BY <1>2, FailActivationEffect
<1>5. PICK parked \in SUBSET Live(e), lost \in SUBSET Live(e) :
       /\ parked = {r \in Live(e) : mem[e][r] = "Parked"}
       /\ DOMAIN rows' = DOMAIN rows \cup (parked \ lost)
       /\ \A q \in DOMAIN rows' : rows'[q] = IF q \in parked \ lost THEN "Ended" ELSE rows[q]
       /\ failed' = failed \cup lost \cup {h}
       /\ claims' = claims \ (Reserved(e) \cup (Live(e) \ lost))
  BY <1>4 DEF RollsBack
<1>6. /\ DOMAIN mem'[e] \subseteq DOMAIN mem[e] /\ \A f \in Engines \ {e} : mem'[f] = mem[f]
      /\ unsaved' \subseteq unsaved /\ rolled' = rolled \cup Live(e)
  BY <1>4 DEF RollsBack
<1>7. Live(e) \subseteq DOMAIN mem[e] /\ Live(e) \subseteq DOMAIN rows \cup failed
  BY DEF OwnInv, Owned, Written
<1>8. Rewrites(e)
  BY <1>5, <1>6 DEF Rewrites
<1>9. claims \ claims' \subseteq Mine(e)
  BY <1>5, <1>7 DEF Mine
<1>10. Entered' \subseteq Entered \cup Mine(e)
  <2>1. Loaded' \subseteq Loaded \cup {}
    BY <1>6, LoadedStep
  <2>2. DOMAIN rows' \subseteq DOMAIN rows \cup DOMAIN mem[e]
    BY <1>5, <1>7
  <2>3. failed' \subseteq failed \cup Mine(e) /\ rolled' \subseteq rolled \cup Mine(e)
    BY <1>5, <1>6, <1>7 DEF Mine
  <2> QED BY <1>1, <2>1, <2>2, <2>3 DEF Entered, Mine
<1>11. DOMAIN mem'[e] \subseteq DOMAIN rows' \cup failed' /\ unsaved' \subseteq failed'
  BY <1>5, <1>6 DEF OwnInv, Written
<1>12. \A r \in rolled' \ (rolled \cup failed') : r \in DOMAIN rows' /\ rows'[r] # "Parked"
  <2> SUFFICES ASSUME NEW r \in Live(e), r \notin failed'
               PROVE  r \in DOMAIN rows' /\ rows'[r] # "Parked"
    BY <1>6
  <2>1. r \in DOMAIN rows /\ rows[r] \in {mem[e][r], "Ended"} /\ r \notin lost
    BY <1>5, <1>7 DEF OwnInv, Owned
  <2> QED BY <1>5, <2>1
<1> QED BY <1>1, <1>3, <1>8, <1>9, <1>10, <1>11, <1>12, OwnStep

LEMMA DispatchOwn ==
  ASSUME TypeOK, OwnInv, NEW e \in Engines, Dispatch(e)
  PROVE  OwnInv' /\ Lasting
<1> USE DEF Stage
<1>1. ASSUME NEW m \in Messages, Receive(e, m) PROVE OwnInv' /\ Lasting
  <2>1. Others(e) /\ UNCHANGED <<mem, unsaved, rows, claims, started, rolled, failed>>
    BY <1>1, ReceiveEffect DEF Receive, engine, store, history, trouble
  <2>2. Reserved(e)' = {} /\ Live(e)' = {}
    <3>1. CASE pc'[e].at = "reply"
      BY <3>1, ReservedNone
    <3>2. CASE pc'[e].at \in {"single", "batch"} /\ pc'[e].held = <<>> /\ pc'[e].live = <<>>
      BY <3>2, ReservedSome, EmptySet
    <3> QED BY <1>1, <3>1, <3>2, ReceiveEffect
  <2> QED BY <2>1, <2>2, OwnStill
<1>2. CASE AdmitSingle(e) \/ AdmitBatch(e) \/ Reclassify(e)
  <2>1. Others(e) /\ UNCHANGED <<mem, unsaved, rows, claims, started, rolled, failed>>
    BY <1>2, AdmitSingleEffect, AdmitBatchEffect, ReclassifyEffect
       DEF AdmitSingle, AdmitBatch, Reclassify, engine, store, history, trouble
  <2>2. Reserved(e)' = {} /\ Live(e)' = {}
    <3>1. \/ pc'[e].at = "reply"
          \/ pc'[e].at = "reserve" /\ pc'[e].held = <<>> /\ pc'[e].live = <<>>
      <4>1. CASE AdmitSingle(e)
        BY <4>1, AdmitSingleEffect DEF Moves, Carried, Shape, AdmitSingle
      <4>2. CASE AdmitBatch(e)
        BY <4>2, AdmitBatchEffect
      <4>3. CASE Reclassify(e)
        BY <4>3, ReclassifyEffect
      <4> QED BY <1>2, <4>1, <4>2, <4>3
    <3>2. CASE pc'[e].at = "reply"
      BY <3>2, ReservedNone
    <3>3. CASE pc'[e].at = "reserve" /\ pc'[e].held = <<>> /\ pc'[e].live = <<>>
      BY <3>3, ReservedSome, EmptySet
    <3> QED BY <3>1, <3>2, <3>3
  <2> QED BY <2>1, <2>2, OwnStill
<1>3. CASE Reserve(e) \/ Claim(e)
  <2>1. /\ Others(e) /\ UNCHANGED <<mem, unsaved, rows, started, rolled, failed>>
        /\ \/ /\ claims' = claims /\ pc'[e].at \in {"claim", "insert"}
              /\ pc'[e].held = pc[e].held /\ pc'[e].live = pc[e].live
           \/ /\ claims' = claims \ ToSet(pc[e].held) /\ pc'[e].at \in {"reply", "reclassify"}
    BY <1>3, ReserveEffect, ClaimEffect DEF Reserve, Claim, engine, history, trouble, Moves
  <2>2. Reserved(e) = ToSet(pc[e].held) /\ Live(e) = ToSet(pc[e].live)
    BY <1>3, ReserveEffect, ClaimEffect, ReservedNow
  <2>4. CASE /\ claims' = claims /\ pc'[e].at \in {"claim", "insert"}
             /\ pc'[e].held = pc[e].held /\ pc'[e].live = pc[e].live
    <3>1. Reserved(e)' = Reserved(e) /\ Live(e)' = Live(e)
      BY <2>2, <2>4, ReservedSome
    <3>2. Reserved(e) \subseteq claims
      BY DEF OwnInv, Owned
    <3> QED BY <2>1, <2>4, <3>1, <3>2, OwnStill
  <2>5. CASE claims' = claims \ ToSet(pc[e].held) /\ pc'[e].at \in {"reply", "reclassify"}
    <3>1. Reserved(e)' = {} /\ Live(e)' = {}
      BY <2>5, ReservedNone
    <3>2. claims \ claims' \subseteq Mine(e)
      BY <2>2, <2>5 DEF Mine
    <3> QED BY <2>1, <3>1, <3>2, OwnStill
  <2> QED BY <2>1, <2>4, <2>5
<1>4. CASE InsertClaim(e)
  <2>1. /\ Others(e) /\ UNCHANGED <<mem, unsaved, rows, started, rolled, failed>>
        /\ \E r \in Run \ Used : /\ claims' = claims \cup {r} /\ pc'[e].at \in {"reserve", "activate"}
                                 /\ ToSet(pc'[e].held) = ToSet(pc[e].held) \cup {r}
                                 /\ pc'[e].live = <<>>
    BY <1>4, InsertEffect DEF InsertClaim, engine, history, trouble
  <2>2. PICK r \in Run \ Used :
          /\ claims' = claims \cup {r} /\ pc'[e].at \in {"reserve", "activate"}
          /\ ToSet(pc'[e].held) = ToSet(pc[e].held) \cup {r}
          /\ pc'[e].live = <<>>
    BY <2>1
  <2>3. Reserved(e)' = Reserved(e) \cup {r} /\ Live(e)' = {}
    BY <1>4, <2>2, InsertEffect, ReservedNow, ReservedSome, EmptySet
  <2>4. Reserved(e) \subseteq claims
    BY DEF OwnInv, Owned
  <2> QED BY <2>1, <2>2, <2>3, <2>4, OwnStill
<1>5. CASE Activate(e)
  BY <1>5, ActivateOwn
<1>6. CASE FailActivation(e)
  BY <1>6, FailActivationOwn
<1>7. CASE Acknowledge(e)
  <2>1. Others(e) /\ pc'[e] = Idle /\ UNCHANGED <<mem, unsaved, rows, claims, started, rolled, failed>>
    BY <1>7, GotoEffect DEF Acknowledge, engine, store, trouble
  <2>2. Reserved(e)' = {} /\ Live(e)' = {}
    BY <2>1, ReservedNone DEF Idle
  <2> QED BY <2>1, <2>2, OwnStill
<1> QED BY <1>1, <1>2, <1>3, <1>4, <1>5, <1>6, <1>7 DEF Dispatch

LEMMA StepOwn ==
  ASSUME TypeOK, OwnInv, [Next]_vars
  PROVE  OwnInv' /\ Lasting
<1> USE DEF Stage
<1>1. ASSUME NEW e \in Engines, Dispatch(e) PROVE OwnInv' /\ Lasting
  BY <1>1, DispatchOwn
<1>2. ASSUME NEW e \in Engines, SaveProgress(e) \/ EndRun(e) \/ SavePark(e) PROVE OwnInv' /\ Lasting
  <2>1. PICK r \in DOMAIN mem[e], v \in {"Running", "Parked", "Ended"} :
          /\ Saves(e, r, v) /\ claims \ claims' \subseteq {r} /\ unsaved' \subseteq unsaved
          /\ \A f \in Engines \ {e} : mem'[f] = mem[f]
          /\ DOMAIN mem'[e] \subseteq DOMAIN mem[e]
          /\ \/ v = "Running" /\ r \notin DOMAIN rows
             \/ v = "Ended"
             \/ v = "Parked" /\ r \in unsaved
    <3>1. CASE SaveProgress(e)
      BY <3>1, SaveProgressEffect
    <3>2. CASE EndRun(e)
      <4>1. PICK r \in DOMAIN mem[e] :
              /\ Saves(e, r, "Ended") /\ claims' = claims \ {r} /\ UNCHANGED unsaved
              /\ \A f \in Engines \ {e} : mem'[f] = mem[f]
              /\ DOMAIN mem'[e] = DOMAIN mem[e] \ {r}
        BY <3>2, EndRunEffect
      <4> QED BY <4>1
    <3>3. CASE SavePark(e)
      BY <3>3, SaveParkEffect
    <3> QED BY <1>2, <3>1, <3>2, <3>3
  <2>2. Others(e) /\ UNCHANGED <<pc, started, rolled, failed>>
    BY <2>1 DEF Saves, Others, TypeOK
  <2>3. ~(pc'[e].at \in Stage)
    BY <1>2, <2>2 DEF SaveProgress, EndRun, SavePark, Unlocked
  <2>4. Reserved(e)' = {} /\ Live(e)' = {}
    BY <2>3, ReservedNone
  <2>5. r \in Mine(e)
    BY DEF Mine
  <2>6. Rewrites(e)
    BY <2>1, <2>2 DEF OwnInv, Written, Rewrites, Saves
  <2>7. Entered' \subseteq Entered \cup Mine(e)
    <3>1. Loaded' \subseteq Loaded \cup {}
      BY <2>1, LoadedStep
    <3> QED BY <2>1, <2>2, <2>5, <3>1 DEF Entered, Saves
  <2>8. DOMAIN mem'[e] \subseteq DOMAIN rows' \cup failed' /\ unsaved' \subseteq failed'
    BY <2>1, <2>2 DEF OwnInv, Written, Saves
  <2> QED BY <2>1, <2>2, <2>4, <2>5, <2>6, <2>7, <2>8, OwnStep
<1>3. ASSUME NEW e \in Engines, LoseConnection(e) PROVE OwnInv' /\ Lasting
  <2>1. Others(e) /\ pc'[e] = Idle /\ UNCHANGED <<mem, unsaved, rows, claims, started, rolled, failed>>
    BY <1>3, LoseEffect
  <2>2. Reserved(e)' = {} /\ Live(e)' = {}
    BY <2>1, ReservedNone DEF Idle
  <2> QED BY <2>1, <2>2, OwnStill
<1>4. ASSUME NEW e \in Engines, Reap(e) PROVE OwnInv' /\ Lasting
  <2>1. /\ UNCHANGED <<pc, mem, unsaved, rows, started, rolled, failed>>
        /\ \E r \in claims \ UNION {Renewed(f) : f \in Engines} : claims' = claims \ {r}
    BY <1>4, ReapEffect
  <2>2. \A f \in Engines : Reserved(f) \subseteq Renewed(f)
    BY RenewedAt DEF Reserved
  <2>3. \A f \in Engines : Reserved(f)' = Reserved(f) /\ Live(f)' = Live(f) /\ Reserved(f) \subseteq claims'
    BY <2>1, <2>2 DEF Reserved, Live, Working, OwnInv, Owned
  <2>4. Entered' = Entered /\ Written' /\ NotParked'
    BY <2>1 DEF Entered, Loaded, OwnInv, Written, NotParked
  <2> QED BY <2>1, <2>3, <2>4 DEF OwnInv, Owned, Lasting
<1>5. ASSUME NEW e \in Engines, Crash(e) PROVE OwnInv' /\ Lasting
  <2>1. /\ Others(e) /\ pc'[e] = Idle /\ UNCHANGED <<failed, rows, started, rolled>>
        /\ \A f \in Engines \ {e} : mem'[f] = mem[f]
        /\ DOMAIN mem'[e] = Active /\ unsaved' \subseteq unsaved
        /\ \A r \in claims : r \in DOMAIN rows \/ r \in claims'
    BY <1>5, CrashEffect
  <2>2. Reserved(e)' = {} /\ Live(e)' = {}
    BY <2>1, ReservedNone DEF Idle
  <2>3. Active \subseteq DOMAIN rows
    BY DEF Active
  <2>4. Rewrites(e)
    BY <2>1 DEF Rewrites
  <2>5. Entered' \subseteq Entered \cup Mine(e)
    <3>1. Loaded' \subseteq Loaded \cup DOMAIN rows
      BY <2>1, <2>3, LoadedStep
    <3> QED BY <2>1, <3>1 DEF Entered, Mine
  <2>6. claims \ claims' \subseteq Mine(e)
    BY <2>1 DEF Mine
  <2>7. DOMAIN mem'[e] \subseteq DOMAIN rows' \cup failed' /\ unsaved' \subseteq failed'
    BY <2>1, <2>3 DEF OwnInv, Written
  <2> QED BY <2>1, <2>2, <2>4, <2>5, <2>6, <2>7, OwnStep
<1>6. CASE UNCHANGED vars
  BY <1>6 DEF Lasting, OwnInv, Owned, Written, NotParked, Entered, Loaded, Reserved, Live, Working,
              vars, engine, store, history, trouble
<1> QED BY <1>1, <1>2, <1>3, <1>4, <1>5, <1>6 DEF Next

\* A run that was rolled back with its batch is never left parked in the store, where it
\* would fill the pool of its SOP, unless the store refused to end it: with any number of
\* engines (engine.rs, rollback_activated_run).
THEOREM NoneRolledBackParks == Spec => []NotParked
<1>1. Init => OwnInv
  <2> SUFFICES ASSUME Init PROVE OwnInv
    OBVIOUS
  <2>1. \A e \in Engines : Reserved(e) = {} /\ Live(e) = {} /\ mem[e] = <<>>
    BY DEF Init, Reserved, Live, Working, Idle, Stage
  <2> QED BY <2>1 DEF Init, OwnInv, Owned, Written, NotParked
<1>2. OwnInv => NotParked
  BY DEF OwnInv
<1> QED BY IngressTyped, <1>1, <1>2, StepOwn, PTL DEF Spec

-----------------------------------------------------------------------------
(* What was rolled back is gone.                                              *)

OneEngine == \E e \in Engines : Engines = {e}

\* The pool of an SOP does not fill between its admission and its activation: nobody
\* else parks runs, or there is no limit.
PoolsStay == OneEngine \/ \A s \in Sops : PoolCap[s] = 0

\* A gate that is about to be activated parks, and so did those before it.
Parks(e) ==
  /\ \A r \in Reserved(e) : ~PoolFull(r.sop)
  /\ pc[e].at \in {"claim", "insert"} => \A s \in Due(pc[e]) : ~PoolFull(s)
  /\ \A r \in Live(e) : Gate(r.sop) => mem[e][r] = "Parked"

RolledEnds == \A r \in rolled \ failed : rows[r] = "Ended"

ParkInv == RolledEnds /\ \A e \in Engines : Parks(e)

LEMMA PoolSame ==
  ASSUME NEW s, rows' = rows
  PROVE  PoolFull(s)' = PoolFull(s)
  BY DEF PoolFull, PendingOf, Active

LEMMA PoolOfOther ==
  ASSUME NEW s, NEW r, r.sop # s, DOMAIN rows \subseteq DOMAIN rows', DOMAIN rows' \subseteq DOMAIN rows \cup {r},
         \A q \in DOMAIN rows \ {r} : rows'[q] = rows[q]
  PROVE  PoolFull(s)' = PoolFull(s)
<1>1. PendingOf(s)' = PendingOf(s)
  BY DEF PendingOf, Active
<1> QED BY <1>1 DEF PoolFull

LEMMA DueAlone ==
  ASSUME NEW d \in Delivery, NEW s \in Due(d), NEW t \in Due(d)
  PROVE  s = t
<1>1. s \in d.todo /\ t \in d.todo
  BY DEF Due
<1>2. PICK i \in DOMAIN Order : Order[i] = s /\ \A j \in 1..(i - 1) : Order[j] \notin d.todo
  BY DEF Due
<1>3. PICK k \in DOMAIN Order : Order[k] = t /\ \A j \in 1..(k - 1) : Order[j] \notin d.todo
  BY DEF Due
<1>4. DOMAIN Order = 1..Len(Order) /\ Len(Order) \in Nat
  BY IngressAssumption, LenProperties
<1>5. ~(k < i) /\ ~(i < k)
  BY <1>1, <1>2, <1>3, <1>4
<1>6. i = k
  BY <1>4, <1>5
<1> QED BY <1>2, <1>3, <1>6

LEMMA RunSops ==
  ASSUME TypeOK, NEW f \in Engines
  PROVE  /\ \A r \in Reserved(f) : r.sop \in Sops
         /\ pc[f].at \in {"claim", "insert"} => \A s \in Due(pc[f]) : s \in Sops
<1>1. Working(f) => Carried(pc[f]) /\ pc[f] \in Delivery
  BY InHand DEF Carried
<1>2. Working(f) => ToSet(pc[f].held) \subseteq Run
  BY <1>1, DeliveryFields, SetOfSeq
<1>3. \A r \in Reserved(f) : r \in Run
  BY <1>2 DEF Reserved
<1>4. \A r \in Run : r.sop \in Sops
  BY DEF Run
<1>5. pc[f].at \in {"claim", "insert"} => Working(f)
  BY DEF Working, Stage
<1> QED BY <1>1, <1>3, <1>4, <1>5, DueOne

LEMMA ParksStep ==
  ASSUME PoolsStay, TypeOK, [Next]_vars, ParkInv, NEW e \in Engines, Others(e),
         \A f \in Engines \ {e} : mem'[f] = mem[f], Parks(e)'
  PROVE  \A f \in Engines : Parks(f)'
<1> SUFFICES ASSUME NEW f \in Engines \ {e} PROVE Parks(f)'
  OBVIOUS
<1>1. \A s \in Sops : PoolCap[s] = 0
  BY DEF PoolsStay, OneEngine
<1>2. \A s \in Sops : ~PoolFull(s)'
  BY <1>1, IngressAssumption DEF PoolFull
<1>3. pc'[f] = pc[f] /\ Live(f)' = Live(f) /\ Reserved(f)' = Reserved(f)
  BY StagesKept DEF Others
<1>4. /\ \A r \in Reserved(f) : r.sop \in Sops
      /\ pc[f].at \in {"claim", "insert"} => \A s \in Due(pc[f]) : s \in Sops
  BY RunSops
<1>5. /\ \A r \in Reserved(f) : ~PoolFull(r.sop)'
      /\ pc[f].at \in {"claim", "insert"} => \A s \in Due(pc[f]) : ~PoolFull(s)'
  BY <1>2, <1>4
<1>6. \A r \in Live(f) : Gate(r.sop) => mem'[f][r] = "Parked"
  BY DEF ParkInv, Parks
<1> QED BY <1>3, <1>5, <1>6 DEF Parks

LEMMA DispatchOthers ==
  ASSUME TypeOK, NEW e \in Engines, Dispatch(e)
  PROVE  Others(e) /\ \A f \in Engines \ {e} : mem'[f] = mem[f]
<1>1. ASSUME NEW m \in Messages, Receive(e, m) PROVE Others(e) /\ mem' = mem
  BY <1>1, ReceiveEffect DEF Receive, engine
<1>2. CASE AdmitSingle(e) \/ AdmitBatch(e) \/ Reclassify(e)
  BY <1>2, AdmitSingleEffect, AdmitBatchEffect, ReclassifyEffect
     DEF AdmitSingle, AdmitBatch, Reclassify, engine
<1>3. CASE Reserve(e) \/ Claim(e) \/ InsertClaim(e)
  BY <1>3, ReserveEffect, ClaimEffect, InsertEffect DEF Reserve, Claim, InsertClaim, engine
<1>4. CASE Activate(e)
  BY <1>4, ActivateEffect DEF Enters
<1>5. CASE FailActivation(e)
  BY <1>5, FailActivationEffect DEF RollsBack
<1>6. CASE Acknowledge(e)
  BY <1>6, GotoEffect DEF Acknowledge, engine
<1> QED BY <1>1, <1>2, <1>3, <1>4, <1>5, <1>6 DEF Dispatch

LEMMA ParksIdle ==
  ASSUME NEW e, pc'[e].at \notin Stage \/ pc'[e].at = "reclassify"
  PROVE  Parks(e)'
  BY ReservedNone DEF Parks, Stage

LEMMA ParksEmpty ==
  ASSUME NEW e, pc'[e].at \in {"single", "batch", "reserve"}, pc'[e].held = <<>>, pc'[e].live = <<>>
  PROVE  Parks(e)'
  BY ReservedSome, EmptySet DEF Parks, Stage

LEMMA DispatchParks ==
  ASSUME TypeOK, OwnInv, ParkInv, NEW e \in Engines, Dispatch(e), ~FailActivation(e)
  PROVE  Parks(e)'
<1> USE DEF Stage
<1>1. ASSUME NEW m \in Messages, Receive(e, m) PROVE Parks(e)'
  BY <1>1, ReceiveEffect, ParksIdle, ParksEmpty
<1>2. CASE AdmitSingle(e)
  <2>1. CASE Moves(e, "reserve")
    <3>1. pc[e].held = <<>> /\ pc[e].live = <<>>
      BY <1>2, AdmitSingleEffect DEF Carried, Shape, AdmitSingle
    <3> QED BY <2>1, <3>1, ParksEmpty DEF Moves
  <2> QED BY <1>2, <2>1, AdmitSingleEffect, ParksIdle
<1>3. CASE AdmitBatch(e) \/ Reclassify(e)
  BY <1>3, AdmitBatchEffect, ReclassifyEffect, ParksEmpty, ParksIdle
<1>4. CASE Reserve(e) \/ Claim(e)
  <2>1. rows' = rows /\ mem' = mem /\ Carried(pc[e]) /\ pc[e] \in Delivery /\ pc[e].at \in {"reserve", "claim"}
    BY <1>4, ReserveEffect, ClaimEffect DEF Reserve, Claim, engine, Carried
  <2>2. CASE Moves(e, "claim") \/ Moves(e, "insert")
    <3>1. Reserved(e)' = Reserved(e) /\ Live(e)' = Live(e)
      BY <2>1, <2>2, ReservedNow, ReservedSome DEF Moves
    <3>2. \A s \in Due(pc[e]) : ~PoolFull(s)
      <4>1. CASE Reserve(e)
        <5>1. pc'[e].at = "claim"
          BY <4>1, <2>2, ReserveEffect DEF Moves, Reserve, Answers
        <5> QED BY <2>1, <2>2, <4>1, <5>1, ReserveEffect, AdmissionRange, DueAlone, DueOne DEF Answers, Moves
      <4>2. CASE Claim(e)
        BY <4>2 DEF Claim, ParkInv, Parks
      <4> QED BY <1>4, <4>1, <4>2
    <3>3. Due(pc'[e]) = Due(pc[e])
      BY <2>2 DEF Moves, Due
    <3>4. \A s : PoolFull(s)' = PoolFull(s)
      BY <2>1, PoolSame
    <3> QED BY <2>1, <3>1, <3>2, <3>3, <3>4 DEF ParkInv, Parks
  <2>3. CASE pc'[e].at \in {"reply", "reclassify"}
    BY <2>3, ParksIdle
  <2> QED BY <1>4, <2>2, <2>3, ReserveEffect, ClaimEffect DEF Moves
<1>5. CASE InsertClaim(e)
  <2>1. /\ rows' = rows /\ Carried(pc[e]) /\ pc[e].at = "insert"
        /\ \E s \in Due(pc[e]) : \E r : /\ r.sop = s
                                        /\ pc'[e].at \in {"reserve", "activate"}
                                        /\ ToSet(pc'[e].held) = ToSet(pc[e].held) \cup {r}
                                        /\ pc'[e].live = <<>>
    BY <1>5, InsertEffect DEF InsertClaim
  <2>2. PICK r : /\ r.sop \in Due(pc[e]) /\ pc'[e].at \in {"reserve", "activate"}
                 /\ ToSet(pc'[e].held) = ToSet(pc[e].held) \cup {r} /\ pc'[e].live = <<>>
    BY <2>1
  <2>3. Reserved(e)' = Reserved(e) \cup {r} /\ Live(e)' = {}
    BY <2>1, <2>2, ReservedNow, ReservedSome, EmptySet
  <2>4. \A s : PoolFull(s)' = PoolFull(s)
    BY <2>1, PoolSame
  <2>5. ~PoolFull(r.sop) /\ \A q \in Reserved(e) : ~PoolFull(q.sop)
    BY <2>1, <2>2 DEF ParkInv, Parks
  <2> QED BY <2>2, <2>3, <2>4, <2>5 DEF Parks
<1>6. CASE Activate(e)
  <2>1. Carried(pc[e]) /\ pc[e].at = "activate" /\ pc[e] \in Delivery
    BY <1>6, ActivateEffect DEF Carried
  <2>2. PICK r \in ToSet(pc[e].held) :
          /\ Enters(e, r)
          /\ \/ /\ Carried(pc'[e]) /\ pc'[e].at = "activate"
                /\ ToSet(pc[e].held) = {r} \cup ToSet(pc'[e].held)
                /\ ToSet(pc'[e].live) = ToSet(pc[e].live) \cup {r}
             \/ pc'[e].at = "reply"
    BY <1>6, ActivateEffect
  <2>3. CASE /\ Carried(pc'[e]) /\ pc'[e].at = "activate"
             /\ ToSet(pc[e].held) = {r} \cup ToSet(pc'[e].held)
             /\ ToSet(pc'[e].live) = ToSet(pc[e].live) \cup {r}
    <3>1. Reserved(e) = ToSet(pc[e].held) /\ Live(e) = ToSet(pc[e].live)
      BY <2>1, ReservedNow
    <3>2. Reserved(e)' = ToSet(pc'[e].held) /\ Live(e)' = ToSet(pc'[e].live)
      BY <2>3, ReservedSome
    <3>3. r \notin Reserved(e)' /\ r \notin Live(e)
      BY <2>1, <2>2, <2>3, <3>1, <3>2, TakenOnce
    <3>4. \A q \in Reserved(e)' : q.sop # r.sop
      <4>1. Reserved(e) \subseteq ToSet(Taken(pc[e]))
        BY <2>1, <3>1, DeliveryFields
      <4> QED BY <2>1, <2>2, <2>3, <3>1, <3>2, <3>3, <4>1, TakenOnce
    <3>5. \A q \in Reserved(e) : ~PoolFull(q.sop)
      BY DEF ParkInv, Parks
    <3>6. /\ DOMAIN rows \subseteq DOMAIN rows' /\ DOMAIN rows' \subseteq DOMAIN rows \cup {r}
          /\ \A q \in DOMAIN rows \ {r} : rows'[q] = rows[q]
      BY <2>2 DEF Enters
    <3>7. \A q \in Reserved(e)' : ~PoolFull(q.sop)'
      <4> TAKE q \in Reserved(e)'
      <4>1. q.sop # r.sop /\ q \in Reserved(e)
        BY <2>3, <3>1, <3>2, <3>4
      <4>2. PoolFull(q.sop)' = PoolFull(q.sop)
        BY <3>6, <4>1, PoolOfOther
      <4> QED BY <3>5, <4>1, <4>2
    <3>8. Gate(r.sop) => mem'[e][r] = "Parked"
      BY <2>2, <3>1, <3>5 DEF Enters
    <3>9. \A q \in Live(e) : Gate(q.sop) => mem'[e][q] = "Parked"
      BY <2>2, <3>3 DEF Enters, ParkInv, Parks, OwnInv, Owned
    <3> QED BY <2>3, <3>1, <3>2, <3>7, <3>8, <3>9 DEF Parks
  <2>4. CASE pc'[e].at = "reply"
    BY <2>4, ParksIdle
  <2> QED BY <2>2, <2>3, <2>4
<1>7. CASE Acknowledge(e)
  BY <1>7, GotoEffect, ParksIdle DEF Acknowledge, Idle
<1> QED BY <1>1, <1>2, <1>3, <1>4, <1>5, <1>6, <1>7 DEF Dispatch

\* The gates of a batch that is rolled back are parked, and the store ends them.
LEMMA RollBackEnds ==
  ASSUME GatesLead, TypeOK, OwnInv, ParkInv, NEW e \in Engines, FailActivation(e)
  PROVE  /\ Parks(e)'
         /\ \A r \in rolled' \ (rolled \cup failed') : rows'[r] = "Ended"
<1> USE DEF Stage
<1>1. Carried(pc[e]) /\ pc[e].at = "activate"
  BY FailActivationEffect
<1>2. Live(e) = ToSet(pc[e].live)
  BY <1>1, ReservedNow
<1>3. PICK h \in ToSet(pc[e].held) :
        Gate(h.sop) /\ RollsBack(e, Live(e), h, ToSet(pc[e].held))
  BY <1>2, FailActivationEffect
<1>4. PICK parked \in SUBSET Live(e), lost \in SUBSET Live(e) :
       /\ parked = {r \in Live(e) : mem[e][r] = "Parked"}
       /\ DOMAIN rows' = DOMAIN rows \cup (parked \ lost)
       /\ \A q \in DOMAIN rows' : rows'[q] = IF q \in parked \ lost THEN "Ended" ELSE rows[q]
       /\ failed' = failed \cup lost \cup {h}
  BY <1>3 DEF RollsBack
<1>5. rolled' = rolled \cup Live(e)
  BY <1>3 DEF RollsBack
<1>6. \A r \in Live(e) : Gate(r.sop)
  BY <1>1, <1>2, <1>3, TakenOnce
<1>7. \A r \in Live(e) : mem[e][r] = "Parked"
  BY <1>6 DEF ParkInv, Parks
<1>8. \A r \in rolled' \ (rolled \cup failed') : rows'[r] = "Ended"
  BY <1>4, <1>5, <1>7
<1>9. Parks(e)'
  BY FailActivationEffect, ParksIdle DEF Moves
<1> QED BY <1>8, <1>9

LEMMA StepParks ==
  ASSUME PoolsStay, GatesLead, TypeOK, OwnInv, ParkInv, [Next]_vars
  PROVE  ParkInv'
<1> USE DEF Stage
<1>1. \A r \in rolled \ failed' : rows'[r] = "Ended"
  BY StepOwn DEF Lasting, ParkInv, RolledEnds
<1>2. ASSUME NEW e \in Engines, Dispatch(e) PROVE ParkInv'
  <2>1. \A f \in Engines : Parks(f)'
    BY <1>2, DispatchParks, RollBackEnds, DispatchOthers, ParksStep
  <2>2. \A r \in rolled' \ (rolled \cup failed') : rows'[r] = "Ended"
    <3>1. CASE FailActivation(e)
      BY <3>1, RollBackEnds
    <3>2. CASE ~FailActivation(e)
      <4>1. rolled' = rolled
        BY <1>2, <3>2 DEF Dispatch, Receive, AdmitSingle, AdmitBatch, Reserve, Claim, InsertClaim,
                          Activate, Reclassify, Acknowledge, history
      <4> QED BY <4>1
    <3> QED BY <3>1, <3>2
  <2> QED BY <1>1, <2>1, <2>2 DEF ParkInv, RolledEnds
<1>3. ASSUME NEW e \in Engines, SaveProgress(e) \/ EndRun(e) \/ SavePark(e) PROVE ParkInv'
  <2>1. /\ UNCHANGED <<pc, rolled>> /\ \A f \in Engines \ {e} : mem'[f] = mem[f]
    <3>1. CASE SaveProgress(e)
      BY <3>1, SaveProgressEffect DEF Saves
    <3>2. CASE EndRun(e)
      BY <3>2, EndRunEffect DEF Saves
    <3>3. CASE SavePark(e)
      BY <3>3, SaveParkEffect DEF Saves
    <3> QED BY <1>3, <3>1, <3>2, <3>3
  <2>2. Others(e)
    BY <2>1 DEF Others, TypeOK
  <2>3. ~(pc'[e].at \in Stage)
    BY <1>3, <2>1 DEF SaveProgress, EndRun, SavePark, Unlocked
  <2>4. \A f \in Engines : Parks(f)'
    BY <2>1, <2>2, <2>3, ParksIdle, ParksStep
  <2> QED BY <1>1, <2>1, <2>4 DEF ParkInv, RolledEnds
<1>4. ASSUME NEW e \in Engines, LoseConnection(e) \/ Crash(e) PROVE ParkInv'
  <2>1. /\ Others(e) /\ pc'[e] = Idle /\ rolled' = rolled
        /\ \A f \in Engines \ {e} : mem'[f] = mem[f]
    BY <1>4, LoseEffect, CrashEffect
  <2>2. Parks(e)'
    BY <2>1, ParksIdle DEF Idle
  <2>3. \A f \in Engines : Parks(f)'
    BY <2>1, <2>2, ParksStep
  <2> QED BY <1>1, <2>1, <2>3 DEF ParkInv, RolledEnds
<1>5. ASSUME UNCHANGED <<pc, mem, rows, rolled>> PROVE ParkInv'
  <2>1. \A s : PoolFull(s)' = PoolFull(s)
    BY <1>5, PoolSame
  <2>2. \A f \in Engines : Reserved(f)' = Reserved(f) /\ Live(f)' = Live(f)
    BY <1>5 DEF Reserved, Live, Working
  <2>3. \A f \in Engines : Parks(f)'
    BY <1>5, <2>1, <2>2 DEF ParkInv, Parks
  <2> QED BY <1>1, <1>5, <2>3 DEF ParkInv, RolledEnds
<1>6. ASSUME NEW e \in Engines, Reap(e) PROVE ParkInv'
  BY <1>5, <1>6, ReapEffect
<1>7. CASE UNCHANGED vars
  BY <1>5, <1>7 DEF vars, engine, store, history
<1> QED BY <1>2, <1>3, <1>4, <1>6, <1>7 DEF Next

\* With one engine, or without a limit on waiting runs, and with the gates loaded before
\* the SOPs that begin with an agent's step, a run that was rolled back with its batch
\* never comes back (engine.rs, rollback_activated_run).  A step that leads a gate is the
\* case in which it does.
THEOREM RolledBackAreGone ==
  ASSUME PoolsStay, GatesLead
  PROVE  Spec => []RolledBackStaysGone
<1>1. Init => OwnInv /\ ParkInv
  <2> SUFFICES ASSUME Init PROVE OwnInv /\ ParkInv
    OBVIOUS
  <2>1. \A e \in Engines : Reserved(e) = {} /\ Live(e) = {} /\ mem[e] = <<>> /\ pc[e].at = "idle"
    BY DEF Init, Reserved, Live, Working, Idle, Stage
  <2> QED BY <2>1 DEF Init, OwnInv, Owned, Written, NotParked, ParkInv, Parks, RolledEnds
<1>2. ParkInv => RolledBackStaysGone
  BY DEF ParkInv, RolledEnds, RolledBackStaysGone, Active
<1>3. TypeOK /\ OwnInv /\ ParkInv /\ [Next]_vars => (OwnInv /\ ParkInv)'
  BY StepOwn, StepParks
<1> QED BY IngressTyped, <1>1, <1>2, <1>3, PTL DEF Spec

-----------------------------------------------------------------------------
(* What an acknowledged delivery came to.                                     *)

AllStart == \A s \in Sops : FirstStep[s] # "none"

\* Nothing comes between the admission of a single start and its claim.
Sure == OneEngine /\ AllStart

Certain(m) == Sure \/ Cardinality(Matches[m]) # 1

\* Handled, of results that were not sent yet.
Came(R, m, s) ==
  \/ Policy[s] = "Drop"
  \/ Cardinality(Matches[m]) > MaxTotal
  \/ \E x \in R : x.sop = s /\ x.as = "coalesced"
  \/ \E r \in DOMAIN rows \cup failed : /\ r.sop = s /\ r.msg = m
                                        /\ r \in started \/ Cardinality(Matches[m]) = 1

\* An answer that acknowledges.
Answered(e) ==
  pc[e].at = "reply" /\ ~NeedsRedelivery(pc[e].results) /\ Certain(pc[e].msg) =>
    \A s \in Matches[pc[e].msg] : Came(pc[e].results, pc[e].msg, s)

\* A single start that was admitted finds its slot.
Admitted(e) ==
  Sure /\ pc[e].at \in {"reserve", "claim"} /\ ~pc[e].batch => \A s \in pc[e].todo : Admission(s) = "admit"

\* One that failed has failed because of a write.
GaveUp(e) ==
  Sure /\ pc[e].at = "reclassify" =>
    \E r \in failed : r.msg = pc[e].msg /\ r.sop \in Matches[pc[e].msg]

Settled == \A m \in Messages : broker[m].at = "acked" /\ Certain(m) => \A s \in Matches[m] : Came(outcome[m], m, s)

HandInv == Settled /\ \A e \in Engines : Answered(e) /\ Admitted(e) /\ GaveUp(e)

Grows == DOMAIN rows \subseteq DOMAIN rows' /\ failed \subseteq failed' /\ started \subseteq started'

LEMMA HandStep ==
  ASSUME TypeOK, HandInv, NEW e \in Engines, Others(e), Grows,
         Answered(e)', Admitted(e)', GaveUp(e)',
         \A m \in Messages : broker'[m].at = "acked" => broker[m].at = "acked" /\ outcome'[m] = outcome[m]
  PROVE  HandInv'
<1>1. ASSUME NEW f \in Engines \ {e} PROVE Answered(f)' /\ Admitted(f)' /\ GaveUp(f)'
  <2>1. pc'[f] = pc[f] /\ ~Sure
    BY <1>1 DEF Others, Sure, OneEngine
  <2>2. Answered(f)'
    <3> SUFFICES ASSUME pc[f].at = "reply", ~NeedsRedelivery(pc[f].results), Certain(pc[f].msg),
                        NEW s \in Matches[pc[f].msg]
                 PROVE  Came(pc[f].results, pc[f].msg, s)'
      BY <2>1 DEF Answered
    <3>1. Came(pc[f].results, pc[f].msg, s)
      BY <1>1 DEF HandInv, Answered
    <3> DEFINE R == pc[f].results
               m == pc[f].msg
    <3>2. R' = R /\ m' = m
      BY <2>1
    <3> HIDE DEF R, m
    <3>3. Came(R, m, s)
      BY <3>1 DEF R, m
    <3>4. Came(R, m, s)'
      BY <3>2, <3>3 DEF Came, Grows
    <3> QED BY <3>4 DEF R, m
  <2> QED BY <2>1, <2>2 DEF Admitted, GaveUp
<1>2. Settled'
  <2> SUFFICES ASSUME NEW m \in Messages, broker'[m].at = "acked", Certain(m), NEW s \in Matches[m]
               PROVE  Came(outcome[m], m, s)'
    BY DEF Settled
  <2>1. Came(outcome[m], m, s) /\ outcome'[m] = outcome[m]
    BY DEF HandInv, Settled
  <2> QED BY <2>1 DEF Came, Grows
<1> QED BY <1>1, <1>2 DEF HandInv

\* Outside of those stages nothing is asked of a delivery.
LEMMA HandsNow ==
  ASSUME TypeOK, NEW e \in Engines
  PROVE  /\ pc'[e].at # "reply" => Answered(e)'
         /\ pc'[e].at \notin {"reserve", "claim"} => Admitted(e)'
         /\ pc'[e].at # "reclassify" => GaveUp(e)'
  BY DEF Answered, Admitted, GaveUp

\* An answer that accounts for every SOP.
LEMMA HandsOver ==
  ASSUME TypeOK, NEW e \in Engines, pc'[e].at = "reply", Accounts(pc'[e].results, pc'[e].msg)
  PROVE  Answered(e)' /\ Admitted(e)' /\ GaveUp(e)'
<1>1. Answered(e)'
  BY DEF Accounts, Settles, Came, Answered
<1> QED BY <1>1, HandsNow

LEMMA OneCard ==
  ASSUME NEW m \in Messages, ~(Cardinality(Matches[m]) > 1), NEW s \in Matches[m]
  PROVE  Cardinality(Matches[m]) = 1
<1>1. Matches[m] = {s}
  BY OneMatch
<1> QED BY <1>1, FS_Singleton

LEMMA AdmissionSame ==
  ASSUME NEW s, rows' = rows, claims' = claims
  PROVE  Admission(s)' = Admission(s)
  BY DEF Admission, PoolFull, PendingOf, Active, HasSlot, InFlight, ClaimsOf

LEMMA ActivateHands ==
  ASSUME TypeOK, OwnInv, NEW e \in Engines, Activate(e)
  PROVE  Grows /\ Answered(e)' /\ Admitted(e)' /\ GaveUp(e)'
<1> USE DEF Stage
<1>1. /\ Others(e) /\ Carried(pc[e]) /\ pc[e].at = "activate" /\ pc[e] \in Delivery
  BY ActivateEffect DEF Carried
<1>2. PICK r \in ToSet(pc[e].held) :
        /\ Enters(e, r)
        /\ \/ pc'[e].at = "activate" /\ started' = started
           \/ /\ Answers(e) /\ pc'[e].at = "reply"
              /\ ToSet(Taken(pc[e])) = ToSet(pc[e].live) \cup {r}
              /\ pc'[e].results = pc[e].results
                                  \cup {Result(x.sop, "started") : x \in ToSet(Taken(pc[e]))}
              /\ started' = started \cup ToSet(Taken(pc[e]))
  BY ActivateEffect
<1>3. Grows
  BY <1>2 DEF Enters, Grows
<1>4. CASE pc'[e].at = "activate"
  BY <1>3, <1>4, HandsNow
<1>5. CASE /\ Answers(e) /\ pc'[e].at = "reply"
           /\ ToSet(Taken(pc[e])) = ToSet(pc[e].live) \cup {r}
           /\ pc'[e].results = pc[e].results
                               \cup {Result(x.sop, "started") : x \in ToSet(Taken(pc[e]))}
           /\ started' = started \cup ToSet(Taken(pc[e]))
  <2>0. PICK m, R : m = pc[e].msg /\ R = pc'[e].results
    OBVIOUS
  <2>1. pc'[e].msg = m
    BY <1>5, <2>0 DEF Answers
  <2>2. ASSUME NEW s \in Matches[m] PROVE Came(R, m, s)'
    <3>1. CASE s \in Starting(pc[e])
      <4>1. s \in {q.sop : q \in ToSet(Taken(pc[e]))}
        BY <1>1, <3>1, DeliveryFields DEF Carried, Shape
      <4>2. PICK q \in ToSet(Taken(pc[e])) : q.sop = s
        BY <4>1
      <4>3. q.msg = m /\ q \in started'
        BY <1>1, <1>5, <2>0, <4>2, TakenOnce
      <4>4. q \in DOMAIN rows' \cup failed'
        <5>1. CASE q = r
          BY <1>2, <5>1 DEF Enters
        <5>2. CASE q \in Live(e)
          <6>1. q \in DOMAIN rows \cup failed
            BY <5>2 DEF OwnInv, Owned, Written
          <6> QED BY <1>3, <6>1 DEF Grows
        <5> QED BY <1>1, <1>5, <4>2, <5>1, <5>2, ReservedNow
      <4> QED BY <4>2, <4>3, <4>4 DEF Came
    <3>2. CASE s \notin Starting(pc[e])
      <4>1. PICK x \in pc[e].results : x.sop = s /\ Settles(x)
        BY <1>1, <2>0, <3>2 DEF Carried, Shape
      <4>2. x \in R
        BY <1>5, <2>0, <4>1
      <4> QED BY <4>1, <4>2 DEF Came, Settles
    <3> QED BY <3>1, <3>2
  <2>3. Answered(e)'
    BY <2>0, <2>1, <2>2 DEF Answered, Came
  <2> QED BY <1>3, <1>5, <2>3, HandsNow
<1> QED BY <1>2, <1>4, <1>5

LEMMA FailActivationHands ==
  ASSUME TypeOK, NEW e \in Engines, FailActivation(e)
  PROVE  Grows /\ Answered(e)' /\ Admitted(e)' /\ GaveUp(e)'
<1> USE DEF Stage
<1>1. /\ Others(e) /\ Carried(pc[e]) /\ pc[e] \in Delivery
  BY FailActivationEffect DEF Carried
<1>2. PICK h \in ToSet(pc[e].held) : RollsBack(e, ToSet(pc[e].live), h, ToSet(pc[e].held))
  BY FailActivationEffect
<1>3. Grows /\ h \in failed'
  BY <1>2 DEF RollsBack, Grows, FailActivation
<1>4. CASE Moves(e, "reclassify")
  <2>1. h \in ToSet(Taken(pc[e]))
    BY <1>1, DeliveryFields
  <2>2. h.msg = pc[e].msg /\ h.sop \in Matches[pc[e].msg]
    BY <1>1, <2>1, TakenOnce
  <2>3. pc'[e].msg = pc[e].msg
    BY <1>4 DEF Moves
  <2>4. GaveUp(e)'
    BY <1>3, <2>2, <2>3 DEF GaveUp
  <2> QED BY <1>3, <1>4, <2>4, HandsNow DEF Moves
<1>5. CASE Answers(e) /\ pc'[e].at = "reply" /\ Accounts(pc'[e].results, pc[e].msg)
  BY <1>3, <1>5, HandsOver DEF Answers
<1> QED BY <1>4, <1>5, FailActivationEffect

LEMMA ReclassifyHands ==
  ASSUME TypeOK, HandInv, NEW e \in Engines, Reclassify(e)
  PROVE  Answered(e)' /\ Admitted(e)' /\ GaveUp(e)'
<1> USE DEF Stage
<1>1. /\ Carried(pc[e]) /\ pc[e] \in Delivery /\ pc[e].at = "reclassify"
      /\ Answers(e) /\ pc'[e].at = "reply"
      /\ UNCHANGED <<rows, failed, started>>
  BY ReclassifyEffect DEF Carried, Reclassify, store, history, trouble
<1>2. CASE Accounts(pc'[e].results, pc[e].msg)
  BY <1>1, <1>2, HandsOver DEF Answers
<1>3. CASE ~pc[e].batch
  <2>0. PICK m, R : m = pc[e].msg /\ R = pc'[e].results
    OBVIOUS
  <2>1. pc'[e].msg = m /\ m \in Messages /\ ~(Cardinality(Matches[m]) > 1)
    BY <1>1, <1>3, <2>0, DeliveryFields DEF Answers, Carried, Shape
  <2>2. ASSUME Certain(m), NEW s \in Matches[m] PROVE Came(R, m, s)'
    <3>1. Cardinality(Matches[m]) = 1 /\ Matches[m] = {s}
      BY <2>1, <2>2, OneCard, OneMatch
    <3>2. Sure
      BY <2>2, <3>1 DEF Certain
    <3>3. PICK r \in failed : r.msg = m /\ r.sop \in Matches[m]
      BY <1>1, <2>0, <3>2 DEF HandInv, GaveUp
    <3>4. r \in failed' /\ r.sop = s
      BY <1>1, <3>1, <3>3
    <3> QED BY <3>1, <3>3, <3>4 DEF Came
  <2>3. Answered(e)'
    BY <2>0, <2>1, <2>2 DEF Answered, Came
  <2> QED BY <1>1, <2>3, HandsNow
<1> QED BY <1>2, <1>3, ReclassifyEffect

LEMMA DispatchHands ==
  ASSUME TypeOK, OwnInv, HandInv, NEW e \in Engines, Dispatch(e), ~Acknowledge(e)
  PROVE  Grows /\ Answered(e)' /\ Admitted(e)' /\ GaveUp(e)'
<1> USE DEF Stage
<1>1. ASSUME NEW m \in Messages, Receive(e, m) PROVE Grows /\ Answered(e)' /\ Admitted(e)' /\ GaveUp(e)'
  <2>1. Grows
    BY <1>1 DEF Receive, Grows, store, history, trouble
  <2>2. CASE pc'[e].at = "reply" /\ pc'[e].msg = m /\ Accounts(pc'[e].results, m)
    BY <2>1, <2>2, HandsOver
  <2>3. CASE pc'[e].at \in {"single", "batch"}
    BY <2>1, <2>3, HandsNow
  <2> QED BY <1>1, <2>2, <2>3, ReceiveEffect
<1>2. CASE AdmitSingle(e)
  <2>1. Grows /\ UNCHANGED <<rows, claims>>
    BY <1>2 DEF AdmitSingle, Grows, store, history, trouble
  <2>2. CASE Moves(e, "reserve") /\ \A s \in pc[e].todo : Admission(s) = "admit"
    <3>1. \A s \in pc[e].todo : Admission(s)' = "admit"
      BY <2>1, <2>2, AdmissionSame
    <3>2. Admitted(e)'
      BY <2>2, <3>1 DEF Admitted, Moves
    <3> QED BY <2>1, <2>2, <3>2, HandsNow DEF Moves
  <2>3. CASE Answers(e) /\ pc'[e].at = "reply" /\ Accounts(pc'[e].results, pc[e].msg)
    BY <2>1, <2>3, HandsOver DEF Answers
  <2> QED BY <1>2, <2>2, <2>3, AdmitSingleEffect
<1>3. CASE AdmitBatch(e)
  <2>1. Grows
    BY <1>3 DEF AdmitBatch, Grows, store, history, trouble
  <2>2. CASE pc'[e].at = "reserve" /\ pc'[e].batch = pc[e].batch /\ pc[e].batch
    <3>1. Admitted(e)'
      BY <2>2 DEF Admitted
    <3> QED BY <2>1, <2>2, <3>1, HandsNow
  <2>3. CASE Answers(e) /\ pc'[e].at = "reply" /\ Accounts(pc'[e].results, pc[e].msg)
    BY <2>1, <2>3, HandsOver DEF Answers
  <2> QED BY <1>3, <2>2, <2>3, AdmitBatchEffect
<1>4. CASE Reserve(e) \/ Claim(e)
  <2>1. Grows /\ UNCHANGED rows
    BY <1>4 DEF Reserve, Claim, Grows, history, trouble
  <2>2. Carried(pc[e]) /\ pc[e].at \in {"reserve", "claim"} /\ pc[e] \in Delivery
    BY <1>4, ReserveEffect, ClaimEffect DEF Carried
  <2>3. CASE (Moves(e, "claim") \/ Moves(e, "insert")) /\ claims' = claims
    <3>1. Admitted(e)'
      <4> SUFFICES ASSUME Sure, ~pc'[e].batch, NEW s \in pc'[e].todo PROVE Admission(s)' = "admit"
        BY DEF Admitted
      <4>1. s \in pc[e].todo /\ ~pc[e].batch
        BY <2>3 DEF Moves
      <4>2. Admission(s) = "admit"
        BY <2>2, <4>1 DEF HandInv, Admitted
      <4> QED BY <2>1, <2>3, <4>2, AdmissionSame
    <3> QED BY <2>1, <2>3, <3>1, HandsNow DEF Moves
  <2>4. CASE Answers(e) /\ pc'[e].at = "reply" /\ Accounts(pc'[e].results, pc[e].msg)
    BY <2>1, <2>4, HandsOver DEF Answers
  <2>5. CASE /\ ~pc[e].batch /\ Moves(e, "reclassify")
             /\ \E s \in pc[e].todo : Admission(s) # "admit" \/ FirstStep[s] = "none" \/ ~HasSlot(s)
    <3>1. \A s \in pc[e].todo : s \in Sops
      BY <2>2, DeliveryFields
    <3>2. ~Sure
      BY <2>2, <2>5, <3>1, AdmissionRange DEF HandInv, Admitted, Sure, AllStart
    <3>3. GaveUp(e)'
      BY <3>2 DEF GaveUp
    <3> QED BY <2>1, <2>5, <3>3, HandsNow DEF Moves
  <2> QED BY <1>4, <2>3, <2>4, <2>5, ReserveEffect, ClaimEffect
<1>5. CASE InsertClaim(e)
  <2>1. Grows
    BY <1>5 DEF InsertClaim, Grows, history, trouble
  <2>2. PICK s \in Due(pc[e]) : /\ Carried(pc'[e]) /\ pc'[e].at \in {"reserve", "activate"}
                                /\ pc'[e].todo = pc[e].todo \ {s} /\ pc'[e].msg = pc[e].msg
                                /\ pc'[e].batch = pc[e].batch
    BY <1>5, InsertEffect
  <2>3. CASE pc'[e].at = "activate" \/ pc'[e].batch
    <3>1. Admitted(e)'
      BY <2>3, HandsNow DEF Admitted
    <3> QED BY <2>1, <2>2, <3>1, HandsNow
  <2>4. CASE pc'[e].at = "reserve" /\ ~pc'[e].batch
    <3>1. Carried(pc[e]) /\ pc[e] \in Delivery
      BY <1>5, InsertEffect DEF Carried
    <3>2. pc[e].todo \subseteq Matches[pc[e].msg] /\ pc'[e].todo # {} /\ s \in pc[e].todo
          /\ ~(Cardinality(Matches[pc[e].msg]) > 1) /\ pc[e].msg \in Messages
      BY <2>2, <2>4, <3>1, DeliveryFields, DueOne DEF Carried, Shape
    <3>3. Matches[pc[e].msg] = {s}
      BY <3>2, OneMatch
    <3> QED BY <2>2, <3>2, <3>3
  <2> QED BY <2>2, <2>3, <2>4
<1>6. CASE Activate(e)
  BY <1>6, ActivateHands
<1>7. CASE FailActivation(e)
  BY <1>7, FailActivationHands
<1>8. CASE Reclassify(e)
  <2>1. Grows
    BY <1>8 DEF Reclassify, Grows, store, history, trouble
  <2> QED BY <1>8, <2>1, ReclassifyHands
<1> QED BY <1>1, <1>2, <1>3, <1>4, <1>5, <1>6, <1>7, <1>8 DEF Dispatch

LEMMA AcknowledgeHands ==
  ASSUME TypeOK, HandInv, NEW e \in Engines, Acknowledge(e)
  PROVE  HandInv'
<1>1. /\ Others(e) /\ pc'[e] = Idle /\ pc[e].at = "reply"
      /\ UNCHANGED <<rows, claims, started, failed>>
  BY GotoEffect DEF Acknowledge, store, trouble
<1>2. Grows
  BY <1>1 DEF Grows
<1>3. PICK m, R : m = pc[e].msg /\ R = pc[e].results
  OBVIOUS
<1>4. m \in Messages
  BY <1>1, <1>3, InHand DEF Answer
<1>5. \A f \in Engines : Answered(f)' /\ Admitted(f)' /\ GaveUp(f)'
  <2>1. Answered(e)' /\ Admitted(e)' /\ GaveUp(e)'
    BY <1>1, HandsNow DEF Idle
  <2>2. ASSUME NEW f \in Engines \ {e} PROVE Answered(f)' /\ Admitted(f)' /\ GaveUp(f)'
    <3>1. pc'[f] = pc[f] /\ UNCHANGED <<rows, claims, started, failed>>
      BY <1>1, <2>2 DEF Others
    <3>2. \A s : Admission(s)' = Admission(s)
      BY <3>1, AdmissionSame
    <3> QED BY <2>2, <3>1, <3>2 DEF HandInv, Answered, Admitted, GaveUp, Came
  <2> QED BY <2>1, <2>2
<1>6. Settled'
  <2> SUFFICES ASSUME NEW n \in Messages, broker'[n].at = "acked", Certain(n), NEW s \in Matches[n]
               PROVE  Came(outcome[n], n, s)'
    BY DEF Settled
  <2>1. CASE n = m
    <3>1. ~NeedsRedelivery(R)
      BY <1>3, <1>4, <2>1 DEF Acknowledge, TypeOK
    <3>2. outcome'[m] = R
      BY <1>3, <1>4, <3>1 DEF Acknowledge, TypeOK
    <3>3. Came(R, m, s)
      BY <1>1, <1>3, <2>1, <3>1 DEF HandInv, Answered
    <3> QED BY <1>1, <2>1, <3>2, <3>3 DEF Came
  <2>2. CASE n # m
    <3>1. broker'[n] = broker[n] /\ outcome'[n] = outcome[n]
      BY <1>3, <1>4, <2>2 DEF Acknowledge, TypeOK
    <3> QED BY <1>1, <3>1 DEF HandInv, Settled, Came
  <2> QED BY <2>1, <2>2
<1> QED BY <1>5, <1>6 DEF HandInv

LEMMA StepHands ==
  ASSUME TypeOK, OwnInv, HandInv, [Next]_vars
  PROVE  HandInv'
<1>1. ASSUME NEW e \in Engines, Dispatch(e), ~Acknowledge(e) PROVE HandInv'
  <2>1. \A m \in Messages : broker'[m].at = "acked" => broker[m].at = "acked" /\ outcome'[m] = outcome[m]
    <3>1. ASSUME NEW n \in Messages, Receive(e, n)
          PROVE  \A m \in Messages : broker'[m].at = "acked" => broker[m].at = "acked" /\ outcome'[m] = outcome[m]
      <4>1. e # "acked"
        BY IngressAssumption
      <4> QED BY <3>1, <4>1 DEF Receive, history, TypeOK
    <3>2. CASE UNCHANGED <<broker, outcome>>
      BY <3>2
    <3> QED BY <1>1, <3>1, <3>2
         DEF Dispatch, AdmitSingle, AdmitBatch, Reserve, Claim, InsertClaim,
             Activate, FailActivation, Reclassify, history
  <2> QED BY <1>1, <2>1, DispatchHands, DispatchOthers, HandStep
<1>2. ASSUME NEW e \in Engines, Acknowledge(e) PROVE HandInv'
  BY <1>2, AcknowledgeHands
<1>3. ASSUME NEW e \in Engines, SaveProgress(e) \/ EndRun(e) \/ SavePark(e) PROVE HandInv'
  <2>1. UNCHANGED <<broker, pc, started, outcome, failed>> /\ DOMAIN rows \subseteq DOMAIN rows'
    <3>1. CASE SaveProgress(e)
      BY <3>1, SaveProgressEffect DEF Saves
    <3>2. CASE EndRun(e)
      BY <3>2, EndRunEffect DEF Saves
    <3>3. CASE SavePark(e)
      BY <3>3, SaveParkEffect DEF Saves
    <3> QED BY <1>3, <3>1, <3>2, <3>3
  <2>2. Grows /\ Others(e)
    BY <2>1 DEF Grows, Others, TypeOK
  <2>3. Admitted(e)'
    BY <1>3, <2>1, HandsNow DEF SaveProgress, EndRun, SavePark, Unlocked
  <2>4. GaveUp(e)'
    BY <2>1 DEF HandInv, GaveUp
  <2>5. Answered(e)'
    BY <2>1 DEF HandInv, Answered, Came
  <2> QED BY <2>1, <2>2, <2>3, <2>4, <2>5, HandStep
<1>4. ASSUME NEW e \in Engines, LoseConnection(e) PROVE HandInv'
  <2>1. /\ Others(e) /\ pc'[e] = Idle /\ UNCHANGED <<rows, started, outcome, failed>>
        /\ pc[e].msg \in Messages
        /\ broker' = [broker EXCEPT ![pc[e].msg] = [at |-> "queue", again |-> TRUE]]
    BY <1>4, LoseEffect
  <2>2. Grows /\ Answered(e)' /\ Admitted(e)' /\ GaveUp(e)'
    BY <2>1, HandsNow DEF Grows, Idle
  <2>3. \A m \in Messages : broker'[m].at = "acked" => broker[m].at = "acked"
    BY <2>1 DEF TypeOK
  <2> QED BY <2>1, <2>2, <2>3, HandStep
<1>5. ASSUME NEW e \in Engines, Crash(e) PROVE HandInv'
  <2>1. /\ Others(e) /\ pc'[e] = Idle /\ UNCHANGED <<rows, started, outcome, failed>>
        /\ \A m \in Messages : broker'[m] = IF broker[m].at = e THEN [at |-> "queue", again |-> TRUE]
                                            ELSE broker[m]
    BY <1>5, CrashEffect
  <2>2. Grows /\ Answered(e)' /\ Admitted(e)' /\ GaveUp(e)'
    BY <2>1, HandsNow DEF Grows, Idle
  <2>3. \A m \in Messages : broker'[m].at = "acked" => broker[m].at = "acked"
    BY <2>1
  <2> QED BY <2>1, <2>2, <2>3, HandStep
<1>6. ASSUME NEW e \in Engines, Reap(e) PROVE HandInv'
  <2>1. UNCHANGED <<broker, pc, rows, started, outcome, failed>>
    BY <1>6, ReapEffect
  <2>2. Grows /\ Others(e)
    BY <2>1 DEF Grows, Others, TypeOK
  <2>3. Admitted(e)'
    BY <1>6, <2>1, HandsNow DEF Reap, Unlocked
  <2>4. GaveUp(e)'
    BY <2>1 DEF HandInv, GaveUp
  <2>5. Answered(e)'
    BY <2>1 DEF HandInv, Answered, Came
  <2> QED BY <2>1, <2>2, <2>3, <2>4, <2>5, HandStep
<1>7. CASE UNCHANGED vars
  <2>1. UNCHANGED <<broker, pc, rows, claims, started, outcome, failed>>
    BY <1>7 DEF vars, store, history, trouble
  <2>2. \A s : Admission(s)' = Admission(s)
    BY <2>1, AdmissionSame
  <2> QED BY <2>1, <2>2 DEF HandInv, Settled, Answered, Admitted, GaveUp, Came
<1> QED BY <1>1, <1>2, <1>3, <1>4, <1>5, <1>6, <1>7 DEF Next

LEMMA HandsInit == Init => OwnInv /\ HandInv
<1> SUFFICES ASSUME Init PROVE OwnInv /\ HandInv
  OBVIOUS
<1>1. \A e \in Engines : Reserved(e) = {} /\ Live(e) = {} /\ mem[e] = <<>> /\ pc[e].at = "idle"
  BY DEF Init, Reserved, Live, Working, Idle, Stage
<1>2. OwnInv
  BY <1>1 DEF Init, OwnInv, Owned, Written, NotParked
<1>3. HandInv
  BY <1>1 DEF Init, HandInv, Settled, Answered, Admitted, GaveUp
<1> QED BY <1>2, <1>3

\* With one engine, and with SOPs that have a step to begin with, no acknowledged trigger
\* is lost: whatever failed or crashed in between, each SOP the message matches has its
\* run, or the run was given up in one of the documented ways (dispatch.rs,
\* dispatch_sop_event_filtered, and amqp.rs, which answers the broker).
THEOREM NoTriggerIsLost ==
  ASSUME OneEngine, AllStart
  PROVE  Spec => []AcknowledgedIsHandled
<1>1. HandInv => AcknowledgedIsHandled
  BY DEF HandInv, Settled, Certain, Sure, Came, AcknowledgedIsHandled, Handled
<1>2. TypeOK /\ OwnInv /\ HandInv /\ [Next]_vars => (OwnInv /\ HandInv)'
  BY StepOwn, StepHands
<1> QED BY IngressTyped, HandsInit, <1>1, <1>2, PTL DEF Spec

\* AcknowledgedIsHandled, of the messages that start a batch, or nothing.
FanOutIsHandled ==
  \A m \in Messages : broker[m].at = "acked" /\ Cardinality(Matches[m]) # 1 =>
    \A s \in Matches[m] : Handled(m, s)

\* A message that starts several SOPs at once loses none of them, with any number of
\* engines: a batch is sent back as a whole (dispatch.rs, the release of what was reserved).
THEOREM NoFanOutIsLost == Spec => []FanOutIsHandled
<1>1. HandInv => FanOutIsHandled
  BY DEF HandInv, Settled, Certain, Came, FanOutIsHandled, Handled
<1>2. TypeOK /\ OwnInv /\ HandInv /\ [Next]_vars => (OwnInv /\ HandInv)'
  BY StepOwn, StepHands
<1> QED BY IngressTyped, HandsInit, <1>1, <1>2, PTL DEF Spec

-----------------------------------------------------------------------------
(* Nothing is started twice.                                                  *)

Quiet == ~crashed /\ Cardinality(started) <= WindowCap

\* The window knows every run that was started, and a message that comes again is known
\* as one that did.
Once(e) ==
  /\ started \subseteq ToSet(window[e]) /\ Len(window[e]) <= Cardinality(started)
  /\ pc[e] # Idle => broker[pc[e].msg].at = e
  /\ Working(e) => \A r \in started : r.msg = pc[e].msg => r.sop \notin Starting(pc[e])
  /\ \A r \in started : broker[r.msg].at = "queue" => broker[r.msg].again
  /\ \A r, q \in started : r.sop = q.sop /\ r.msg = q.msg => r = q

OnceInv == Quiet => \A e \in Engines : Once(e)

LEMMA CountSeq ==
  ASSUME NEW S, NEW w \in Seq(S), \A i, j \in 1..Len(w) : w[i] = w[j] => i = j
  PROVE  Cardinality(ToSet(w)) = Len(w)
<1>1. w \in [1..Len(w) -> S] /\ Len(w) \in Nat
  BY LenProperties
<1>2. \A x \in ToSet(w) : \E i \in 1..Len(w) : w[i] = x
  BY InSeq
<1>3. w \in [1..Len(w) -> ToSet(w)]
  BY <1>1, LenProperties DEF ToSet
<1>4. w \in Bijection(1..Len(w), ToSet(w))
  BY <1>2, <1>3 DEF Bijection, Injection, Surjection, IsInjective
<1> QED BY <1>1, <1>4, FS_CountingElements DEF ExistsBijection

LEMMA QuietStays ==
  ASSUME TypeOK, started \subseteq started', IsFiniteSet(started'), crashed => crashed', Quiet'
  PROVE  Quiet
<1>1. IsFiniteSet(started) /\ IsFiniteSet(started')
  BY DEF TypeOK
<1>2. Cardinality(started) <= Cardinality(started') /\ Cardinality(started) \in Nat /\ Cardinality(started') \in Nat
  BY <1>1, FS_Subset, FS_CardinalityType
<1> QED BY <1>2, IngressAssumption DEF Quiet

\* Steps that start nothing: the delivery goes on, or it is answered.
LEMMA OnceStill ==
  ASSUME TypeOK, NEW e \in Engines, Once(e), pc[e] # Idle, UNCHANGED <<broker, window, started>>,
         pc'[e].msg = pc[e].msg,
         pc'[e].at \in Stage => Working(e) /\ Starting(pc'[e]) \subseteq Starting(pc[e])
  PROVE  Once(e)'
<1>1. Working(e)' => \A r \in started : r.msg = pc'[e].msg => r.sop \notin Starting(pc'[e])
  BY DEF Once, Working
<1> QED BY <1>1 DEF Once

LEMMA WorkingNotIdle ==
  ASSUME NEW e, pc[e].at \in Stage \/ pc[e].at = "reply"
  PROVE  pc[e] # Idle
  BY DEF Stage, Idle

LEMMA ActivateOnce ==
  ASSUME TypeOK, NEW e \in Engines, Once(e), Activate(e), Cardinality(started') <= WindowCap
  PROVE  Once(e)'
<1> USE DEF Stage
<1>1. /\ Others(e) /\ Carried(pc[e]) /\ pc[e].at = "activate" /\ pc[e] \in Delivery
      /\ Working(e) /\ pc[e] # Idle /\ broker' = broker
  BY ActivateEffect, WorkingNotIdle DEF Carried, Working, Activate
<1>2. CASE /\ Carried(pc'[e]) /\ pc'[e].msg = pc[e].msg /\ Starting(pc'[e]) = Starting(pc[e])
           /\ UNCHANGED <<window, started>>
  BY <1>1, <1>2, OnceStill
<1>3. CASE /\ Answers(e) /\ pc'[e].at = "reply"
           /\ window' = [window EXCEPT ![e] = Remembered(@, Taken(pc[e]))]
           /\ started' = started \cup ToSet(Taken(pc[e]))
  <2>1. PICK T, w, m : T = Taken(pc[e]) /\ w = window[e] /\ m = pc[e].msg
    OBVIOUS
  <2>2. T \in Seq(Run) /\ w \in Seq(Run) /\ IsFiniteSet(started) /\ IsFiniteSet(ToSet(T))
    BY <1>1, <2>1, DeliveryFields, FiniteSeq DEF TypeOK
  <2>3. \A r \in ToSet(T) : r.msg = m /\ r.sop \in Starting(pc[e])
    BY <1>1, <2>1, TakenOnce, DeliveryFields
  <2>4. \A r \in started : r \notin ToSet(T) /\ \A q \in ToSet(T) : ~(r.sop = q.sop /\ r.msg = q.msg)
    BY <1>1, <2>1, <2>3 DEF Once
  <2>5. \A r, q \in ToSet(T) : r.sop = q.sop => r = q
    BY <1>1, <2>1, TakenOnce
  <2>6. Cardinality(ToSet(T)) = Len(T)
    <3>1. \A i, j \in 1..Len(T) : T[i] = T[j] => i = j
      BY <1>1, <2>1 DEF Carried, Shape
    <3> QED BY <2>2, <3>1, CountSeq
  <2>7. Cardinality(started \cup ToSet(T)) = Cardinality(started) + Len(T)
    <3>1. started \cap ToSet(T) = {}
      BY <2>4
    <3>2. Cardinality(started \cup ToSet(T)) =
            Cardinality(started) + Cardinality(ToSet(T)) - Cardinality(started \cap ToSet(T))
      BY <2>2, FS_Union
    <3>3. Cardinality({}) = 0 /\ Cardinality(started) \in Nat /\ Len(T) \in Nat
      BY <2>2, FS_EmptySet, FS_CardinalityType, LenProperties
    <3>4. PICK c, k, n : c = Cardinality(started \cup ToSet(T)) /\ k = Cardinality(started) /\ n = Len(T)
      OBVIOUS
    <3>5. c = k + n - 0 /\ k \in Nat /\ n \in Nat
      BY <2>6, <3>1, <3>2, <3>3, <3>4
    <3>6. c = k + n
      BY <3>5
    <3> QED BY <3>4, <3>6
  <2>8. started' = started \cup ToSet(T) /\ window'[e] = Remembered(w, T) /\ pc'[e].msg = m
    BY <1>3, <2>1 DEF TypeOK, Answers
  <2>9. Len(w) <= Cardinality(started) /\ started \subseteq ToSet(w)
    BY <2>1 DEF Once
  <2>10. Len(w) \in Nat /\ Len(T) \in Nat /\ Cardinality(started) \in Nat
    BY <2>2, FS_CardinalityType, LenProperties
  <2>11. Len(w) + Len(T) <= WindowCap
    BY <2>7, <2>8, <2>9, <2>10, IngressAssumption
  <2>12. ToSet(window'[e]) = ToSet(w) \cup ToSet(T) /\ Len(window'[e]) = Len(w) + Len(T)
    BY <2>2, <2>8, <2>11, RememberedType
  <2>13. started' \subseteq ToSet(window'[e]) /\ Len(window'[e]) <= Cardinality(started')
    BY <2>7, <2>8, <2>9, <2>10, <2>12
  <2>14. broker[m].at = e /\ e # "queue"
    BY <1>1, <2>1, IngressAssumption DEF Once
  <2>15. \A r \in started' : broker'[r.msg].at = "queue" => broker'[r.msg].again
    BY <1>1, <2>3, <2>8, <2>14 DEF Once
  <2>16. \A r, q \in started' : r.sop = q.sop /\ r.msg = q.msg => r = q
    BY <2>4, <2>5, <2>8 DEF Once
  <2>17. ~Working(e)' /\ broker'[pc'[e].msg].at = e
    BY <1>1, <1>3, <2>8, <2>14 DEF Working
  <2> QED BY <2>13, <2>15, <2>16, <2>17 DEF Once
<1> QED BY <1>2, <1>3, ActivateEffect

LEMMA ReceiveOnce ==
  ASSUME TypeOK, NEW e \in Engines, Once(e), NEW m \in Messages, Receive(e, m)
  PROVE  Once(e)'
<1> USE DEF Stage
<1>1. UNCHANGED <<window, started>> /\ broker' = [broker EXCEPT ![m].at = e] /\ broker[m].at = "queue"
  BY DEF Receive, engine, history
<1>2. e # "queue"
  BY IngressAssumption
<1>3. /\ broker'[m].at = e /\ broker'[m].again = broker[m].again
      /\ \A n \in Messages \ {m} : broker'[n] = broker[n]
  BY <1>1 DEF TypeOK
<1>4. \A r \in started : r.msg \in Messages /\ r.sop \in Sops
  BY DEF TypeOK, Run
<1>5. \A r \in started : broker'[r.msg].at = "queue" => broker'[r.msg].again
  BY <1>1, <1>2, <1>3, <1>4 DEF Once
<1>6. pc'[e].msg = m
  BY ReceiveEffect
<1>7. \A r \in started : r.msg = m => r.sop \in Known(e, m)
  <2> SUFFICES ASSUME NEW r \in started, r.msg = m PROVE r.sop \in Known(e, m)
    OBVIOUS
  <2>1. broker[m].again
    BY <1>1 DEF Once
  <2>2. \E i \in DOMAIN window[e] : window[e][i] = r
    BY DEF Once, ToSet
  <2> QED BY <1>4, <2>1, <2>2 DEF Known
<1>8. Working(e)' => \A r \in started : r.msg = m => r.sop \notin Starting(pc'[e])
  <2>1. CASE pc'[e].at = "reply"
    BY <2>1 DEF Working
  <2>2. CASE pc'[e].held = <<>> /\ pc'[e].live = <<>> /\ pc'[e].todo = Matches[m] \ Known(e, m)
    <3>1. Starting(pc'[e]) = Matches[m] \ Known(e, m)
      BY <2>2, EmptySet DEF Starting
    <3> QED BY <1>7, <3>1
  <2> QED BY <2>1, <2>2, ReceiveEffect
<1> QED BY <1>1, <1>3, <1>5, <1>6, <1>8 DEF Once

\* The delivery is answered, or it comes again.
LEMMA OnceSent ==
  ASSUME TypeOK, NEW e \in Engines, Once(e), pc'[e] = Idle, UNCHANGED <<window, started>>,
         \A m \in Messages : broker'[m] = broker[m] \/ broker'[m].at # "queue" \/ broker'[m].again
  PROVE  Once(e)'
<1>1. ~Working(e)'
  BY DEF Working, Stage, Idle
<1>2. \A r \in started : r.msg \in Messages
  BY DEF TypeOK, Run
<1>3. \A r \in started : broker'[r.msg].at = "queue" => broker'[r.msg].again
  BY <1>2 DEF Once
<1> QED BY <1>1, <1>3 DEF Once

LEMMA DispatchOnce ==
  ASSUME TypeOK, NEW e \in Engines, Once(e), Dispatch(e), Cardinality(started') <= WindowCap
  PROVE  Once(e)'
<1> USE DEF Stage
<1>1. ASSUME NEW m \in Messages, Receive(e, m) PROVE Once(e)'
  BY <1>1, ReceiveOnce
<1>2. CASE AdmitSingle(e) \/ AdmitBatch(e) \/ Reserve(e) \/ Claim(e) \/ InsertClaim(e)
           \/ FailActivation(e) \/ Reclassify(e)
  <2>1. Working(e) /\ pc[e] # Idle /\ UNCHANGED <<broker, window, started>>
    <3>1. pc[e].at \in Stage
      BY <1>2 DEF AdmitSingle, AdmitBatch, Reserve, Claim, InsertClaim, FailActivation, Reclassify
    <3> QED BY <1>2, <3>1, WorkingNotIdle
         DEF AdmitSingle, AdmitBatch, Reserve, Claim, InsertClaim, FailActivation, Reclassify,
             Working, engine, history
  <2>2. pc'[e].msg = pc[e].msg /\ (pc'[e].at = "reply" \/ Starting(pc'[e]) \subseteq Starting(pc[e]))
    <3>1. CASE AdmitSingle(e)
      BY <3>1, AdmitSingleEffect DEF Moves, Answers
    <3>2. CASE AdmitBatch(e)
      <4>1. CASE /\ pc'[e].msg = pc[e].msg /\ pc'[e].held = <<>> /\ pc'[e].live = <<>>
                 /\ pc'[e].todo \subseteq pc[e].todo
        <5>1. Starting(pc'[e]) = pc'[e].todo
          BY <4>1, EmptySet DEF Starting
        <5>2. pc[e].todo \subseteq Starting(pc[e])
          BY DEF Starting
        <5> QED BY <4>1, <5>1, <5>2
      <4> QED BY <3>2, <4>1, AdmitBatchEffect DEF Answers
    <3>3. CASE Reserve(e) \/ Claim(e)
      BY <3>3, ReserveEffect, ClaimEffect DEF Moves, Answers
    <3>4. CASE InsertClaim(e)
      BY <3>4, InsertEffect
    <3>5. CASE FailActivation(e) \/ Reclassify(e)
      BY <3>5, FailActivationEffect, ReclassifyEffect DEF Moves, Answers
    <3> QED BY <1>2, <3>1, <3>2, <3>3, <3>4, <3>5
  <2> QED BY <2>1, <2>2, OnceStill
<1>3. CASE Activate(e)
  BY <1>3, ActivateOnce
<1>4. CASE Acknowledge(e)
  <2>1. pc'[e] = Idle /\ UNCHANGED <<window, started>>
    BY <1>4, GotoEffect DEF Acknowledge, engine
  <2>2. \A m \in Messages : broker'[m] = broker[m] \/ broker'[m].at # "queue" \/ broker'[m].again
    BY <1>4 DEF Acknowledge, TypeOK
  <2> QED BY <2>1, <2>2, OnceSent
<1> QED BY <1>1, <1>2, <1>3, <1>4 DEF Dispatch

LEMMA StepOnce ==
  ASSUME OneEngine, TypeOK, OnceInv, [Next]_vars
  PROVE  OnceInv'
<1> SUFFICES ASSUME Quiet' PROVE \A f \in Engines : Once(f)'
  BY DEF OnceInv
<1>1. started \subseteq started' /\ (crashed => crashed')
  <2>1. ASSUME NEW e \in Engines, Activate(e) PROVE started \subseteq started' /\ crashed' = crashed
    BY <2>1, ActivateEffect DEF Enters
  <2>2. ASSUME NEW e \in Engines, Dispatch(e), ~Activate(e) PROVE started' = started /\ crashed' = crashed
    BY <2>2 DEF Dispatch, Receive, AdmitSingle, AdmitBatch, Reserve, Claim, InsertClaim,
                FailActivation, Reclassify, Acknowledge, history, trouble
  <2>3. ASSUME NEW e \in Engines,
               SaveProgress(e) \/ EndRun(e) \/ SavePark(e) \/ LoseConnection(e) \/ Reap(e)
        PROVE  started' = started /\ crashed' = crashed
    BY <2>3 DEF SaveProgress, EndRun, SavePark, LoseConnection, Reap, Fails, history, trouble
  <2>4. ASSUME NEW e \in Engines, Crash(e) PROVE started' = started /\ crashed' = TRUE
    BY <2>4 DEF Crash, history
  <2>5. CASE UNCHANGED vars
    BY <2>5 DEF vars, history, trouble
  <2> QED BY <2>1, <2>2, <2>3, <2>4, <2>5 DEF Next
<1>2. IsFiniteSet(started')
  BY StepTypes DEF TypeOK
<1>3. \A f \in Engines : Once(f)
  BY <1>1, <1>2, QuietStays DEF OnceInv
<1>4. ASSUME NEW e \in Engines, Once(e)' PROVE \A f \in Engines : Once(f)'
  BY <1>4 DEF OneEngine
<1>5. Cardinality(started') <= WindowCap /\ ~crashed'
  BY DEF Quiet
<1>6. ASSUME NEW e \in Engines, Dispatch(e) PROVE \A f \in Engines : Once(f)'
  BY <1>3, <1>4, <1>5, <1>6, DispatchOnce
<1>7. ASSUME NEW e \in Engines, SaveProgress(e) \/ EndRun(e) \/ SavePark(e) \/ Reap(e)
      PROVE  \A f \in Engines : Once(f)'
  <2>1. UNCHANGED <<broker, pc, window, started>>
    BY <1>7 DEF SaveProgress, EndRun, SavePark, Reap, engine, history
  <2> QED BY <1>3, <2>1 DEF Once, Working
<1>8. ASSUME NEW e \in Engines, LoseConnection(e) PROVE \A f \in Engines : Once(f)'
  <2>1. /\ pc'[e] = Idle /\ UNCHANGED <<window, started>> /\ pc[e].msg \in Messages
        /\ broker' = [broker EXCEPT ![pc[e].msg] = [at |-> "queue", again |-> TRUE]]
    BY <1>8, LoseEffect
  <2>2. \A m \in Messages : broker'[m] = broker[m] \/ broker'[m].again
    BY <2>1 DEF TypeOK
  <2> QED BY <1>3, <1>4, <2>1, <2>2, OnceSent
<1>9. ASSUME NEW e \in Engines, Crash(e) PROVE FALSE
  BY <1>5, <1>9 DEF Crash
<1>10. CASE UNCHANGED vars
  BY <1>3, <1>10 DEF Once, Working, vars, engine, history
<1> QED BY <1>6, <1>7, <1>8, <1>9, <1>10 DEF Next

\* With one engine, a redelivery starts nothing a second time, until the engine restarts
\* or the window overflows: for any number of messages, SOPs, failed writes and lost
\* connections (dispatch.rs, coalesce_confirmed_redelivery and record_dispatch_dedup).
THEOREM NothingStartsTwice ==
  ASSUME OneEngine
  PROVE  Spec => []StartedOnce
<1>1. Init => OnceInv
  <2> SUFFICES ASSUME Init, NEW e \in Engines PROVE Once(e)
    BY DEF OnceInv
  <2>1. Len(<<>>) = 0 /\ Cardinality({}) = 0
    BY FS_EmptySet
  <2>2. /\ pc[e] = Idle /\ window[e] = <<>> /\ started = {}
        /\ Len(window[e]) <= Cardinality(started)
    BY <2>1 DEF Init
  <2>3. ~Working(e)
    BY <2>2 DEF Working, Idle, Stage
  <2> QED BY <2>2, <2>3 DEF Once
<1>2. TypeOK /\ OnceInv => StartedOnce
  <2> SUFFICES ASSUME TypeOK, OnceInv, ~crashed, ~(Cardinality(started) > WindowCap),
                      NEW r \in started, NEW q \in started, r.sop = q.sop, r.msg = q.msg
               PROVE  r = q
    BY DEF StartedOnce
  <2>1. Cardinality(started) \in Nat /\ WindowCap \in Nat
    BY FS_CardinalityType, IngressAssumption DEF TypeOK
  <2>2. Quiet
    BY <2>1 DEF Quiet
  <2> QED BY <2>2 DEF OneEngine, OnceInv, Once
<1> QED BY IngressTyped, <1>1, <1>2, StepOnce, PTL DEF Spec
=============================================================================
