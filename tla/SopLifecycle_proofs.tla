------------------------ MODULE SopLifecycle_proofs ------------------------
(***************************************************************************)
(* The life cycle keeps execution within the caps, for any number of runs  *)
(* and SOPs.  Only a run that begins or resumes starts to occupy a slot,   *)
(* and it does so when one is free; every other step leaves the occupied   *)
(* slots as they are, or fewer.                                            *)
(***************************************************************************)
EXTENDS SopLifecycle, FiniteSetTheorems, TLAPS

OccupyingOf(s) == {r \in Occupying : SopOf[r] = s}

LEMMA Smaller ==
  ASSUME NEW big, IsFiniteSet(big), NEW small \in SUBSET big, NEW n \in Nat,
         Cardinality(big) <= n
  PROVE  Cardinality(small) <= n
<1>1. Cardinality(small) <= Cardinality(big)
  BY FS_Subset
<1>2. Cardinality(small) \in Nat /\ Cardinality(big) \in Nat
  BY FS_Subset, FS_CardinalityType
<1> QED BY <1>1, <1>2

LEMMA OneMore ==
  ASSUME NEW old, IsFiniteSet(old), NEW r, NEW new \in SUBSET (old \cup {r}),
         NEW n \in Nat, Cardinality(old) < n
  PROVE  Cardinality(new) <= n
<1>1. /\ IsFiniteSet(old \cup {r})
      /\ \/ Cardinality(old \cup {r}) = Cardinality(old)
         \/ Cardinality(old \cup {r}) = Cardinality(old) + 1
  BY FS_AddElement
<1>2. Cardinality(old) \in Nat
  BY FS_CardinalityType
<1>3. Cardinality(old \cup {r}) <= n
  BY <1>1, <1>2
<1> QED BY <1>1, <1>3, Smaller

\* A step that occupies no slot anew.
LEMMA NoneNew ==
  ASSUME Constants, TypeOK, SlotsWithinCaps, Occupying' \subseteq Occupying,
         \A r \in Runs : status'[r] \in Owning => r \in slots'
  PROVE  SlotsWithinCaps'
<1>1. IsFiniteSet(Occupying)
  BY FS_Subset DEF Constants, TypeOK, Occupying
<1>2. Cardinality(Occupying') <= MaxTotal
  BY <1>1, Smaller DEF Constants, SlotsWithinCaps
<1>3. ASSUME NEW s \in Sops
      PROVE  Cardinality({r \in Occupying : SopOf[r] = s})' <= MaxConcurrent[s]
  <2>1. IsFiniteSet(OccupyingOf(s)) /\ OccupyingOf(s)' \subseteq OccupyingOf(s)
    BY <1>1, FS_Subset DEF OccupyingOf
  <2>2. Cardinality(OccupyingOf(s)) <= MaxConcurrent[s] /\ MaxConcurrent[s] \in Nat
    BY DEF Constants, SlotsWithinCaps, OccupyingOf
  <2>3. Cardinality(OccupyingOf(s)') <= MaxConcurrent[s]
    BY <2>1, <2>2, Smaller
  <2> QED BY <2>3 DEF OccupyingOf
<1> QED BY <1>2, <1>3 DEF SlotsWithinCaps

\* A step of a run that takes a free slot.
LEMMA TakesFree ==
  ASSUME Constants, TypeOK, SlotsWithinCaps, NEW r \in Runs, NEW next,
         SlotFree(r), Becomes(r, next)
  PROVE  SlotsWithinCaps'
<1>1. /\ status' = [status EXCEPT ![r] = next]
      /\ slots' \subseteq slots \cup {r}
      /\ slots \ {r} \subseteq slots'
  BY DEF Becomes
<1>2. IsFiniteSet(slots)
  BY FS_Subset DEF Constants, TypeOK
<1>3. Cardinality(Occupying') <= MaxTotal
  <2>1. Occupying' \subseteq slots \cup {r}
    BY <1>1 DEF Occupying
  <2> QED BY <1>2, <2>1, OneMore DEF Constants, SlotFree
<1>4. ASSUME NEW s \in Sops
      PROVE  Cardinality({q \in Occupying : SopOf[q] = s})' <= MaxConcurrent[s]
  <2>1. CASE s = SopOf[r]
    <3>1. /\ IsFiniteSet(OwnersOf(s))
          /\ OccupyingOf(s)' \subseteq OwnersOf(s) \cup {r}
      BY <1>1, <1>2, FS_Subset DEF OwnersOf, OccupyingOf, Occupying
    <3>2. Cardinality(OwnersOf(s)) < MaxConcurrent[s] /\ MaxConcurrent[s] \in Nat
      BY <2>1 DEF Constants, SlotFree
    <3>3. Cardinality(OccupyingOf(s)') <= MaxConcurrent[s]
      BY <3>1, <3>2, OneMore
    <3> QED BY <3>3 DEF OccupyingOf
  <2>2. CASE s # SopOf[r]
    <3>1. /\ IsFiniteSet(OccupyingOf(s))
          /\ OccupyingOf(s)' \subseteq OccupyingOf(s)
      BY <1>1, <1>2, <2>2, FS_Subset DEF OccupyingOf, Occupying, TypeOK
    <3>2. Cardinality(OccupyingOf(s)) <= MaxConcurrent[s] /\ MaxConcurrent[s] \in Nat
      BY DEF Constants, SlotsWithinCaps, OccupyingOf
    <3>3. Cardinality(OccupyingOf(s)') <= MaxConcurrent[s]
      BY <3>1, <3>2, Smaller
    <3> QED BY <3>3 DEF OccupyingOf
  <2> QED BY <2>1, <2>2
<1>5. ASSUME NEW q \in Runs, status'[q] \in Owning
      PROVE  q \in slots'
  BY <1>1, <1>5 DEF Becomes, SlotsWithinCaps, TypeOK
<1> QED BY <1>3, <1>4, <1>5 DEF SlotsWithinCaps

\* A step of a run that occupies its slot already, or does not when it is done.
LEMMA TakesNone ==
  ASSUME Constants, TypeOK, SlotsWithinCaps, NEW r \in Runs, NEW next,
         Becomes(r, next), r \in Occupying \/ next \in Ended
  PROVE  SlotsWithinCaps'
<1>1. /\ status' = [status EXCEPT ![r] = next]
      /\ slots' \subseteq slots \cup {r}
      /\ slots \ {r} \subseteq slots'
      /\ next \in Ended => r \notin slots'
      /\ next \in Owning => r \in slots'
  BY DEF Becomes
<1>2. Occupying' \subseteq Occupying
  BY <1>1 DEF Occupying, TypeOK
<1>3. ASSUME NEW q \in Runs, status'[q] \in Owning
      PROVE  q \in slots'
  BY <1>1, <1>3 DEF SlotsWithinCaps, TypeOK
<1> QED BY <1>2, <1>3, NoneNew

LEMMA TypedStep ==
  ASSUME TypeOK, [Next]_vars
  PROVE  TypeOK'
<1> DEFINE Statuses == {"none"} \cup Owning \cup Waiting \cup Ended
<1>1. ASSUME NEW r \in Runs, NEW next \in Statuses, Becomes(r, next)
      PROVE  TypeOK'
  BY <1>1 DEF Becomes, TypeOK
<1>2. CASE \E r \in Runs : Reserve(r)
  BY <1>2 DEF Reserve, TypeOK
<1>3. CASE Sweep
  <2>1. slots' \subseteq slots
    BY <1>3 DEF Sweep
  <2>2. status' \in [Runs -> Statuses]
    BY <1>3 DEF Sweep, TypeOK
  <2> QED BY <2>1, <2>2 DEF TypeOK
<1>4. CASE Recover
  <2>1. slots' \subseteq slots
    BY <1>4 DEF Recover
  <2>2. status' \in [Runs -> Statuses]
    BY <1>4 DEF Recover, TypeOK, Ended
  <2> QED BY <2>1, <2>2 DEF TypeOK
<1>5. CASE UNCHANGED vars
  BY <1>5 DEF vars, TypeOK
<1>6. ASSUME NEW r \in Runs,
             Begin(r) \/ Work(r) \/ Resume(r) \/ Dismiss(r) \/ FinishCancelling(r)
      PROVE  \E next \in Statuses : Becomes(r, next)
  BY <1>6 DEF Begin, Work, Resume, Dismiss, FinishCancelling, Owning, Working, Ended
<1> QED BY <1>1, <1>2, <1>3, <1>4, <1>5, <1>6 DEF Next

LEMMA CapsStep ==
  ASSUME Constants, TypeOK, SlotsWithinCaps, [Next]_vars
  PROVE  SlotsWithinCaps'
<1>1. ASSUME NEW r \in Runs, Begin(r) \/ Resume(r)
      PROVE  SlotsWithinCaps'
  BY <1>1, TakesFree DEF Begin, Resume
<1>2. ASSUME NEW r \in Runs, Work(r)
      PROVE  SlotsWithinCaps'
  <2>1. r \in Occupying
    BY <1>2 DEF Work, Occupying, Working, Waiting
  <2> QED BY <1>2, <2>1, TakesNone DEF Work
<1>3. ASSUME NEW r \in Runs, Dismiss(r) \/ FinishCancelling(r)
      PROVE  SlotsWithinCaps'
  BY <1>3, TakesNone DEF Dismiss, FinishCancelling, Ended
<1>4. ASSUME NEW r \in Runs, Reserve(r)
      PROVE  SlotsWithinCaps'
  <2>1. Occupying' \subseteq Occupying
    BY <1>4 DEF Reserve, Occupying
  <2>2. \A q \in Runs : status'[q] \in Owning => q \in slots'
    BY <1>4 DEF Reserve, SlotsWithinCaps
  <2> QED BY <2>1, <2>2, NoneNew
<1>5. CASE Sweep
  <2>1. Occupying' \subseteq Occupying
    BY <1>5 DEF Sweep, Occupying, Ended, Waiting, TypeOK
  <2>2. \A q \in Runs : status'[q] \in Owning => q \in slots'
    BY <1>5 DEF Sweep, SlotsWithinCaps, Owning, Working, TypeOK
  <2> QED BY <2>1, <2>2, NoneNew
<1>6. CASE Recover
  <2>1. Occupying' \subseteq Occupying
    BY <1>6 DEF Recover, Occupying, Waiting, TypeOK
  <2>2. \A q \in Runs : status'[q] \in Owning => q \in slots'
    BY <1>6 DEF Recover, SlotsWithinCaps, Owning, Working, TypeOK
  <2> QED BY <2>1, <2>2, NoneNew
<1>7. CASE UNCHANGED vars
  BY <1>7 DEF vars, SlotsWithinCaps, Occupying
<1> QED BY <1>1, <1>2, <1>3, <1>4, <1>5, <1>6, <1>7 DEF Next

\* Whatever runs begin, wait, resume, end or are swept: whoever executes owns a slot,
\* and execution stays within the caps.
THEOREM WithinCaps ==
  ASSUME Constants
  PROVE  Spec => []SlotsWithinCaps
<1> DEFINE Inv == TypeOK /\ SlotsWithinCaps
<1>1. Init => Inv
  <2> SUFFICES ASSUME Init PROVE Inv
    OBVIOUS
  <2>1. TypeOK
    BY DEF Init, TypeOK
  <2>2. /\ Occupying = {}
        /\ \A s \in Sops : {r \in Occupying : SopOf[r] = s} = {}
    BY DEF Init, Occupying
  <2>3. SlotsWithinCaps
    BY <2>2, FS_EmptySet DEF Constants, SlotsWithinCaps, Init, Owning, Working
  <2> QED BY <2>1, <2>3
<1>2. Inv /\ [Next]_vars => Inv'
  BY TypedStep, CapsStep
<1> QED BY <1>1, <1>2, PTL DEF Spec

=============================================================================
