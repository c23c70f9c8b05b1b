-------------------------- MODULE StatusHistoryProofs --------------------------
(***************************************************************************)
(* The condition list keeps its promises for any buffer size and any number *)
(* of calls.                                                                *)
(***************************************************************************)
EXTENDS StatusHistory, SequenceTheorems, TLAPS

\* AddCondition, element by element: how much it drops, and where the rest goes;
\* the list never outgrows its buffer.
LEMMA AddConditionElements ==
    ASSUME NEW c \in ConditionList, NEW x \in Condition
    PROVE  LET kept == AddCondition(c, x)
               lost == IF Len(c) = MaxBuffer THEN 1 ELSE 0
           IN  /\ kept \in ConditionList
               /\ Len(kept) = Len(c) + 1 - lost
               /\ \A i \in 1 .. Len(kept) :
                     kept[i] = IF i + lost <= Len(c) THEN c[i + lost] ELSE x
<1> DEFINE size == Len(c) + 1
           lost == IF Len(c) = MaxBuffer THEN 1 ELSE 0
           longer == Append(c, x)
           kept == SubSeq(longer, lost + 1, size)
<1>1. c \in Seq(Condition) /\ Len(c) \in Nat /\ Len(c) <= MaxBuffer
  BY DEF ConditionList
<1>2. MaxBuffer \in Nat \ {0}
  BY MaxBufferAssumption DEF MaxBufferAssumption
<1>3. lost = IF size > MaxBuffer THEN size - MaxBuffer ELSE 0
  BY <1>1, <1>2
<1>4. lost \in Nat /\ size \in Nat /\ lost < size
  BY <1>1, <1>2
<1>5. AddCondition(c, x) = kept
  BY <1>3 DEF AddCondition
<1>6. /\ longer \in Seq(Condition) /\ Len(longer) = size
      /\ \A i \in 1 .. size : longer[i] = IF i <= Len(c) THEN c[i] ELSE x
  BY <1>1, AppendProperties
<1>7. /\ kept \in Seq(Condition) /\ Len(kept) = size - lost
      /\ \A i \in 1 .. size - lost : kept[i] = longer[i + lost]
  <2> HIDE DEF longer
  <2>1. \A i \in lost + 1 .. size : longer[i] \in Condition
    BY <1>6, <1>4, ElementOfSeq
  <2>2. lost + 1 \in Int /\ size \in Int
    BY <1>4
  <2> HIDE DEF lost, size
  <2>3. /\ kept \in Seq(Condition)
        /\ Len(kept) = IF lost + 1 <= size THEN size - (lost + 1) + 1 ELSE 0
        /\ \A i \in 1 .. size - (lost + 1) + 1 : kept[i] = longer[lost + 1 + i - 1]
    BY <2>1, <2>2, SubSeqProperties
  <2> QED
    BY <1>4, <2>3
<1>8. size - lost <= MaxBuffer
  BY <1>1, <1>2
<1> HIDE DEF kept, longer, lost
<1>9. kept \in ConditionList
  BY <1>7, <1>8 DEF ConditionList
<1>10. \A i \in 1 .. size - lost :
          kept[i] = IF i + lost <= Len(c) THEN c[i + lost] ELSE x
  BY <1>1, <1>4, <1>6, <1>7
<1> QED
  BY <1>5, <1>7, <1>9, <1>10 DEF lost

-----------------------------------------------------------------------------
\* One step of a setter: the condition goes to both lists, or to neither.
Recorded(x) ==
    /\ conditions' = AddCondition(conditions, x)
    /\ history' = Append(history, x)

LEMMA StepShape ==
    ASSUME Next
    PROVE  \/ UNCHANGED vars
           \/ \E x \in Condition :
                 /\ Recorded(x)
                 /\ x.type # "Failed" => x.type # LastType(conditions)
<1>1. Provisioning \in Condition /\ Deployed \in Condition
      /\ \A r \in Reasons : Failed(r) \in Condition
  BY DEF Condition
<1>2. CASE CallSetProvisioning
  BY <1>1, <1>2 DEF CallSetProvisioning, SetProvisioning, SetsProvisioning,
                    Record, Recorded, Provisioning, vars
<1>3. CASE CallSetDeployed
  BY <1>1, <1>3 DEF CallSetDeployed, SetDeployed, SetsDeployed,
                    Record, Recorded, Deployed, vars
<1>4. CASE CallSetFailed
  BY <1>1, <1>4 DEF CallSetFailed, SetFailed, Record, Recorded, Failed
<1> QED
  BY <1>2, <1>3, <1>4 DEF Next

\* The list never outgrows its buffer.
THEOREM ListTypeCorrect == Spec => []TypeOK
<1>1. Init => TypeOK
  BY MaxBufferAssumption DEF Init, TypeOK, ConditionList, MaxBufferAssumption
<1>2. TypeOK /\ [Next]_vars => TypeOK'
  <2> SUFFICES ASSUME TypeOK, Next PROVE TypeOK'
    BY DEF vars, TypeOK
  <2>1. CASE UNCHANGED vars
    BY <2>1 DEF vars, TypeOK
  <2>2. CASE \E x \in Condition : Recorded(x)
    BY <2>2, AddConditionElements DEF TypeOK, Recorded
  <2> QED
    BY <2>1, <2>2, StepShape
<1> QED
  BY <1>1, <1>2, PTL DEF Spec

\* The list is the newest end of the history (status.go's addCondition).
THEOREM ListKeepsNewest == Spec => []NewestConditionsKept
<1>1. Init => NewestConditionsKept
  BY MaxBufferAssumption DEF Init, NewestConditionsKept, MaxBufferAssumption
<1>2. TypeOK /\ NewestConditionsKept /\ [Next]_vars => NewestConditionsKept'
  <2> SUFFICES ASSUME TypeOK, NewestConditionsKept, [Next]_vars
               PROVE  NewestConditionsKept'
    OBVIOUS
  <2>1. CASE UNCHANGED vars
    BY <2>1 DEF vars, NewestConditionsKept
  <2>2. ASSUME NEW x \in Condition, Recorded(x)
        PROVE  NewestConditionsKept'
    <3> DEFINE lost == IF Len(conditions) = MaxBuffer THEN 1 ELSE 0
    <3>1. /\ conditions \in Seq(Condition) /\ Len(conditions) \in Nat
          /\ history \in Seq(Condition) /\ Len(history) \in Nat
          /\ MaxBuffer \in Nat \ {0}
      BY MaxBufferAssumption DEF TypeOK, ConditionList, MaxBufferAssumption
    <3>2. /\ Len(conditions') = Len(conditions) + 1 - lost
          /\ \A i \in 1 .. Len(conditions') : conditions'[i] =
                IF i + lost <= Len(conditions) THEN conditions[i + lost] ELSE x
      BY <2>2, AddConditionElements DEF Recorded, TypeOK
    <3>3. /\ Len(history') = Len(history) + 1
          /\ \A i \in 1 .. Len(history) : history'[i] = history[i]
          /\ history'[Len(history) + 1] = x
      BY <2>2, <3>1, AppendProperties DEF Recorded
    <3>4. /\ Len(conditions) = IF Len(history) < MaxBuffer
                               THEN Len(history) ELSE MaxBuffer
          /\ \A i \in 1 .. Len(conditions) :
                conditions[i] = history[Len(history) - Len(conditions) + i]
      BY DEF NewestConditionsKept
    <3>5. Len(conditions') = IF Len(history') < MaxBuffer
                             THEN Len(history') ELSE MaxBuffer
      <4>1. Len(conditions') = Len(conditions) + 1 - lost
        BY <3>2
      <4>2. Len(history') = Len(history) + 1
        BY <3>3
      <4>3. Len(conditions) = IF Len(history) < MaxBuffer
                              THEN Len(history) ELSE MaxBuffer
        BY <3>4
      <4>4. CASE Len(history) < MaxBuffer
        <5>1. lost = 0 /\ Len(conditions) = Len(history)
          BY <3>1, <4>3, <4>4
        <5> HIDE DEF lost
        <5> QED
          BY <3>1, <4>1, <4>2, <4>4, <5>1
      <4>5. CASE ~(Len(history) < MaxBuffer)
        <5>1. lost = 1 /\ Len(conditions) = MaxBuffer
          BY <3>1, <4>3, <4>5
        <5> HIDE DEF lost
        <5> QED
          BY <3>1, <4>1, <4>2, <4>5, <5>1
      <4> QED
        BY <4>4, <4>5
    <3>6. ASSUME NEW i \in 1 .. Len(conditions')
          PROVE  conditions'[i] = history'[Len(history') - Len(conditions') + i]
      <4>1. Len(history') - Len(conditions') + i
                = Len(history) - Len(conditions) + (i + lost)
        <5>1. Len(conditions') = Len(conditions) + 1 - lost
          BY <3>2
        <5>2. Len(history') = Len(history) + 1
          BY <3>3
        <5>3. i \in Int
          OBVIOUS
        <5> QED
          BY <3>1, <5>1, <5>2, <5>3
      <4>2. CASE i + lost <= Len(conditions)
        <5>1. conditions'[i] = conditions[i + lost]
          BY <3>2, <4>2
        <5>2. i + lost \in 1 .. Len(conditions)
          BY <3>1, <4>2
        <5>3. conditions[i + lost]
                  = history[Len(history) - Len(conditions) + (i + lost)]
          BY <3>4, <5>2
        <5>4. Len(history) - Len(conditions) + (i + lost) \in 1 .. Len(history)
          BY <3>1, <3>4, <5>2
        <5> QED
          BY <3>3, <4>1, <5>1, <5>3, <5>4
      <4>3. CASE ~(i + lost <= Len(conditions))
        <5>1. i + lost = Len(conditions) + 1
          BY <3>1, <3>2, <4>3
        <5>2. conditions'[i] = x
          BY <3>2, <4>3
        <5> QED
          BY <3>1, <3>3, <4>1, <5>1, <5>2
      <4> QED
        BY <4>2, <4>3
    <3> QED
      BY <3>5, <3>6 DEF NewestConditionsKept
  <2> QED
    BY <2>1, <2>2, StepShape
<1> QED
  BY <1>1, <1>2, ListTypeCorrect, PTL DEF Spec

\* No two neighbours are both Provisioning or both Deployed.
THEOREM ListNeverRepeats == Spec => []NoRepeatedTransition
<1>1. Init => NoRepeatedTransition
  BY DEF Init, NoRepeatedTransition
<1>2. TypeOK /\ NoRepeatedTransition /\ [Next]_vars => NoRepeatedTransition'
  <2> SUFFICES ASSUME TypeOK, NoRepeatedTransition, [Next]_vars
               PROVE  NoRepeatedTransition'
    OBVIOUS
  <2>1. CASE UNCHANGED vars
    BY <2>1 DEF vars, NoRepeatedTransition
  <2>2. ASSUME NEW x \in Condition, Recorded(x),
               x.type # "Failed" => x.type # LastType(conditions)
        PROVE  NoRepeatedTransition'
    <3> DEFINE lost == IF Len(conditions) = MaxBuffer THEN 1 ELSE 0
    <3>1. Len(conditions) \in Nat /\ MaxBuffer \in Nat \ {0}
      BY MaxBufferAssumption DEF TypeOK, ConditionList, MaxBufferAssumption
    <3>2. /\ Len(conditions') = Len(conditions) + 1 - lost
          /\ \A i \in 1 .. Len(conditions') : conditions'[i] =
                IF i + lost <= Len(conditions) THEN conditions[i + lost] ELSE x
      BY <2>2, AddConditionElements DEF Recorded, TypeOK
    <3>3. ASSUME NEW i \in 1 .. (Len(conditions') - 1),
                 conditions'[i].type = conditions'[i + 1].type
          PROVE  conditions'[i].type = "Failed"
      <4>1. i + lost \in 1 .. Len(conditions)
        BY <3>1, <3>2
      <4>2. conditions'[i] = conditions[i + lost]
        BY <3>1, <3>2, <4>1
      <4>3. CASE i + lost < Len(conditions)
        <5>1. conditions'[i + 1] = conditions[(i + lost) + 1]
          BY <3>1, <3>2, <4>3
        <5>2. i + lost \in 1 .. (Len(conditions) - 1)
          BY <3>1, <4>1, <4>3
        <5> QED
          BY <3>3, <4>2, <5>1, <5>2 DEF NoRepeatedTransition
      <4>4. CASE i + lost = Len(conditions)
        <5>1. conditions'[i + 1] = x
          BY <3>1, <3>2, <4>4
        <5>2. conditions # <<>> /\ conditions[i + lost].type = LastType(conditions)
          BY <3>1, <4>1, <4>4 DEF LastType
        <5> QED
          BY <2>2, <3>3, <4>2, <5>1, <5>2
      <4> QED
        BY <3>1, <4>1, <4>3, <4>4
    <3> QED
      BY <3>3 DEF NoRepeatedTransition
  <2> QED
    BY <2>1, <2>2, StepShape
<1> QED
  BY <1>1, <1>2, ListTypeCorrect, PTL DEF Spec
=============================================================================
