-------------------------- MODULE InputTypesProofs --------------------------
(***************************************************************************)
(* Proofs about InputTypes, for every schema and every list of variables:  *)
(* the walk of the input types ends with exactly the types in use, and the *)
(* structs generated have a finite size.                                   *)
(***************************************************************************)
EXTENDS InputTypes, NumberFacts, FiniteSetTheorems, SequenceTheorems, TLAPS

USE TypesAssumption, BoundsAssumption

\* A stack that loses its innermost call, or whose innermost call moves on.
LEMMA FrontType ==
    ASSUME NEW S, NEW s \in Seq(S), s # <<>>
    PROVE  /\ Front(s) \in Seq(S)
           /\ DOMAIN Front(s) = 1 .. Len(s) - 1
           /\ \A k \in 1 .. Len(s) - 1 : Front(s)[k] = s[k]
  BY SubSeqProperties DEF Front

LEMMA FieldsType ==
    ASSUME TypeOK, NEW i \in Input
    PROVE  /\ fields[i] \in Seq(Field)
           /\ \A j \in DOMAIN fields[i] : j \in Nat \ {0} /\ fields[i][j].id \in TypeId
  <1>1. PICK k \in 0 .. MaxFields : fields[i] \in [1 .. k -> Field]
    BY DEF TypeOK, AtMost
  <1>2. fields[i] \in Seq(Field) /\ DOMAIN fields[i] = 1 .. k
    BY <1>1
  <1>3. \A f \in Field : f.id \in TypeId
    BY DEF Field, TypeId
  <1> QED
    BY <1>1, <1>2, <1>3

LEMMA AdvancedType ==
    ASSUME TypeOK, stack # <<>>, ~Exhausted
    PROVE  /\ Top \in Frame
           /\ Top.at \in DOMAIN fields[Top.input]
           /\ TopField.id \in TypeId
           /\ Advanced \in Seq(Frame) /\ Len(Advanced) = Len(stack)
           /\ \A k \in DOMAIN stack : Advanced[k].input = stack[k].input
           /\ \A k \in DOMAIN stack : Advanced[k].at =
                  IF k = Len(stack) THEN stack[k].at + 1 ELSE stack[k].at
  <1>1. stack \in Seq(Frame) /\ Len(stack) \in DOMAIN stack
    BY DEF TypeOK
  <1>2. Top \in Frame
    BY <1>1 DEF Top
  <1>3. Top.input \in Input /\ Top.at \in Nat \ {0}
    BY <1>2 DEF Frame
  <1>4. Top.at \in DOMAIN fields[Top.input]
    BY <1>3, FieldsType DEF Exhausted
  <1>5. TopField.id \in TypeId
    BY <1>3, <1>4, FieldsType DEF TopField
  <1>6. /\ Advanced \in Seq(Frame) /\ Len(Advanced) = Len(stack)
        /\ \A k \in DOMAIN stack : Advanced[k] =
               IF k = Len(stack) THEN [input |-> Top.input, at |-> Top.at + 1] ELSE stack[k]
    <2>1. Advanced = [stack EXCEPT ![Len(stack)] = [input |-> Top.input, at |-> Top.at + 1]]
      <3>1. [Top EXCEPT !.at = @ + 1] = [input |-> Top.input, at |-> Top.at + 1]
        BY <1>2 DEF Frame
      <3>2. Advanced = [stack EXCEPT ![Len(stack)] = [Top EXCEPT !.at = @ + 1]]
        BY DEF Advanced, Top
      <3> QED
        BY <3>1, <3>2
    <2>2. [input |-> Top.input, at |-> Top.at + 1] \in Frame
      BY <1>3 DEF Frame
    <2> QED
      BY <1>1, <2>1, <2>2
  <1> QED
    BY <1>2, <1>4, <1>5, <1>6 DEF Top

LEMMA CallType == \A i \in Input : Call(i) \in Frame
  BY DEF Call, Frame

LEMMA TypeInit == Init => TypeOK
  BY DEF Init, TypeOK

LEMMA TypeNext ==
    ASSUME TypeOK, Checking, [Next]_vars
    PROVE  TypeOK'
  <1>0. stack \in Seq(Frame) /\ <<>> \in Seq(Frame)
    BY DEF TypeOK
  <1>1. CASE CollectVariable
    <2>1. variables[next] \in Variable
      BY <1>1 DEF CollectVariable, TypeOK, AtMost
    <2>2. used' \in SUBSET TypeId
      BY <1>1, <2>1 DEF CollectVariable, TypeOK, Variable
    <2>3. stack' \in Seq(Frame)
      <3>1. variables[next].type \in Input => <<Call(variables[next].type)>> \in Seq(Frame)
        BY CallType
      <3> QED
        BY <1>0, <1>1, <3>1 DEF CollectVariable
    <2> QED
      BY <1>1, <2>2, <2>3 DEF CollectVariable, TypeOK, schema, output
  <1>2. CASE VisitField
    <2>1. used' \in SUBSET TypeId
      BY <1>2, AdvancedType DEF VisitField, TypeOK
    <2>2. stack' \in Seq(Frame)
      BY <1>2, AdvancedType, CallType DEF VisitField
    <2> QED
      BY <1>2, <2>1, <2>2 DEF VisitField, TypeOK, schema, output
  <1>3. CASE VisitReturn
    <2>1. stack' \in Seq(Frame)
      BY <1>0, <1>3, FrontType DEF VisitReturn
    <2> QED
      BY <1>3, <2>1 DEF VisitReturn, TypeOK, schema, output
  <1>4. CASE Collected
    BY <1>4 DEF Collected, TypeOK, schema, output
  <1>5. CASE DecideField
    <2>1. PICK r \in Undecided :
              \/ TypeOf(r) \in Input /\ checking' = r /\ stack' = <<Call(TypeOf(r))>>
                     /\ UNCHANGED plain
              \/ plain' = plain \cup {r} /\ UNCHANGED <<checking, stack>>
      BY <1>5 DEF DecideField
    <2>2. r \in FieldRef
      BY DEF Undecided, Declared, FieldRef
    <2>3. TypeOf(r) \in Input => <<Call(TypeOf(r))>> \in Seq(Frame)
      BY CallType
    <2>4. /\ checking' \in FieldRef \cup {NoField}
          /\ plain' \in SUBSET FieldRef
          /\ stack' \in Seq(Frame)
      BY <1>0, <2>1, <2>2, <2>3 DEF TypeOK
    <2> QED
      BY <1>5, <2>4 DEF DecideField, TypeOK, schema
  <1>6. CASE ContainsSkip
    <2>1. stack' \in Seq(Frame)
      BY <1>6, AdvancedType DEF ContainsSkip
    <2> QED
      BY <1>6, <2>1 DEF ContainsSkip, TypeOK, schema, output
  <1>7. CASE ContainsFound
    <2>1. checking \in FieldRef
      BY <1>7 DEF ContainsFound, Checking
    <2> QED
      BY <1>0, <1>7, <2>1 DEF ContainsFound, TypeOK, schema
  <1>8. CASE ContainsDescend
    <2>1. stack' \in Seq(Frame)
      BY <1>8, AdvancedType, CallType DEF ContainsDescend
    <2> QED
      BY <1>8, <2>1 DEF ContainsDescend, TypeOK, schema, output
  <1>9. CASE ContainsReturn
    <2>1. stack' \in Seq(Frame)
      BY <1>0, <1>9, FrontType DEF ContainsReturn
    <2>2. checking \in FieldRef
      BY <1>9 DEF ContainsReturn, Checking
    <2>3. plain' \in SUBSET FieldRef /\ checking' \in FieldRef \cup {NoField}
      BY <1>9, <2>2 DEF ContainsReturn, TypeOK
    <2> QED
      BY <1>9, <2>1, <2>3 DEF ContainsReturn, TypeOK, schema
  <1>10. CASE Finish \/ StackOverflow
    BY <1>10 DEF Finish, StackOverflow, TypeOK, schema, output
  <1>11. CASE UNCHANGED vars
    BY <1>11 DEF vars, TypeOK, schema, output
  <1> QED
    BY <1>1, <1>2, <1>3, <1>4, <1>5, <1>6, <1>7, <1>8, <1>9, <1>10, <1>11 DEF Next

LEMMA CheckingNext ==
    ASSUME TypeOK, Checking, [Next]_vars
    PROVE  Checking'
  <1>1. CASE CollectVariable \/ VisitField \/ VisitReturn \/ Collected \/ Finish \/ StackOverflow
    BY <1>1 DEF CollectVariable, VisitField, VisitReturn, Collected, Finish, StackOverflow,
                Checking
  <1>2. CASE DecideField
    <2>1. fields' = fields
      BY <1>2 DEF DecideField, schema
    <2>2. PICK r \in Undecided : \/ TypeOf(r) \in Input /\ checking' = r
                                \/ UNCHANGED <<checking, stack>>
      BY <1>2 DEF DecideField
    <2>3. r \in FieldRef
      BY DEF Undecided, Declared, FieldRef
    <2> QED
      BY <1>2, <2>1, <2>2, <2>3 DEF DecideField, Checking, TypeOf
  <1>3. CASE ContainsSkip \/ ContainsFound \/ ContainsDescend
    BY <1>3 DEF ContainsSkip, ContainsFound, ContainsDescend, Checking, TypeOf, schema, output
  <1>4. CASE ContainsReturn
    <2>1. stack \in Seq(Frame) /\ stack # <<>>
      BY <1>4 DEF ContainsReturn, TypeOK
    <2>2. Front(stack) \in Seq(Frame) /\ DOMAIN Front(stack) = 1 .. Len(stack) - 1
      BY <2>1, FrontType
    <2>3. Len(stack) = 1 => stack' = <<>>
      BY <1>4, <2>1, <2>2 DEF ContainsReturn
    <2> QED
      BY <1>4, <2>3 DEF ContainsReturn, Checking, TypeOf, schema
  <1>5. CASE UNCHANGED vars
    BY <1>5 DEF vars, Checking, TypeOf, schema, output
  <1> QED
    BY <1>1, <1>2, <1>3, <1>4, <1>5 DEF Next

-----------------------------------------------------------------------------
\* Only the walk changes what is used, and only while it collects.
LEMMA CollectFrame ==
    ASSUME [Next]_vars
    PROVE  /\ UNCHANGED <<fields, variables>>
           /\ \/ CollectVariable \/ VisitField \/ VisitReturn \/ Collected
              \/ UNCHANGED <<phase, used, next, stack>>
              \/ phase # "collect" /\ phase' # "collect" /\ UNCHANGED <<used, next>>
  BY DEF Next, vars, CollectVariable, VisitField, VisitReturn, Collected, DecideField,
         ContainsSkip, ContainsFound, ContainsDescend, ContainsReturn, Finish, StackOverflow,
         schema, output

\* A field of a used input is accounted for: its type is used, or a call will come to it.
LEMMA OwedNext ==
    ASSUME TypeOK, Owed, [Next]_vars
    PROVE  Owed'
  <1> SUFFICES ASSUME NEW i \in used' \cap Input, NEW j \in DOMAIN fields[i],
                      fields[i][j].id \notin used'
               PROVE  /\ phase' = "collect"
                      /\ \E k \in DOMAIN stack' : stack'[k].input = i /\ stack'[k].at <= j
    BY CollectFrame DEF Owed
  <1>0. stack \in Seq(Frame) /\ j \in Nat \ {0}
    BY FieldsType DEF TypeOK
  <1>1. CASE CollectVariable
    <2>1. stack = <<>> /\ phase' = "collect" /\ used \subseteq used'
      BY <1>1 DEF CollectVariable
    <2>2. i \notin used
      BY <2>1 DEF Owed
    <2>3. variables[next].type = i /\ stack' = <<Call(i)>>
      BY <1>1, <2>2 DEF CollectVariable
    <2> QED
      BY <1>0, <2>1, <2>3 DEF Call
  <1>2. CASE VisitField
    <2>1. /\ phase' = "collect" /\ used' = used \cup {TopField.id}
          /\ \/ TopField.id \in Input \ used /\ stack' = Append(Advanced, Call(TopField.id))
             \/ TopField.id \notin Input \ used /\ stack' = Advanced
          /\ stack # <<>> /\ ~Exhausted
      BY <1>2 DEF VisitField
    <2>2. Advanced \in Seq(Frame) /\ Len(Advanced) = Len(stack)
      BY <2>1, AdvancedType
    <2>3. CASE i \in used
      <3>1. PICK k \in DOMAIN stack : stack[k].input = i /\ stack[k].at <= j
        BY <2>1, <2>3 DEF Owed
      <3>2. ~(k = Len(stack) /\ stack[k].at = j)
        BY <2>1, <3>1 DEF TopField, Top
      <3>3. stack[k].at \in Nat
        <4>1. stack[k] \in Frame
          BY <1>0, <3>1
        <4> QED
          BY <4>1 DEF Frame
      <3>4. Advanced[k].input = i /\ Advanced[k].at <= j
        BY <1>0, <2>1, <3>1, <3>2, <3>3, AdvancedType
      <3>5. k \in DOMAIN stack' /\ stack'[k] = Advanced[k]
        BY <1>0, <2>1, <2>2, CallType
      <3> QED
        BY <2>1, <3>4, <3>5
    <2>4. CASE i \notin used
      <3>1. i = TopField.id /\ stack' = Append(Advanced, Call(i))
        BY <2>1, <2>4
      <3>2. Len(stack) + 1 \in DOMAIN stack' /\ stack'[Len(stack) + 1] = Call(i)
        BY <1>0, <2>2, <3>1, CallType
      <3> QED
        BY <1>0, <2>1, <3>2 DEF Call
    <2> QED
      BY <2>3, <2>4
  <1>3. CASE VisitReturn
    <2>1. /\ phase' = "collect" /\ used' = used /\ stack' = Front(stack)
          /\ stack # <<>> /\ Exhausted
      BY <1>3 DEF VisitReturn
    <2>2. PICK k \in DOMAIN stack : stack[k].input = i /\ stack[k].at <= j
      BY <2>1 DEF Owed
    <2>3. k # Len(stack)
      <3>1. j <= Len(fields[i]) /\ stack[k].at \in Nat
        <4>1. stack[k] \in Frame /\ fields[i] \in Seq(Field)
          BY <1>0, <2>2, FieldsType
        <4> QED
          BY <4>1 DEF Frame
      <3> QED
        BY <1>0, <2>1, <2>2, <3>1, FieldsType DEF Exhausted, Top
    <2> QED
      BY <1>0, <2>1, <2>2, <2>3, FrontType
  <1>4. CASE Collected
    BY <1>4 DEF Collected, Owed
  <1>5. CASE UNCHANGED <<phase, used, next, stack>>
    BY <1>5 DEF Owed
  <1>6. CASE phase # "collect" /\ phase' # "collect" /\ UNCHANGED <<used, next>>
    BY <1>6 DEF Owed
  <1> QED
    BY <1>1, <1>2, <1>3, <1>4, <1>5, <1>6, CollectFrame

\* Every variable of the operation before the next one has given its type.
LEMMA RootsNext ==
    ASSUME TypeOK, RootsOwed, [Next]_vars
    PROVE  RootsOwed'
  <1> SUFFICES ASSUME NEW v \in DOMAIN variables, variables[v].ours,
                      variables[v].type \notin used'
               PROVE  phase' = "collect" /\ v >= next'
    BY CollectFrame DEF RootsOwed
  <1>0. DOMAIN variables \subseteq Nat /\ next \in Nat
    BY DEF TypeOK, AtMost
  <1>1. CASE CollectVariable
    BY <1>0, <1>1 DEF CollectVariable, RootsOwed
  <1>2. CASE VisitField \/ VisitReturn
    BY <1>2 DEF VisitField, VisitReturn, RootsOwed
  <1>3. CASE Collected
    <2>1. \E k \in Nat : DOMAIN variables = 1 .. k
      BY DEF TypeOK, AtMost
    <2>2. next \in Nat \ {0}
      BY DEF TypeOK
    <2> QED
      BY <1>3, <2>1, <2>2 DEF Collected, RootsOwed
  <1>4. CASE UNCHANGED <<phase, used, next, stack>>
    BY <1>4 DEF RootsOwed
  <1>5. CASE phase # "collect" /\ phase' # "collect" /\ UNCHANGED <<used, next>>
    BY <1>5 DEF RootsOwed
  <1> QED
    BY <1>1, <1>2, <1>3, <1>4, <1>5, CollectFrame

\* An input is in the set before its fields are looked at.
LEMMA WalkedNext ==
    ASSUME TypeOK, Walked, [Next]_vars
    PROVE  Walked'
  <1> SUFFICES ASSUME phase' = "collect", NEW k \in DOMAIN stack'
               PROVE  stack'[k].input \in used'
    BY DEF Walked
  <1>0. stack \in Seq(Frame)
    BY DEF TypeOK
  <1>1. CASE CollectVariable
    BY <1>0, <1>1, CallType DEF CollectVariable, Call
  <1>2. CASE VisitField
    <2>1. /\ used' = used \cup {TopField.id}
          /\ \/ TopField.id \in Input /\ stack' = Append(Advanced, Call(TopField.id))
             \/ stack' = Advanced
          /\ phase = "collect" /\ stack # <<>> /\ ~Exhausted
      BY <1>2 DEF VisitField
    <2>2. Advanced \in Seq(Frame) /\ Len(Advanced) = Len(stack)
      BY <2>1, AdvancedType
    <2>3. CASE k \in DOMAIN stack
      <3>1. stack'[k] = Advanced[k]
        BY <1>0, <2>1, <2>2, <2>3, CallType
      <3> QED
        BY <1>0, <2>1, <2>3, <3>1, AdvancedType DEF Walked
    <2>4. CASE k \notin DOMAIN stack
      <3>1. stack'[k] = Call(TopField.id)
        BY <1>0, <2>1, <2>2, <2>4, CallType
      <3> QED
        BY <2>1, <3>1 DEF Call
    <2> QED
      BY <2>3, <2>4
  <1>3. CASE VisitReturn
    BY <1>0, <1>3, FrontType DEF VisitReturn, Walked
  <1>4. CASE Collected
    BY <1>4 DEF Collected
  <1>5. CASE UNCHANGED <<phase, used, next, stack>>
    BY <1>5 DEF Walked
  <1> QED
    BY <1>1, <1>2, <1>3, <1>4, <1>5, CollectFrame

\* The walk stays inside every closed set that holds the types of the variables.
LEMMA NothingNext ==
    ASSUME TypeOK, Walked, NothingUnused, [Next]_vars
    PROVE  NothingUnused'
  <1> SUFFICES ASSUME NEW S \in SUBSET TypeId, Roots \subseteq S, Closed(S)
               PROVE  used' \subseteq S
    BY CollectFrame DEF NothingUnused, Roots, Closed, FieldTypes
  <1>0. used \subseteq S
    BY DEF NothingUnused
  <1>1. CASE CollectVariable
    BY <1>0, <1>1 DEF CollectVariable, Roots
  <1>2. CASE VisitField
    <2>1. /\ used' = used \cup {TopField.id}
          /\ phase = "collect" /\ stack # <<>> /\ ~Exhausted
      BY <1>2 DEF VisitField
    <2>2. Top.input \in used \cap Input
      <3>1. Len(stack) \in DOMAIN stack
        BY <2>1 DEF TypeOK
      <3>2. Top.input \in Input
        BY <2>1, AdvancedType DEF Frame
      <3> QED
        BY <2>1, <3>1, <3>2 DEF Walked, Top
    <2>3. TopField.id \in FieldTypes(Top.input)
      BY <2>1, AdvancedType DEF FieldTypes, TopField
    <2> QED
      BY <1>0, <2>1, <2>2, <2>3 DEF Closed
  <1>3. CASE UNCHANGED used
    BY <1>0, <1>3
  <1> QED
    BY <1>1, <1>2, <1>3, CollectFrame DEF VisitReturn, Collected

\* An input on the stack is used, and an input in the set is not walked again.
LEMMA OnceNext ==
    ASSUME TypeOK, Walked, WalksOnce, [Next]_vars
    PROVE  WalksOnce'
  <1> SUFFICES ASSUME phase' = "collect", NEW k \in DOMAIN stack', NEW l \in DOMAIN stack',
                      stack'[k].input = stack'[l].input
               PROVE  k = l
    BY DEF WalksOnce
  <1>0. stack \in Seq(Frame)
    BY DEF TypeOK
  <1>1. CASE CollectVariable
    BY <1>0, <1>1 DEF CollectVariable
  <1>2. CASE VisitField
    <2>1. /\ \/ TopField.id \in Input \ used /\ stack' = Append(Advanced, Call(TopField.id))
             \/ stack' = Advanced
          /\ phase = "collect" /\ stack # <<>> /\ ~Exhausted
      BY <1>2 DEF VisitField
    <2>2. /\ Advanced \in Seq(Frame) /\ Len(Advanced) = Len(stack)
          /\ \A m \in DOMAIN stack : Advanced[m].input = stack[m].input
      BY <2>1, AdvancedType
    <2>3. ASSUME NEW m \in DOMAIN stack'
          PROVE  \/ m \in DOMAIN stack /\ stack'[m].input = stack[m].input
                                      /\ stack'[m].input \in used
                 \/ m = Len(stack) + 1 /\ stack'[m].input \notin used
      <3>1. CASE m \in DOMAIN stack
        <4>1. stack'[m] = Advanced[m]
          BY <1>0, <2>1, <2>2, <3>1, CallType
        <4> QED
          BY <2>1, <2>2, <3>1, <4>1 DEF Walked
      <3>2. CASE m \notin DOMAIN stack
        <4>1. /\ m = Len(stack) + 1 /\ TopField.id \notin used
              /\ stack'[m] = Call(TopField.id)
          BY <1>0, <2>1, <2>2, <3>2, CallType
        <4> QED
          BY <4>1 DEF Call
      <3> QED
        BY <3>1, <3>2
    <2> QED
      BY <2>1, <2>3 DEF WalksOnce
  <1>3. CASE VisitReturn
    BY <1>0, <1>3, FrontType DEF VisitReturn, WalksOnce
  <1>4. CASE Collected
    BY <1>4 DEF Collected
  <1>5. CASE UNCHANGED <<phase, used, next, stack>>
    BY <1>5 DEF WalksOnce
  <1> QED
    BY <1>1, <1>2, <1>3, <1>4, <1>5, CollectFrame

-----------------------------------------------------------------------------
LEMMA WalkInit == Init => WalkInv
  BY TypeInit DEF Init, WalkInv, Checking, Owed, RootsOwed, Walked, WalksOnce, NothingUnused

LEMMA WalkNext == WalkInv /\ [Next]_vars => WalkInv'
  BY TypeNext, CheckingNext, OwedNext, RootsNext, WalkedNext, OnceNext, NothingNext
  DEF WalkInv

LEMMA WalkInvariance == Spec => []WalkInv
  BY WalkInit, WalkNext, PTL DEF Spec

\* Whatever the schema, the calls in progress are about inputs of it, and the fields decided
\* are fields of theirs: the walks never ask the schema for what it has not.
THEOREM WalksAreTyped == Spec => []TypeOK
  <1>1. WalkInv => TypeOK
    BY DEF WalkInv
  <1> QED
    BY <1>1, WalkInvariance, PTL

\* Every type the generated module names is one it defines: all_used_types collects the
\* variables' types and, through used_input_ids_recursive, all that their fields name.
THEOREM UsedClosed == Spec => []UsedIsClosed
  <1>1. WalkInv => UsedIsClosed
    BY DEF WalkInv, Owed, RootsOwed, UsedIsClosed, Roots, Closed, FieldTypes
  <1> QED
    BY <1>1, WalkInvariance, PTL

\* The walk is never in the same input twice, so that recursive input types end it.
THEOREM WalkIsFlat == Spec => []WalksOnce
  <1>1. WalkInv => WalksOnce
    BY DEF WalkInv
  <1> QED
    BY <1>1, WalkInvariance, PTL

\* It defines nothing the operation's variables do not lead to.
THEOREM UsedMinimal == Spec => []NothingUnused
  <1>1. WalkInv => NothingUnused
    BY DEF WalkInv
  <1> QED
    BY <1>1, WalkInvariance, PTL

\* A step of the walk is a step of the search or none: a type is inserted only when a
\* variable or a type inserted before names it, and the end leaves none out.
LEMMA WalkStep ==
    ASSUME WalkInv, WalkInv', [Next]_vars
    PROVE  [Search!Next]_(Search!vars)
  <1> DEFINE Refs == [t \in TypeId |-> IF t \in Input THEN FieldTypes(t) ELSE {}]
             Reached == Roots \cup UNION {Refs[t] : t \in used}
  <1>0. used \subseteq TypeId /\ UNCHANGED <<Roots, Refs>>
    BY CollectFrame DEF WalkInv, TypeOK, Roots, FieldTypes
  <1>1. ASSUME NEW t \in Reached, used' = used \cup {t}, phase = "collect", phase' = phase
        PROVE  Search!Reach \/ UNCHANGED (Search!vars)
    BY <1>0, <1>1 DEF Search!Reach, Search!Referred, Search!vars
  <1>2. CASE UNCHANGED <<phase, used>>
    BY <1>0, <1>2 DEF Search!vars
  <1>3. CASE CollectVariable
    <2>1. CASE variables[next].ours
      <3>1. /\ used' = used \cup {variables[next].type}
            /\ phase = "collect" /\ phase' = phase
        BY <1>3, <2>1 DEF CollectVariable
      <3>2. variables[next].type \in Reached
        BY <1>3, <2>1 DEF CollectVariable, Roots
      <3> QED
        BY <1>1, <3>1, <3>2 DEF Search!Next
    <2> QED
      BY <1>2, <1>3, <2>1 DEF CollectVariable, Search!Next
  <1>4. CASE VisitField
    <2>1. /\ used' = used \cup {TopField.id}
          /\ phase = "collect" /\ phase' = phase /\ stack # <<>> /\ ~Exhausted
      BY <1>4 DEF VisitField
    <2>2. Top.input \in used \cap Input
      <3>1. Len(stack) \in DOMAIN stack
        BY <2>1 DEF WalkInv, TypeOK
      <3>2. Top.input \in Input
        BY <2>1, AdvancedType DEF WalkInv, Frame
      <3> QED
        BY <2>1, <3>1, <3>2 DEF WalkInv, Walked, Top
    <2>3. TopField.id \in FieldTypes(Top.input)
      BY <2>1, AdvancedType DEF WalkInv, FieldTypes, TopField
    <2>4. TopField.id \in Reached
      BY <1>0, <2>2, <2>3
    <2> QED
      BY <1>1, <2>1, <2>4 DEF Search!Next
  <1>5. CASE Collected
    <2>1. Roots \subseteq used
      BY <1>5 DEF WalkInv, RootsOwed, Collected, Roots, TypeOK, AtMost
    <2>2. \A i \in used \cap Input : FieldTypes(i) \subseteq used
      BY <1>5 DEF WalkInv, Owed, Collected, FieldTypes
    <2>3. Reached \subseteq used
      BY <1>0, <2>1, <2>2
    <2> QED
      BY <1>0, <1>5, <2>3 DEF Collected, Search!Next, Search!Finish, Search!Referred
  <1>6. CASE phase # "collect" /\ phase' # "collect" /\ UNCHANGED used
    BY <1>0, <1>6 DEF Search!vars
  <1> QED
    BY <1>1, <1>2, <1>3, <1>4, <1>5, <1>6, CollectFrame DEF VisitReturn, Search!Next

\* all_used_types implements the search of a graph: what ReachableProofs proves of every
\* search holds of it, whatever the schema and the variables.
THEOREM WalkImplementsSearch == Spec => WalkSearches
  <1>1. Init => Search!Init
    BY DEF Init, Search!Init
  <1>2. WalkInv /\ WalkInv' /\ [Next]_vars => [Search!Next]_(Search!vars)
    BY WalkStep
  <1> QED
    BY <1>1, <1>2, WalkInvariance, PTL DEF Spec, WalkSearches, Search!Spec

\* A path goes on along a field.
LEMMA PathGoesOn ==
    ASSUME NEW t \in Input, Search!LedTo(t), NEW u \in FieldTypes(t)
    PROVE  Search!LedTo(u)
  <1>1. PICK N, p : N \in Nat /\ Search!IsPath(p, N) /\ p[N] = t
    BY DEF Search!LedTo
  <1> DEFINE q == [k \in 0 .. N + 1 |-> IF k = N + 1 THEN u ELSE p[k]]
  <1>2. q[N + 1] = u /\ \A k \in 0 .. N : q[k] = p[k]
    BY <1>1
  <1> HIDE DEF q
  <1>3. q[0] \in Roots
    BY <1>1, <1>2 DEF Search!IsPath
  <1>4. ASSUME NEW k \in 1 .. N + 1
        PROVE  q[k] \in [v \in TypeId |-> IF v \in Input THEN FieldTypes(v) ELSE {}][q[k - 1]]
    <2>1. CASE k = N + 1
      <3>1. q[k - 1] = t /\ q[k] = u /\ t \in TypeId
        BY <1>1, <1>2, <2>1 DEF TypeId
      <3> QED
        BY <3>1
    <2>2. CASE k # N + 1
      <3>1. k \in 1 .. N /\ k \in 0 .. N /\ k - 1 \in 0 .. N
        BY <1>1, <1>4, <2>2
      <3> QED
        BY <1>1, <1>2, <3>1 DEF Search!IsPath
    <2> QED
      BY <2>1, <2>2
  <1>5. Search!IsPath(q, N + 1)
    BY <1>3, <1>4 DEF Search!IsPath
  <1>6. N + 1 \in Nat
    BY <1>1
  <1> QED
    BY <1>2, <1>5, <1>6 DEF Search!LedTo

\* The generated module defines exactly the types that a path of fields leads to from a
\* variable of the operation, through whatever cycles: what all_used_types leaves out is
\* named by nothing that is generated (query.rs, schema.rs:383).
UsedIsLedTo == phase # "collect" => \A t \in TypeId : t \in used <=> Search!LedTo(t)

THEOREM WalkFindsWhatIsLedTo == Spec => []UsedIsLedTo
  <1>1. ASSUME TypeOK, UsedIsClosed, NothingUnused
        PROVE  UsedIsLedTo
    <2> SUFFICES ASSUME phase # "collect", NEW t \in TypeId
                 PROVE  t \in used <=> Search!LedTo(t)
      BY DEF UsedIsLedTo
    <2>0. /\ Roots \subseteq used /\ Closed(used) /\ used \subseteq TypeId
          /\ \A i \in Input : FieldTypes(i) \subseteq TypeId
      <3>1. ASSUME NEW i \in Input, NEW j \in DOMAIN fields[i]
            PROVE  fields[i][j].id \in TypeId
        <4>1. fields[i] \in AtMost(MaxFields, Field)
          BY <1>1 DEF TypeOK
        <4>2. fields[i][j] \in Field
          BY <4>1 DEF AtMost
        <4> QED
          BY <4>2 DEF Field, TypeId
      <3> QED
        BY <1>1, <3>1 DEF UsedIsClosed, TypeOK, FieldTypes
    <2>1. ASSUME t \in used
          PROVE  Search!LedTo(t)
      <3> DEFINE S == {u \in TypeId : Search!LedTo(u)}
      <3>1. ASSUME NEW u \in Roots
            PROVE  Search!LedTo(u)
        <4>1. Search!IsPath([k \in 0 .. 0 |-> u], 0) /\ [k \in 0 .. 0 |-> u][0] = u
          BY DEF Search!IsPath
        <4> QED
          BY <4>1 DEF Search!LedTo
      <3>2. Roots \subseteq S
        BY <2>0, <3>1
      <3>3. Closed(S)
        BY <2>0, PathGoesOn DEF Closed
      <3>4. used \subseteq S
        <4> HIDE DEF S
        <4>1. S \subseteq TypeId
          BY DEF S
        <4> QED
          BY <1>1, <3>2, <3>3, <4>1 DEF NothingUnused
      <3> QED
        BY <2>1, <3>4
    <2>2. ASSUME Search!LedTo(t)
          PROVE  t \in used
      <3>1. PICK N, p : N \in Nat /\ Search!IsPath(p, N) /\ p[N] = t
        BY <2>2 DEF Search!LedTo
      <3> DEFINE P == {k \in 0 .. N : p[k] \in used}
      <3>2. 0 \in P
        BY <2>0, <3>1 DEF Search!IsPath
      <3>3. ASSUME NEW k \in 0 .. N - 1, k \in P
            PROVE  k + 1 \in P
        <4>1. k + 1 \in 1 .. N /\ k + 1 - 1 = k /\ k + 1 \in 0 .. N /\ p[k] \in used
          BY <3>1, <3>3
        <4>2. p[k + 1] \in IF p[k] \in Input THEN FieldTypes(p[k]) ELSE {}
          <5>1. p[k] \in TypeId
            BY <2>0, <4>1
          <5>2. p[k + 1] \in [v \in TypeId |-> IF v \in Input THEN FieldTypes(v) ELSE {}][p[k]]
            BY <3>1, <4>1 DEF Search!IsPath
          <5> QED
            BY <5>1, <5>2
        <4> QED
          BY <2>0, <4>1, <4>2 DEF Closed
      <3>4. 0 .. N \subseteq P
        <4> HIDE DEF P
        <4> QED
          BY <3>1, <3>2, <3>3, IntervalInduction
      <3> QED
        BY <3>1, <3>4
    <2> QED
      BY <2>1, <2>2
  <1> QED
    BY <1>1, WalksAreTyped, UsedClosed, UsedMinimal, PTL

-----------------------------------------------------------------------------
\* The question is passed on only along fields held by value.
LEMMA DescendedNext ==
    ASSUME TypeOK, Descended, [Next]_vars
    PROVE  Descended'
  <1>0. stack \in Seq(Frame) /\ fields' = fields
    BY CollectFrame DEF TypeOK
  <1>1. CASE DecideField
    <2> SUFFICES ASSUME stack' # <<>>, NEW S \in SUBSET Input,
                        HoldsAllOf(fields, S, fields[checking'[1]][checking'[2]].id),
                        NEW k \in DOMAIN stack'
                 PROVE  ByValue(fields, stack'[k].input) \cap Input \subseteq S
      BY <1>0 DEF Descended, TypeOf
    <2>1. PICK r \in Undecided :
              \/ TypeOf(r) \in Input /\ checking' = r /\ stack' = <<Call(TypeOf(r))>>
              \/ UNCHANGED <<checking, stack>>
      BY <1>1 DEF DecideField
    <2>2. CASE checking' = r /\ stack' = <<Call(TypeOf(r))>>
      <3>1. k = 1 /\ stack'[k].input = TypeOf(r)
        BY <2>2 DEF Call
      <3>2. HoldsAllOf(fields, S, TypeOf(r))
        BY <2>2 DEF TypeOf
      <3> QED
        BY <3>1, <3>2 DEF HoldsAllOf
    <2>3. CASE UNCHANGED <<checking, stack>>
      BY <1>1, <2>3 DEF DecideField, Descended, TypeOf
    <2> QED
      BY <2>1, <2>2, <2>3
  <1>2. CASE ContainsSkip \/ ContainsReturn \/ ContainsDescend
    <2>0. phase = "generate" /\ stack # <<>>
      BY <1>2 DEF ContainsSkip, ContainsReturn, ContainsDescend
    <2> SUFFICES ASSUME stack' # <<>>, NEW S \in SUBSET Input,
                        HoldsAllOf(fields, S, fields[checking'[1]][checking'[2]].id),
                        NEW k \in DOMAIN stack'
                 PROVE  ByValue(fields, stack'[k].input) \cap Input \subseteq S
      BY <1>0 DEF Descended, TypeOf
    <2>1. CASE ContainsSkip
      <3>1. stack' = Advanced /\ checking' = checking /\ ~Exhausted
        BY <2>1 DEF ContainsSkip, output
      <3> QED
        BY <1>0, <2>0, <3>1, AdvancedType DEF Descended, TypeOf
    <2>2. CASE ContainsReturn
      <3>1. stack' = Front(stack)
        BY <2>2 DEF ContainsReturn
      <3>2. Len(stack) # 1
        BY <1>0, <2>0, <3>1, FrontType
      <3>3. checking' = checking
        BY <2>2, <3>2 DEF ContainsReturn
      <3> QED
        BY <1>0, <2>0, <3>1, <3>3, FrontType DEF Descended, TypeOf
    <2>3. CASE ContainsDescend
      <3>1. /\ stack' = Append(Advanced, Call(TopField.id)) /\ checking' = checking
            /\ ~Exhausted /\ ~TopField.indirected /\ TopField.id \in Input
        BY <2>3 DEF ContainsDescend, output
      <3>2. /\ Advanced \in Seq(Frame) /\ Len(Advanced) = Len(stack)
            /\ \A m \in DOMAIN stack : Advanced[m].input = stack[m].input
        BY <2>0, <3>1, AdvancedType
      <3>3. CASE k \in DOMAIN stack
        <4>1. stack'[k].input = stack[k].input
          BY <1>0, <3>1, <3>2, <3>3, CallType
        <4> QED
          BY <2>0, <3>1, <3>3, <4>1 DEF Descended, TypeOf
      <3>4. CASE k \notin DOMAIN stack
        <4>1. stack'[k].input = TopField.id
          BY <1>0, <3>1, <3>2, <3>4, CallType DEF Call
        <4>2. TopField.id \in ByValue(fields, Top.input)
          BY <2>0, <3>1, AdvancedType DEF ByValue, TopField
        <4>3. Len(stack) \in DOMAIN stack
          BY <1>0, <2>0
        <4>4. TopField.id \in S
          BY <2>0, <3>1, <4>2, <4>3 DEF Descended, TypeOf, Top
        <4> QED
          BY <4>1, <4>4, <3>1 DEF HoldsAllOf
      <3> QED
        BY <3>3, <3>4
    <2> QED
      BY <1>2, <2>1, <2>2, <2>3
  <1>3. CASE ContainsFound
    BY <1>3 DEF ContainsFound, Descended
  <1>4. CASE CollectVariable \/ VisitField \/ VisitReturn \/ Collected \/ Finish \/ StackOverflow
    BY <1>4 DEF CollectVariable, VisitField, VisitReturn, Collected, Finish, StackOverflow,
                Descended
  <1>5. CASE UNCHANGED vars
    BY <1>0, <1>5 DEF vars, output, Descended, TypeOf
  <1> QED
    BY <1>1, <1>2, <1>3, <1>4, <1>5 DEF Next

\* The field found is held by value by an input that the type in question holds.
LEMMA BoxedNext ==
    ASSUME TypeOK, Checking, Descended, BoxedOnlyIfRecursive, [Next]_vars
    PROVE  BoxedOnlyIfRecursive'
  <1>0. fields' = fields /\ stack \in Seq(Frame)
    BY CollectFrame DEF TypeOK
  <1>1. CASE boxed' = boxed
    BY <1>0, <1>1 DEF BoxedOnlyIfRecursive, TypeOf
  <1>2. CASE ContainsFound
    <2> SUFFICES ASSUME NEW r \in boxed', NEW S \in SUBSET Input,
                        HoldsAllOf(fields, S, TypeOf(r))
                 PROVE  TypeOf(r) \in S
      BY <1>0 DEF BoxedOnlyIfRecursive, TypeOf
    <2>1. CASE r \in boxed
      BY <2>1 DEF BoxedOnlyIfRecursive
    <2>2. CASE r = checking
      <3>1. /\ phase = "generate" /\ stack # <<>> /\ ~Exhausted
            /\ ~TopField.indirected /\ TopField.id = TypeOf(checking)
        BY <1>2 DEF ContainsFound
      <3>2. TopField.id \in ByValue(fields, Top.input)
        BY <3>1, AdvancedType DEF ByValue, TopField
      <3>3. Len(stack) \in DOMAIN stack
        BY <1>0, <3>1
      <3>4. TopField.id \in Input
        BY <3>1 DEF Checking
      <3> QED
        BY <2>2, <3>1, <3>2, <3>3, <3>4 DEF Descended, Top
    <2> QED
      BY <1>2, <2>1, <2>2 DEF ContainsFound
  <1> QED
    BY <1>1, <1>2 DEF Next, vars, CollectVariable, VisitField, VisitReturn, Collected,
        DecideField, ContainsSkip, ContainsDescend, ContainsReturn, Finish, StackOverflow, output

LEMMA BoxInvariance == Spec => []BoxInv
  <1>1. Init => BoxInv
    BY TypeInit DEF Init, BoxInv, Checking, Descended, BoxedOnlyIfRecursive
  <1>2. BoxInv /\ [Next]_vars => BoxInv'
    BY TypeNext, CheckingNext, DescendedNext, BoxedNext DEF BoxInv
  <1> QED
    BY <1>1, <1>2, PTL DEF Spec

\* input_is_recursive_without_indirection answers true only of a type that does hold
\* itself by value: no other field is boxed.
THEOREM BoxedSound == Spec => []BoxedOnlyIfRecursive
  <1>1. BoxInv => BoxedOnlyIfRecursive
    BY DEF BoxInv
  <1> QED
    BY <1>1, BoxInvariance, PTL

-----------------------------------------------------------------------------
\* The steps of one question.  The field at hand is put behind: it is passed over, or its
\* input is asked next.
LEMMA NotFoundSkip ==
    ASSUME TypeOK, NEW t, NotFound(stack, t), stack # <<>>, ~Exhausted,
           TopField.indirected \/ TopField.id \notin Input
    PROVE  NotFound(Advanced, t)
  <1>1. /\ Advanced \in Seq(Frame) /\ Len(Advanced) = Len(stack) /\ stack \in Seq(Frame)
        /\ \A k \in DOMAIN stack : Advanced[k].input = stack[k].input
        /\ \A k \in DOMAIN stack : Advanced[k].at =
               IF k = Len(stack) THEN stack[k].at + 1 ELSE stack[k].at
    BY AdvancedType DEF TypeOK
  <1>2. PICK S \in SUBSET (Input \ {t}) :
              /\ \A i \in S : ByValue(fields, i) \cap Input \subseteq S
              /\ \A k \in DOMAIN stack : Past(stack, k, S)
    BY DEF NotFound
  <1>3. \A k \in DOMAIN stack : stack[k].input \in Input /\ stack[k].at \in Nat
    <2>1. \A k \in DOMAIN stack : stack[k] \in Frame
      BY <1>1
    <2> QED
      BY <2>1 DEF Frame
  <1>4. ASSUME NEW k \in DOMAIN Advanced
        PROVE  Past(Advanced, k, S)
    <2> SUFFICES ASSUME NEW j \in DOMAIN fields[stack[k].input], j < Advanced[k].at
                 PROVE  LET f == fields[stack[k].input][j] IN
                        \/ f.indirected \/ f.id \notin Input \/ f.id \in S
                        \/ k < Len(stack) /\ j = stack[k].at - 1 /\ f.id = stack[k + 1].input
      BY <1>1 DEF Past
    <2>1. j \in Nat
      BY <1>1, <1>3, FieldsType
    <2>2. CASE j < stack[k].at
      BY <1>1, <1>2, <2>2 DEF Past
    <2>3. CASE k = Len(stack) /\ j = stack[k].at
      BY <2>3 DEF TopField, Top
    <2> QED
      BY <1>1, <1>3, <2>1, <2>2, <2>3
  <1>5. \A k \in DOMAIN Advanced : Advanced[k].input = t <=> k = 1
    BY <1>1 DEF NotFound
  <1> QED
    BY <1>2, <1>4, <1>5 DEF NotFound

LEMMA NotFoundDescend ==
    ASSUME TypeOK, NEW t, NotFound(stack, t), stack # <<>>, ~Exhausted,
           TopField.id \in Input \ {t}
    PROVE  NotFound(Append(Advanced, Call(TopField.id)), t)
  <1> DEFINE deeper == Append(Advanced, Call(TopField.id))
  <1>1. /\ Advanced \in Seq(Frame) /\ Len(Advanced) = Len(stack) /\ stack \in Seq(Frame)
        /\ \A k \in DOMAIN stack : Advanced[k].input = stack[k].input
        /\ \A k \in DOMAIN stack : Advanced[k].at =
               IF k = Len(stack) THEN stack[k].at + 1 ELSE stack[k].at
    BY AdvancedType DEF TypeOK
  <1>2. PICK S \in SUBSET (Input \ {t}) :
              /\ \A i \in S : ByValue(fields, i) \cap Input \subseteq S
              /\ \A k \in DOMAIN stack : Past(stack, k, S)
    BY DEF NotFound
  <1>3. \A k \in DOMAIN stack : stack[k].input \in Input /\ stack[k].at \in Nat
    <2>1. \A k \in DOMAIN stack : stack[k] \in Frame
      BY <1>1
    <2> QED
      BY <2>1 DEF Frame
  <1>4. /\ Len(deeper) = Len(stack) + 1 /\ DOMAIN deeper = 1 .. Len(stack) + 1
        /\ \A k \in DOMAIN stack : deeper[k] = Advanced[k]
        /\ deeper[Len(stack) + 1] = Call(TopField.id)
    BY <1>1, CallType
  <1>5. ASSUME NEW k \in DOMAIN stack
        PROVE  Past(deeper, k, S)
    <2> SUFFICES ASSUME NEW j \in DOMAIN fields[stack[k].input], j < Advanced[k].at
                 PROVE  LET f == fields[stack[k].input][j] IN
                        \/ f.indirected \/ f.id \notin Input \/ f.id \in S
                        \/ k < Len(deeper) /\ j = Advanced[k].at - 1 /\ f.id = deeper[k + 1].input
      BY <1>1, <1>4 DEF Past
    <2>1. j \in Nat
      BY <1>1, <1>3, FieldsType
    <2>2. CASE j < stack[k].at
      <3>1. LET f == fields[stack[k].input][j] IN
            \/ f.indirected \/ f.id \notin Input \/ f.id \in S
            \/ k < Len(stack) /\ j = stack[k].at - 1 /\ f.id = stack[k + 1].input
        BY <1>2, <2>2 DEF Past
      <3>2. k < Len(stack) => /\ k + 1 \in DOMAIN stack /\ deeper[k + 1].input = stack[k + 1].input
                              /\ Advanced[k].at = stack[k].at
        BY <1>1, <1>4
      <3> QED
        BY <1>1, <1>4, <3>1, <3>2
    <2>3. CASE k = Len(stack) /\ j = stack[k].at
      <3>1. fields[stack[k].input][j].id = TopField.id
        BY <2>3 DEF TopField, Top
      <3>2. deeper[k + 1].input = TopField.id /\ Advanced[k].at - 1 = j /\ k < Len(deeper)
        BY <1>1, <1>3, <1>4, <2>3 DEF Call
      <3> QED
        BY <3>1, <3>2
    <2> QED
      BY <1>1, <1>3, <2>1, <2>2, <2>3
  <1>6. Past(deeper, Len(stack) + 1, S)
    <2>1. deeper[Len(stack) + 1].at = 1 /\ deeper[Len(stack) + 1].input \in Input
      BY <1>4 DEF Call
    <2>2. \A j \in DOMAIN fields[deeper[Len(stack) + 1].input] : j \in Nat \ {0}
      BY <2>1, FieldsType
    <2>3. ASSUME NEW j \in DOMAIN fields[deeper[Len(stack) + 1].input]
          PROVE  ~(j < 1)
      <3>1. j \in Nat \ {0}
        BY <2>2
      <3> QED
        BY <3>1
    <2> QED
      BY <2>1, <2>3 DEF Past
  <1>7. \A k \in DOMAIN deeper : deeper[k].input = t <=> k = 1
    <2>1. \A k \in DOMAIN stack : deeper[k].input = t <=> k = 1
      BY <1>1, <1>4 DEF NotFound
    <2>2. deeper[Len(stack) + 1].input # t /\ Len(stack) + 1 # 1
      BY <1>1, <1>4 DEF Call
    <2> QED
      BY <1>1, <1>4, <2>1, <2>2
  <1>8. \A k \in DOMAIN deeper : Past(deeper, k, S)
    BY <1>1, <1>4, <1>5, <1>6
  <1> QED
    BY <1>2, <1>7, <1>8 DEF NotFound

\* A call past all its fields has all that its input holds by value in the set.
LEMMA PastAll ==
    ASSUME TypeOK, stack # <<>>, Exhausted, NEW S, Past(stack, Len(stack), S)
    PROVE  Top.input \in Input /\ ByValue(fields, Top.input) \cap Input \subseteq S
  <1>1. stack \in Seq(Frame) /\ Len(stack) \in DOMAIN stack
    BY DEF TypeOK
  <1>2. Top \in Frame
    BY <1>1 DEF Top
  <1>3. Top.input \in Input /\ Top.at \in Nat
    BY <1>2 DEF Frame
  <1>4. fields[Top.input] \in Seq(Field)
    BY <1>3, FieldsType
  <1>5. \A j \in DOMAIN fields[Top.input] : j < Top.at
    BY <1>3, <1>4 DEF Exhausted
  <1> SUFFICES ASSUME NEW j \in DOMAIN fields[Top.input], ~fields[Top.input][j].indirected,
                      fields[Top.input][j].id \in Input
               PROVE  fields[Top.input][j].id \in S
    BY <1>3 DEF ByValue
  <1>6. j < Top.at
    BY <1>5
  <1> QED
    BY <1>1, <1>6 DEF Past, Top

LEMMA NotFoundReturn ==
    ASSUME TypeOK, NEW t, NotFound(stack, t), Len(stack) > 1, Exhausted
    PROVE  NotFound(Front(stack), t)
  <1>1. stack \in Seq(Frame) /\ stack # <<>> /\ Len(stack) \in DOMAIN stack
    BY DEF TypeOK
  <1>2. /\ Front(stack) \in Seq(Frame) /\ DOMAIN Front(stack) = 1 .. Len(stack) - 1
        /\ Len(Front(stack)) = Len(stack) - 1
        /\ \A k \in 1 .. Len(stack) - 1 : Front(stack)[k] = stack[k]
    BY <1>1, FrontType
  <1>3. PICK S \in SUBSET (Input \ {t}) :
              /\ \A i \in S : ByValue(fields, i) \cap Input \subseteq S
              /\ \A k \in DOMAIN stack : Past(stack, k, S)
    BY DEF NotFound
  <1> DEFINE R == S \cup {Top.input}
  <1>4. Top.input \in Input \ {t} /\ ByValue(fields, Top.input) \cap Input \subseteq S
    <2>1. Past(stack, Len(stack), S)
      BY <1>1, <1>3
    <2>2. Top.input # t
      BY <1>1 DEF NotFound, Top
    <2> QED
      BY <1>1, <2>1, <2>2, PastAll
  <1>5. R \in SUBSET (Input \ {t}) /\ \A i \in R : ByValue(fields, i) \cap Input \subseteq R
    BY <1>3, <1>4
  <1>6. ASSUME NEW k \in DOMAIN Front(stack)
        PROVE  Past(Front(stack), k, R)
    <2>1. k \in DOMAIN stack /\ k < Len(stack) /\ Front(stack)[k] = stack[k]
      BY <1>1, <1>2
    <2> SUFFICES ASSUME NEW j \in DOMAIN fields[stack[k].input], j < stack[k].at
                 PROVE  LET f == fields[stack[k].input][j] IN
                        \/ f.indirected \/ f.id \notin Input \/ f.id \in R
                        \/ /\ k < Len(Front(stack)) /\ j = stack[k].at - 1
                           /\ f.id = Front(stack)[k + 1].input
      BY <2>1 DEF Past
    <2>2. LET f == fields[stack[k].input][j] IN
          \/ f.indirected \/ f.id \notin Input \/ f.id \in S
          \/ k < Len(stack) /\ j = stack[k].at - 1 /\ f.id = stack[k + 1].input
      BY <1>3, <2>1 DEF Past
    <2>3. CASE k + 1 = Len(stack)
      BY <2>2, <2>3 DEF Top
    <2>4. CASE k + 1 # Len(stack)
      <3>1. k < Len(Front(stack)) /\ Front(stack)[k + 1] = stack[k + 1]
        BY <1>1, <1>2, <2>1, <2>4
      <3> QED
        BY <2>2, <3>1
    <2> QED
      BY <2>3, <2>4
  <1>7. \A k \in DOMAIN Front(stack) : Front(stack)[k].input = t <=> k = 1
    BY <1>1, <1>2 DEF NotFound
  <1> QED
    BY <1>5, <1>6, <1>7 DEF NotFound

\* No call has answered what is not so: what they are past leads only to inputs that do
\* not lead to the type.
LEMMA AnsweredNext ==
    ASSUME TypeOK, Checking, Answered, [Next]_vars
    PROVE  Answered'
  <1>0. fields' = fields /\ stack \in Seq(Frame)
    BY CollectFrame DEF TypeOK
  <1> DEFINE Type == fields[checking'[1]][checking'[2]].id
  <1> SUFFICES ASSUME phase' = "generate", stack' # <<>>
               PROVE  NotFound(stack', Type)
    <2>1. Type = TypeOf(checking)'
      BY <1>0 DEF TypeOf
    <2>2. \A k, S : Past(stack', k, S) <=> Past(stack, k, S)'
      BY <1>0 DEF Past
    <2>3. NotFound(stack', Type) => NotFound(stack, TypeOf(checking))'
      BY <1>0, <2>1, <2>2 DEF NotFound, ByValue
    <2> QED
      BY <2>3 DEF Answered
  <1>1. CASE DecideField
    <2>1. PICK r \in Undecided :
              \/ TypeOf(r) \in Input /\ checking' = r /\ stack' = <<Call(TypeOf(r))>>
              \/ UNCHANGED <<checking, stack>>
      BY <1>1 DEF DecideField
    <2>2. CASE TypeOf(r) \in Input /\ checking' = r /\ stack' = <<Call(TypeOf(r))>>
      <3>1. /\ Type = TypeOf(r) /\ DOMAIN stack' = {1}
            /\ stack'[1].input = Type /\ stack'[1].at = 1
        BY <2>2 DEF TypeOf, Call
      <3>2. \A j \in DOMAIN fields[Type] : j \in Nat \ {0}
        BY <2>2, <3>1, FieldsType
      <3>3. \A j \in DOMAIN fields[Type] : ~(j < 1)
        BY <3>2
      <3>4. \A k \in DOMAIN stack' : Past(stack', k, {})
        BY <3>1, <3>3 DEF Past
      <3> QED
        BY <3>1, <3>4 DEF NotFound
    <2> QED
      BY <1>1, <2>1, <2>2 DEF DecideField, Answered, TypeOf
  <1>2. CASE ContainsSkip \/ ContainsReturn \/ ContainsDescend
    <2>1. phase = "generate" /\ stack # <<>>
      BY <1>2 DEF ContainsSkip, ContainsReturn, ContainsDescend
    <2>2. NotFound(stack, TypeOf(checking))
      BY <2>1 DEF Answered
    <2>3. CASE ContainsSkip
      BY <2>1, <2>2, <2>3, NotFoundSkip DEF ContainsSkip, output, TypeOf
    <2>4. CASE ContainsReturn
      <3>1. Len(stack) # 1
        BY <1>0, <2>1, <2>4, FrontType DEF ContainsReturn
      <3>2. Len(stack) \in Nat \ {0}
        BY <1>0, <2>1
      <3>3. \A n \in Nat \ {0} : n # 1 => n > 1
        OBVIOUS
      <3>4. Len(stack) > 1
        BY <3>1, <3>2, <3>3
      <3> QED
        BY <2>2, <2>4, <3>1, <3>4, NotFoundReturn DEF ContainsReturn, TypeOf
    <2>5. CASE ContainsDescend
      BY <2>1, <2>2, <2>5, NotFoundDescend DEF ContainsDescend, output, TypeOf
    <2> QED
      BY <1>2, <2>3, <2>4, <2>5
  <1>3. CASE \/ CollectVariable \/ VisitField \/ VisitReturn \/ Collected
             \/ ContainsFound \/ Finish \/ StackOverflow
    <2>1. CASE CollectVariable \/ VisitField \/ VisitReturn
      BY <2>1 DEF CollectVariable, VisitField, VisitReturn
    <2>2. CASE Collected \/ ContainsFound
      BY <2>2 DEF Collected, ContainsFound
    <2>3. CASE Finish \/ StackOverflow
      BY <2>3 DEF Finish, StackOverflow
    <2> QED
      BY <1>3, <2>1, <2>2, <2>3
  <1>4. CASE UNCHANGED vars
    BY <1>4 DEF vars, output, Answered, TypeOf
  <1> QED
    BY <1>1, <1>2, <1>3, <1>4 DEF Next

\* The first call answers false for want of a field that leads back to the type.
LEMMA PlainNext ==
    ASSUME TypeOK, Checking, Answered, PlainIsSound, [Next]_vars
    PROVE  PlainIsSound'
  <1>0. fields' = fields /\ stack \in Seq(Frame)
    BY CollectFrame DEF TypeOK
  <1> SUFFICES ASSUME NEW r \in plain', TypeOf(r)' \in Input, HoldsItself(TypeOf(r))'
               PROVE  FALSE
    BY DEF PlainIsSound
  <1>1. TypeOf(r)' = TypeOf(r) /\ TypeOf(r) \in Input
    BY <1>0 DEF TypeOf
  <1>2. HoldsItself(TypeOf(r))
    BY <1>0, <1>1 DEF HoldsItself, HoldsAllOf, ByValue
  <1>3. r \notin plain
    BY <1>1, <1>2 DEF PlainIsSound
  <1>4. CASE ContainsReturn
    <2>1. /\ phase = "generate" /\ stack # <<>> /\ Exhausted
          /\ Len(stack) = 1 /\ r = checking
      BY <1>4, <1>3 DEF ContainsReturn
    <2>2. NotFound(stack, TypeOf(r))
      BY <2>1 DEF Answered
    <2>3. 1 \in DOMAIN stack /\ Top.input = TypeOf(r)
      BY <1>0, <2>1, <2>2 DEF NotFound, Top
    <2>4. PICK S \in SUBSET (Input \ {TypeOf(r)}) :
                /\ \A i \in S : ByValue(fields, i) \cap Input \subseteq S
                /\ Past(stack, 1, S)
      BY <2>2, <2>3 DEF NotFound
    <2>5. ByValue(fields, TypeOf(r)) \cap Input \subseteq S
      BY <1>1, <2>1, <2>3, <2>4, PastAll
    <2> QED
      BY <1>2, <2>4, <2>5 DEF HoldsItself, HoldsAllOf
  <1>5. CASE ~ContainsReturn
    <2>1. CASE CollectVariable \/ VisitField \/ VisitReturn \/ Collected
      BY <1>3, <2>1 DEF CollectVariable, VisitField, VisitReturn, Collected, output
    <2>2. CASE DecideField
      BY <1>1, <1>3, <2>2 DEF DecideField
    <2>3. CASE ContainsSkip \/ ContainsFound \/ ContainsDescend
      BY <1>3, <2>3 DEF ContainsSkip, ContainsFound, ContainsDescend, output
    <2>4. CASE Finish \/ StackOverflow \/ UNCHANGED vars
      BY <1>3, <2>4 DEF Finish, StackOverflow, vars, output
    <2> QED
      BY <1>5, <2>1, <2>2, <2>3, <2>4 DEF Next
  <1> QED
    BY <1>4, <1>5

LEMMA DecidedNext ==
    ASSUME AllDecided, [Next]_vars
    PROVE  AllDecided'
  <1> SUFFICES ASSUME phase' = "done"
               PROVE  Undecided' = {}
    BY DEF AllDecided
  <1>1. Undecided = {} /\ UNCHANGED <<fields, used, boxed, plain>>
    BY DEF Next, vars, schema, output, CollectVariable, VisitField, VisitReturn, Collected,
       DecideField, ContainsSkip, ContainsFound, ContainsDescend, ContainsReturn, Finish,
       StackOverflow, AllDecided
  <1> QED
    BY <1>1 DEF Undecided, Declared

LEMMA SizeInvariance == Spec => []SizeInv
  <1>1. Init => SizeInv
    BY TypeInit DEF Init, SizeInv, Checking, Answered, PlainIsSound, AllDecided
  <1>2. SizeInv /\ [Next]_vars => SizeInv'
    BY TypeNext, CheckingNext, AnsweredNext, PlainNext, DecidedNext DEF SizeInv
  <1> QED
    BY <1>1, <1>2, PTL DEF Spec

-----------------------------------------------------------------------------
\* The inputs that t leads to by value, directly or through others.
Within(t) == {u \in Input : \A S \in SUBSET Input : HoldsAllOf(fields, S, t) => u \in S}

LEMMA WithinHolds ==
    ASSUME NEW t \in Input
    PROVE  HoldsAllOf(fields, Within(t), t)
  <1>1. ASSUME NEW u \in ByValue(fields, t) \cap Input
        PROVE  u \in Within(t)
    BY DEF Within, HoldsAllOf
  <1>2. ASSUME NEW i \in Within(t), NEW u \in ByValue(fields, i) \cap Input
        PROVE  u \in Within(t)
    <2> SUFFICES ASSUME NEW S \in SUBSET Input, HoldsAllOf(fields, S, t)
                 PROVE  u \in S
      BY DEF Within
    <2>1. i \in S
      BY DEF Within
    <2> QED
      BY <2>1 DEF HoldsAllOf
  <1> QED
    BY <1>1, <1>2 DEF HoldsAllOf

\* What it leads to leads to no more; and to less, unless that one holds itself.
LEMMA WithinShrinks ==
    ASSUME NEW t \in Input, NEW u \in ByValue(fields, t) \cap Input, ~HoldsItself(u)
    PROVE  /\ IsFiniteSet(Within(t)) /\ IsFiniteSet(Within(u))
           /\ Cardinality(Within(u)) \in Nat /\ Cardinality(Within(t)) \in Nat
           /\ Cardinality(Within(u)) < Cardinality(Within(t))
  <1>1. u \in Within(t) /\ HoldsAllOf(fields, Within(t), u)
    BY WithinHolds DEF HoldsAllOf
  <1>2. Within(t) \in SUBSET Input /\ Within(u) \in SUBSET Within(t)
    BY <1>1 DEF Within
  <1>3. u \notin Within(u)
    BY DEF Within, HoldsItself
  <1>4. IsFiniteSet(Within(t))
    BY <1>2, FS_Subset
  <1>5. /\ IsFiniteSet(Within(u)) /\ Cardinality(Within(u)) <= Cardinality(Within(t))
        /\ Cardinality(Within(t)) = Cardinality(Within(u)) => Within(t) = Within(u)
    BY <1>2, <1>4, FS_Subset
  <1>6. Cardinality(Within(u)) \in Nat /\ Cardinality(Within(t)) \in Nat
    BY <1>4, <1>5, FS_CardinalityType
  <1>7. Cardinality(Within(u)) # Cardinality(Within(t))
    BY <1>1, <1>3, <1>5
  <1>8. \A m, n \in Nat : m <= n /\ m # n => m < n
    OBVIOUS
  <1> QED
    BY <1>4, <1>5, <1>6, <1>7, <1>8

\* What a used input still holds inline is a field found not to lead back to itself.
LEMMA InlineIsPlain ==
    ASSUME SizeInv, phase = "done", NEW i \in used \cap Input, NEW u \in Inline(i) \cap Input
    PROVE  u \in ByValue(fields, i) /\ ~HoldsItself(u)
  <1>1. PICK k \in DOMAIN fields[i] :
              ~fields[i][k].indirected /\ <<i, k>> \notin boxed /\ u = fields[i][k].id
    BY DEF Inline
  <1>2. k \in 1 .. MaxFields
    <2>1. PICK n \in 0 .. MaxFields : fields[i] \in [1 .. n -> Field]
      BY DEF SizeInv, TypeOK, AtMost
    <2>2. k \in 1 .. n
      BY <1>1, <2>1
    <2> QED
      BY <2>2
  <1>3. <<i, k>> \in Declared
    BY <1>1, <1>2 DEF Declared
  <1>4. <<i, k>> \in plain
    BY <1>1, <1>3 DEF SizeInv, AllDecided, Undecided
  <1> QED
    BY <1>1, <1>4 DEF SizeInv, PlainIsSound, TypeOf, ByValue

\* The generated structs have a finite size, whatever the schema: rustc accepts them.  In a
\* set of inputs that hold one another inline, take one of those a field leads to that
\* leads to the fewest: the next leads to fewer.
THEOREM SizeIsFinite == Spec => []FiniteSize
  <1>1. ASSUME SizeInv PROVE FiniteSize
    <2> SUFFICES ASSUME phase = "done", NEW C \in SUBSET (used \cap Input), C # {},
                        \A i \in C : Inline(i) \cap C # {}
                 PROVE  FALSE
      BY DEF FiniteSize
    <2> DEFINE P == {u \in C : ~HoldsItself(u)}
               T == {Cardinality(Within(u)) : u \in P}
    <2>1. ASSUME NEW i \in C
          PROVE  \E u \in P : u \in ByValue(fields, i) \cap Input
      <3>1. PICK u \in C : u \in Inline(i)
        OBVIOUS
      <3> QED
        BY <1>1, <3>1, InlineIsPlain
    <2>2. P # {}
      BY <2>1
    <2>3. ASSUME NEW t \in P
          PROVE  \E u \in P : /\ Cardinality(Within(t)) \in Nat
                              /\ Cardinality(Within(u)) \in Nat
                              /\ Cardinality(Within(u)) < Cardinality(Within(t))
      BY <2>1, WithinShrinks
    <2>4. T \subseteq Nat /\ T # {}
      BY <2>2, <2>3
    <2>5. PICK x \in T : \A y \in T : x <= y
      <3> HIDE DEF T
      <3> QED
        BY <2>4, LeastNumber
    <2>6. PICK t \in P : x = Cardinality(Within(t))
      OBVIOUS
    <2>7. PICK u \in P : /\ Cardinality(Within(t)) \in Nat /\ Cardinality(Within(u)) \in Nat
                         /\ Cardinality(Within(u)) < Cardinality(Within(t))
      BY <2>3
    <2>8. \A m, n \in Nat : m < n => ~(n <= m)
      OBVIOUS
    <2> QED
      BY <2>5, <2>6, <2>7, <2>8
  <1> QED
    BY <1>1, SizeInvariance, PTL
=============================================================================
