----------------------------- MODULE InputTypes -----------------------------
(***************************************************************************)
(* The input object types a query's variables use, in                      *)
(* crates/codegen/src: which definitions are generated (the recursive walk *)
(* of schema.rs) and which of their fields are boxed, so that the          *)
(* generated structs have a finite size (inputs.rs).                       *)
(*                                                                         *)
(* Both walks are recursive functions; here each call is a frame on a      *)
(* stack, which holds the input it walks and the field it is at.           *)
(***************************************************************************)
EXTENDS Integers, FiniteSets, SequencesExt

CONSTANTS
    Input,        \* the input object types of the schema
    Leaf,         \* its scalars and enums
    MaxFields,    \* bound: fields of one input
    MaxDeclared,  \* bound: fields of all inputs together
    MaxVariables, \* bound: variables of the operation
    StackLimit    \* bound: calls of contains_type_without_indirection the stack holds

ASSUME TypesAssumption == Input \cap Leaf = {} /\ IsFiniteSet(Input)
ASSUME BoundsAssumption ==
    /\ MaxFields \in Nat /\ MaxDeclared \in Nat /\ MaxVariables \in Nat
    /\ StackLimit \in Nat \ {0}

TypeId == Input \cup Leaf
AtMost(n, S) == UNION {[1 .. k -> S] : k \in 0 .. n}

\* A field is indirected when its type is a list, flat or nested (of a leaf nobody
\* asks).  A variable belongs to the operation generated, or to another of the query.
Field == [id : Input, indirected : BOOLEAN] \cup [id : Leaf, indirected : {FALSE}]
Variable == [type : TypeId, ours : BOOLEAN]
Frame == [input : Input, at : Nat \ {0}]
FieldRef == Input \X (Nat \ {0})

VARIABLES
    fields,     \* the schema: the fields of every input, in order
    variables,  \* the variables of the query's operations
    phase,      \* "collect", "generate", "done", or the stack has overflowed
    next,       \* the variable to collect next
    stack,      \* the calls in progress, the innermost last
    used,       \* UsedTypes.types
    checking,   \* the field whose boxing is being decided
    boxed,      \* the fields generated as Box<..>
    plain       \* the fields generated without

schema == <<fields, variables>>
output == <<checking, boxed, plain>>
vars == <<schema, phase, next, stack, used, output>>

Declared == {r \in Input \X (1 .. MaxFields) : r[2] \in DOMAIN fields[r[1]]}
NoField == <<>>
Call(i) == [input |-> i, at |-> 1]
Top == stack[Len(stack)]
Exhausted == Top.at > Len(fields[Top.input])
TopField == fields[Top.input][Top.at]
Advanced == [stack EXCEPT ![Len(stack)].at = @ + 1]
HasRoom == Len(stack) < StackLimit

(***************************************************************************)
(* all_used_types: the variables' types, and the recursive walk.           *)
(***************************************************************************)
\* Mutation: the variables of the other operations are collected too.
BugCollectVariable ==
    /\ phase = "collect" /\ stack = <<>>
    /\ next \in DOMAIN variables
    /\ next' = next + 1
    /\ used' = used \cup {variables[next].type}
    /\ stack' = IF variables[next].type \in Input THEN <<Call(variables[next].type)>> ELSE <<>>
    /\ UNCHANGED <<schema, phase, output>>

\* Mutation: whatever the type of the variable is, it is walked.
CollectAnyVariable ==
    /\ phase = "collect" /\ stack = <<>>
    /\ next \in DOMAIN variables
    /\ next' = next + 1
    /\ LET var == variables[next] IN
          \/ /\ var.ours
             /\ used' = used \cup {var.type}
             /\ stack' = <<Call(var.type)>>
          \/ /\ ~var.ours
             /\ UNCHANGED <<used, stack>>
    /\ UNCHANGED <<schema, phase, output>>

\* The type of a variable of this operation is inserted and, if it is an input, walked,
\* seen before or not.
CollectVariable ==
    /\ phase = "collect" /\ stack = <<>>
    /\ next \in DOMAIN variables
    /\ next' = next + 1
    /\ LET var == variables[next] IN
          \/ /\ var.ours
             /\ used' = used \cup {var.type}
             /\ stack' = IF var.type \in Input THEN <<Call(var.type)>> ELSE <<>>
          \/ /\ ~var.ours
             /\ UNCHANGED <<used, stack>>
    /\ UNCHANGED <<schema, phase, output>>

\* Mutation: an input met on the way is inserted but not walked.
BugVisitField ==
    /\ phase = "collect" /\ stack # <<>> /\ ~Exhausted
    /\ used' = used \cup {TopField.id}
    /\ stack' = Advanced
    /\ UNCHANGED <<schema, phase, next, output>>

\* Mutation: an input is walked even if it is in the set already.
RevisitField ==
    /\ phase = "collect" /\ stack # <<>> /\ ~Exhausted
    /\ used' = used \cup {TopField.id}
    /\ \/ TopField.id \in Input /\ stack' = Append(Advanced, Call(TopField.id))
       \/ TopField.id \notin Input /\ stack' = Advanced
    /\ UNCHANGED <<schema, phase, next, output>>

\* One field of the walk: an input not seen before is inserted and walked.
VisitField ==
    /\ phase = "collect" /\ stack # <<>> /\ ~Exhausted
    /\ used' = used \cup {TopField.id}
    /\ \/ /\ TopField.id \in Input \ used
          /\ stack' = Append(Advanced, Call(TopField.id))
       \/ /\ TopField.id \notin Input \ used
          /\ stack' = Advanced
    /\ UNCHANGED <<schema, phase, next, output>>

VisitReturn ==
    /\ phase = "collect" /\ stack # <<>> /\ Exhausted
    /\ stack' = Front(stack)
    /\ UNCHANGED <<schema, phase, next, used, output>>

Collected ==
    /\ phase = "collect" /\ stack = <<>> /\ next \notin DOMAIN variables
    /\ phase' = "generate"
    /\ UNCHANGED <<schema, next, stack, used, output>>

(***************************************************************************)
(* generate_input_object_definitions: a field is boxed if its type         *)
(* contains itself by value.  Each decision is independent of the others.  *)
(***************************************************************************)
Undecided == {r \in Declared : r[1] \in used} \ (boxed \cup plain)
TypeOf(r) == fields[r[1]][r[2]].id

\* Inputs come one after the other, in an order left open, each one's fields in order.
IsNext(r) ==
    /\ r \in Undecided
    /\ \A s \in Undecided : s[1] = r[1] => r[2] <= s[2]
    /\ \A s \in Undecided \ {r} : s[1] # r[1] => \A d \in boxed \cup plain : d[1] # s[1]

\* A field of an input type asks input_is_recursive_without_indirection.
DecideField ==
    /\ phase = "generate" /\ checking = NoField
    /\ \E r \in Undecided :
       /\ IsNext(r)
       /\ \/ /\ TypeOf(r) \in Input
             /\ checking' = r
             /\ stack' = <<Call(TypeOf(r))>>
             /\ UNCHANGED plain
          \/ /\ TypeOf(r) \notin Input
             /\ plain' = plain \cup {r}
             /\ UNCHANGED <<checking, stack>>
    /\ UNCHANGED <<schema, phase, next, used, boxed>>

\* contains_type_without_indirection: the field at hand is indirected, or no input.
ContainsSkip ==
    /\ phase = "generate" /\ stack # <<>> /\ ~Exhausted
    /\ TopField.indirected \/ TopField.id \notin Input
    /\ stack' = Advanced
    /\ UNCHANGED <<schema, phase, next, used, output>>

\* Mutation: lists are not told from values.
BugContainsFound ==
    /\ phase = "generate" /\ stack # <<>> /\ ~Exhausted
    /\ TopField.id = TypeOf(checking)
    /\ boxed' = boxed \cup {checking}
    /\ checking' = NoField
    /\ stack' = <<>>
    /\ UNCHANGED <<schema, phase, next, used, plain>>

\* It is the type looked for: every call in progress answers true.
ContainsFound ==
    /\ phase = "generate" /\ stack # <<>> /\ ~Exhausted
    /\ ~TopField.indirected /\ TopField.id = TypeOf(checking)
    /\ boxed' = boxed \cup {checking}
    /\ checking' = NoField
    /\ stack' = <<>>
    /\ UNCHANGED <<schema, phase, next, used, plain>>

\* Mutation: only the type's own fields are looked at.
BugContainsDescend ==
    /\ phase = "generate" /\ stack # <<>> /\ ~Exhausted
    /\ ~TopField.indirected /\ TopField.id \in Input \ {TypeOf(checking)}
    /\ stack' = Advanced
    /\ UNCHANGED <<schema, phase, next, used, output>>

\* It is another input: the same question is asked of that one.
ContainsDescend ==
    /\ phase = "generate" /\ stack # <<>> /\ ~Exhausted
    /\ ~TopField.indirected /\ TopField.id \in Input \ {TypeOf(checking)}
    /\ HasRoom
    /\ stack' = Append(Advanced, Call(TopField.id))
    /\ UNCHANGED <<schema, phase, next, used, output>>

\* No field contains it: this call answers false, and so does the first.
ContainsReturn ==
    /\ phase = "generate" /\ stack # <<>> /\ Exhausted
    /\ stack' = Front(stack)
    /\ IF Len(stack) = 1
       THEN plain' = plain \cup {checking} /\ checking' = NoField
       ELSE UNCHANGED <<plain, checking>>
    /\ UNCHANGED <<schema, phase, next, used, boxed>>

Finish ==
    /\ phase = "generate" /\ checking = NoField /\ Undecided = {}
    /\ phase' = "done"
    /\ UNCHANGED <<schema, next, stack, used, output>>

\* The call that does not fit aborts the program.
StackOverflow ==
    /\ phase = "generate" /\ stack # <<>> /\ ~Exhausted
    /\ ~TopField.indirected /\ TopField.id \in Input \ {TypeOf(checking)}
    /\ ~HasRoom
    /\ phase' = "overflow"
    /\ UNCHANGED <<schema, next, stack, used, output>>

(***************************************************************************)
(* The specification: any schema, any variables.                           *)
(***************************************************************************)
Init ==
    /\ fields \in [Input -> AtMost(MaxFields, Field)]
    /\ Cardinality(Declared) <= MaxDeclared
    /\ variables \in AtMost(MaxVariables, Variable)
    /\ phase = "collect" /\ next = 1 /\ stack = <<>>
    /\ used = {}
    /\ checking = NoField /\ boxed = {} /\ plain = {}

Next ==
    \/ CollectVariable \/ VisitField \/ VisitReturn \/ Collected
    \/ DecideField \/ ContainsSkip \/ ContainsFound \/ ContainsDescend \/ ContainsReturn
    \/ Finish \/ StackOverflow

Spec == Init /\ [][Next]_vars

-----------------------------------------------------------------------------
(***************************************************************************)
(* Properties.                                                             *)
(***************************************************************************)
TypeOK ==
    /\ fields \in [Input -> AtMost(MaxFields, Field)]
    /\ variables \in AtMost(MaxVariables, Variable)
    /\ phase \in {"collect", "generate", "done", "overflow"}
    /\ next \in Nat \ {0}
    /\ stack \in Seq(Frame)
    /\ used \in SUBSET TypeId
    /\ checking \in FieldRef \cup {NoField}
    /\ boxed \in SUBSET FieldRef
    /\ plain \in SUBSET FieldRef

Roots == {variables[v].type : v \in {w \in DOMAIN variables : variables[w].ours}}
FieldTypes(i) == {fields[i][j].id : j \in DOMAIN fields[i]}
Closed(S) == \A i \in S \cap Input : FieldTypes(i) \subseteq S

\* The generated module defines every type it names: the types of the variables, and
\* with an input the types of all its fields, whichever path led to it first.
UsedIsClosed == phase # "collect" => Roots \subseteq used /\ Closed(used)

\* And it defines no type that the variables do not lead to.
NothingUnused ==
    \A S \in SUBSET TypeId : Roots \subseteq S /\ Closed(S) => used \subseteq S

\* The walk of the types is a search of the graph of the schema, from the types of
\* the variables: it inserts one type after the other, each named by a variable or by
\* a field of an input inserted before, and ends only when none is left out.
Search == INSTANCE Reachable WITH
    root <- Roots,
    refs <- [t \in TypeId |-> IF t \in Input THEN FieldTypes(t) ELSE {}],
    reached <- used,
    done <- phase # "collect"
WalkSearches == Search!Spec

\* The walk never enters an input it is still walking, so it is no deeper than the
\* schema has inputs, recursive or not.
WalksOnce ==
    phase = "collect" =>
        \A k, l \in DOMAIN stack : stack[k].input = stack[l].input => k = l

\* The types input i of a schema holds by value; those it still holds inline when some
\* fields are boxed.
ByValue(fs, i) == {fs[i][j].id : j \in {k \in DOMAIN fs[i] : ~fs[i][k].indirected}}
Inline(i) == {fields[i][j].id : j \in {k \in DOMAIN fields[i] :
                                           ~fields[i][k].indirected /\ <<i, k>> \notin boxed}}

\* The generated structs have a finite size: no set of them holds itself inline.
FiniteSize ==
    phase = "done" =>
        \A C \in SUBSET (used \cap Input) :
            C # {} => \E i \in C : Inline(i) \cap C = {}

\* A field is boxed only if its type holds itself by value, directly or through others:
\* whatever holds what that type holds, and is closed under it, holds the type.
HoldsAllOf(fs, S, t) ==
    /\ ByValue(fs, t) \cap Input \subseteq S
    /\ \A i \in S : ByValue(fs, i) \cap Input \subseteq S

BoxedOnlyIfRecursive ==
    \A r \in boxed : \A S \in SUBSET Input :
        HoldsAllOf(fields, S, TypeOf(r)) => TypeOf(r) \in S

\* What the comment in contains_type_without_indirection promises, an answer: "The
\* input type is recursive if any of its members contains it, without indirection".
AlwaysDecides == phase # "overflow"

\* What a walk in progress still owes: a type of a used input's field is used, or a
\* call for that input has yet to come to the field.
Owed ==
    \A i \in used \cap Input : \A j \in DOMAIN fields[i] :
        \/ fields[i][j].id \in used
        \/ phase = "collect" /\ \E k \in DOMAIN stack : stack[k].input = i /\ stack[k].at <= j

\* The variables collected are those before the next.
RootsOwed ==
    \A v \in DOMAIN variables : variables[v].ours =>
        variables[v].type \in used \/ (phase = "collect" /\ v >= next)

\* The calls of contains_type_without_indirection are about some field of an input type.
Checking ==
    phase = "generate" /\ stack # <<>> => checking \in FieldRef /\ TypeOf(checking) \in Input

\* What the inputs being asked hold by value, the type in question holds.
Descended ==
    phase = "generate" /\ stack # <<>> =>
        \A S \in SUBSET Input : HoldsAllOf(fields, S, TypeOf(checking)) =>
            \A k \in DOMAIN stack : ByValue(fields, stack[k].input) \cap Input \subseteq S

\* The other answer, false: some set of inputs has all that the type holds, and what
\* those hold in turn, and not the type.
HoldsItself(t) == \A S \in SUBSET Input : HoldsAllOf(fields, S, t) => t \in S
PlainIsSound == \A r \in plain : TypeOf(r) \in Input => ~HoldsItself(TypeOf(r))

\* A field that call k of s is past leads by value only into S, the inputs fully answered
\* for; or it is the field whose call comes next in s.
Past(s, k, S) ==
    \A j \in DOMAIN fields[s[k].input] : j < s[k].at =>
        LET f == fields[s[k].input][j] IN
        \/ f.indirected \/ f.id \notin Input \/ f.id \in S
        \/ k < Len(s) /\ j = s[k].at - 1 /\ f.id = s[k + 1].input

\* The calls s about type t have not found it: it is in nothing they are past.
NotFound(s, t) ==
    /\ \A k \in DOMAIN s : s[k].input = t <=> k = 1
    /\ \E S \in SUBSET (Input \ {t}) :
          /\ \A i \in S : ByValue(fields, i) \cap Input \subseteq S
          /\ \A k \in DOMAIN s : Past(s, k, S)

Answered == phase = "generate" /\ stack # <<>> => NotFound(stack, TypeOf(checking))

\* The end comes when every field of the inputs in use is decided.
AllDecided == phase = "done" => Undecided = {}

\* An input being walked is used, and with it the invariant of the walk is inductive.
Walked == phase = "collect" => \A k \in DOMAIN stack : stack[k].input \in used
WalkInv ==
    TypeOK /\ Checking /\ Owed /\ RootsOwed /\ Walked /\ WalksOnce /\ NothingUnused

\* That of the boxing.
BoxInv == TypeOK /\ Checking /\ Descended /\ BoxedOnlyIfRecursive
SizeInv == TypeOK /\ Checking /\ Answered /\ PlainIsSound /\ AllDecided
=============================================================================
