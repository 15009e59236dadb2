--------------------------- MODULE QueryResolution ---------------------------
(***************************************************************************)
(* A query document bound to a schema and validated                        *)
(* (src/crates/codegen/src/query.rs, query/selection.rs,                   *)
(* query/validation.rs).  Every selection of the document is given a       *)
(* number and noted twice: its parent is put in an index before what is    *)
(* inside it is resolved, it is put in its parent's selection set after.   *)
(* Fragments and operations are numbered in a pass of their own, and found *)
(* by name in the one that follows.                                        *)
(*                                                                         *)
(* A type is its name and a field the pair of its type's and its own: that *)
(* the numbers of the schema stand for the names is SchemaIngestion's      *)
(* matter.  A document is laid out as QueryDocument lays it out, without   *)
(* the arguments, the directives and the variables, and a text is the      *)
(* sequence of the definitions written in it.  Numbers begin with 1.  The  *)
(* selection sets of fragments, operations and selections are kept in one  *)
(* function, under what a selection has for its parent.                    *)
(***************************************************************************)
EXTENDS Integers, Sequences, SequencesExt

CONSTANTS
  KindOf,      \* of every type: "Object", "Interface", "Union", "Enum", "Scalar"
  FieldsOf,    \* of every object and interface: its fields, each [type, list]
  Implements,  \* of every object: the set of its interfaces
  VariantsOf,  \* of every union: the sequence of its variants
  Objects,     \* the objects, in the order they are stored
  RootType,    \* of "Query", "Mutation" and "Subscription": an option of an object
  Items,       \* the items a selection set may have
  Written      \* the documents

\* The definition of a fragment or of an operation, whatever its kind.
Body(d) == IF d[1] = "Fragment" THEN d[2] ELSE d[2][2]
NameOf(d) == IF d[1] = "Fragment" THEN d[2].name ELSE d[2][2].name[1]

\* Selection sets are sequences of items, and so are those inside items; documents
\* are sequences of definitions (query/ast.rs), each of which selects something
\* (query/grammar.rs:77).
ASSUME ItemsAssumption ==
  \A item \in Items :
    \/ item[1] = "FragmentSpread"
    \/ item[1] \in {"Field", "InlineFragment"} /\ item[2].selection_set \in Seq(Items)
ASSUME WrittenAssumption ==
  \A d \in Written :
    /\ d \in Seq({d[i] : i \in DOMAIN d})
    /\ \A i \in DOMAIN d :
         /\ d[i][1] \in {"Fragment", "Operation"}
         /\ d[i][1] = "Operation" =>
              d[i][2][1] \in {"SelectionSet", "Query", "Mutation", "Subscription"}
         /\ Body(d[i]).selection_set \in Seq(Items) \ {<<>>}

\* The types a schema names are its own: SchemaIngestion panics on any other.
ASSUME SchemaAssumption ==
  /\ Objects \in Seq(DOMAIN KindOf)
  /\ \A t \in DOMAIN KindOf :
       /\ KindOf[t] = "Union" => VariantsOf[t] \in Seq(DOMAIN KindOf)
       /\ KindOf[t] \in {"Object", "Interface"} =>
            \A n \in DOMAIN FieldsOf[t] : FieldsOf[t][n].type \in DOMAIN KindOf
  /\ \A kind \in {"Query", "Mutation", "Subscription"} :
       RootType[kind] = <<>> \/ RootType[kind] \in {<<t>> : t \in DOMAIN KindOf}

VARIABLES
  document,  \* the definitions
  phase,     \* how far resolve is, or how it ended: resolved, error, panic, overflow
  at,        \* the definition at hand
  frames,    \* the calls under way, each with the items it has not met yet
  query,     \* the Query: fragments, operations, selections, their parents and sets
  item_of,   \* history: the item a selection was made of
  made_for   \* history: the fragment or operation a selection was made for

rvars == <<document, phase, at, frames, query, item_of, made_for>>

TYPENAME_FIELD == "__typename"

\* Mutation: the last of a name.
BugFound(named, n) ==
  {i \in DOMAIN named : named[i].name = n /\ \A j \in i+1..Len(named) : named[j].name # n}

\* find_fragment and find_operation: the first of a name.
Found(named, n) == {i \in DOMAIN named : named[i].name = n /\ \A j \in 1..i-1 : named[j].name # n}

ResolutionInit ==
  /\ document \in Written
  /\ phase = "roots"
  /\ at = 1
  /\ frames = <<>>
  /\ query = [fragments |-> <<>>, operations |-> <<>>, selections |-> <<>>, parents |-> <<>>,
              sets |-> [parent \in {} |-> <<>>]]
  /\ item_of = <<>>
  /\ made_for = <<>>

EndsWith(outcome) ==
  /\ phase' = outcome
  /\ UNCHANGED <<document, at, frames, query, item_of, made_for>>

\* The selection sets with one more, which has nothing yet.
WithSet(sets, parent) ==
  [p \in DOMAIN sets \cup {parent} |-> IF p = parent THEN <<>> ELSE sets[p]]

------------------------------------------------------------------------------
(* create_roots.                                                             *)

CreateFragment ==
  /\ phase = "roots" /\ at \in DOMAIN document
  /\ document[at][1] = "Fragment"
  /\ LET f == document[at][2] IN
       IF f.type_condition[2] \in DOMAIN KindOf
       THEN /\ query' =
                 [query EXCEPT
                    !.fragments = Append(@, [name |-> f.name, on |-> f.type_condition[2]]),
                    !.sets = WithSet(@, <<"Fragment", Len(query.fragments) + 1>>)]
            /\ at' = at + 1
            /\ UNCHANGED <<document, phase, frames, item_of, made_for>>
       ELSE EndsWith("error")

\* Why an operation is not accepted, "roots" when it is.
Refused(kind, operation) ==
  CASE kind = "SelectionSet" -> "error"
    [] kind = "Query" /\ RootType[kind] = <<>> -> "panic"
    [] kind \in {"Mutation", "Subscription"} /\ RootType[kind] = <<>> -> "error"
    [] kind = "Subscription" /\ RootType[kind] # <<>> /\ Len(operation.selection_set) # 1 -> "error"
    [] kind = "Query" /\ RootType[kind] # <<>> /\ operation.name = <<>> -> "error"
    [] kind \in {"Mutation", "Subscription"} /\ RootType[kind] # <<>> /\ operation.name = <<>>
         -> "panic"
    [] OTHER -> "roots"

CreateOperation ==
  /\ phase = "roots" /\ at \in DOMAIN document
  /\ document[at][1] = "Operation"
  /\ LET kind == document[at][2][1]
         o == document[at][2][2]
     IN  IF Refused(kind, o) = "roots"
         THEN /\ query' =
                   [query EXCEPT
                      !.operations = Append(@, [name |-> o.name[1], operation_type |-> kind,
                                                query_string |-> <<document[at]>>,
                                                object_id |-> RootType[kind][1]]),
                      !.sets = WithSet(@, <<"Operation", Len(query.operations) + 1>>)]
              /\ at' = at + 1
              /\ UNCHANGED <<document, phase, frames, item_of, made_for>>
         ELSE EndsWith(Refused(kind, o))

RootsCreated ==
  /\ phase = "roots" /\ at \notin DOMAIN document
  /\ phase' = "selections"
  /\ at' = 1
  /\ UNCHANGED <<document, frames, query, item_of, made_for>>

------------------------------------------------------------------------------
(* The selections, one item after the other.                                 *)

Node(id) == query.selections[id]
SetOf(parent) == query.sets[parent]
\* What a selection is to those inside it; nothing is put in a __typename or a spread.
AsParent(id) == <<Node(id)[1], id>>
subselection(id) == SetOf(AsParent(id))

push_selection(q, node, parent) ==
  [q EXCEPT !.selections = Append(@, node),
            !.parents = Append(@, parent),
            !.sets = WithSet(@, <<node[1], Len(q.selections) + 1>>)]
NewId == Len(query.selections) + 1

add_to_selection_set(q, parent, id) == [q EXCEPT !.sets[parent] = Append(@, id)]

\* resolve_selection: a type without fields is resolved only when nothing is selected on it.
IsComposite(type) == KindOf[type] \in {"Object", "Interface", "Union"}
Resolves(type, items) == IsComposite(type) \/ items = <<>>

Frame(parent, on, items) == [parent |-> parent, on |-> on, items |-> items, met |-> 0]

\* resolve_fragment and resolve_operation.
BeginDefinition ==
  /\ phase = "selections" /\ frames = <<>> /\ at \in DOMAIN document
  /\ LET d == document[at]
         items == Body(d).selection_set
         on == IF d[1] = "Fragment" THEN d[2].type_condition[2] ELSE RootType[d[2][1]][1]
         named == IF d[1] = "Fragment" THEN query.fragments ELSE query.operations
     IN  IF Resolves(on, items)
         THEN /\ \E id \in Found(named, NameOf(d)) :
                   frames' = <<Frame(<<d[1], id>>, on, items)>>
              /\ UNCHANGED <<document, phase, at, query, item_of, made_for>>
         ELSE EndsWith("error")

Top == Last(frames)
Item == Top.items[Top.met + 1]
HasItem(kind) ==
  phase = "selections" /\ frames # <<>> /\ Top.met < Len(Top.items) /\ Item[1] = kind
OthersLeft == [frames EXCEPT ![Len(frames)].met = @ + 1]

\* The selection is noted under a number, with its parent.
Noted ==
  /\ item_of' = Append(item_of, Item)
  /\ made_for' = Append(made_for, frames[1].parent)
  /\ UNCHANGED <<document, phase, at>>

\* The selection is made and put in its parent's set.
Select(node) ==
  /\ query' = add_to_selection_set(push_selection(query, node, Top.parent), Top.parent, NewId)
  /\ frames' = OthersLeft
  /\ Noted

\* The selection is made and what is inside it is resolved first, on a type.
SelectAndEnter(node, on, items) ==
  /\ query' = push_selection(query, node, Top.parent)
  /\ frames' = Append(OthersLeft, Frame(<<node[1], NewId>>, on, items))
  /\ Noted

IsTypename == Item[2].name = TYPENAME_FIELD

SelectTypename ==
  /\ HasItem("Field") /\ IsTypename
  /\ Select(<<"Typename">>)

SelectField ==
  /\ HasItem("Field") /\ ~IsTypename
  /\ IF KindOf[Top.on] = "Union" \/ Item[2].name \notin DOMAIN FieldsOf[Top.on]
     THEN EndsWith("error")
     ELSE LET type == FieldsOf[Top.on][Item[2].name].type
              items == Item[2].selection_set
          IN  IF Resolves(type, items)
              THEN SelectAndEnter(<<"Field", [alias |-> Item[2].alias,
                                              field_id |-> <<Top.on, Item[2].name>>]>>,
                                  type, items)
              ELSE EndsWith("error")

SelectInlineFragment ==
  /\ HasItem("InlineFragment")
  /\ LET condition == Item[2].type_condition
         items == Item[2].selection_set
     IN  CASE condition = <<>> -> EndsWith("panic")
           [] condition # <<>> /\ condition[1][2] \in DOMAIN KindOf
                /\ Resolves(condition[1][2], items) ->
                SelectAndEnter(<<"InlineFragment", [type_id |-> condition[1][2]]>>,
                               condition[1][2], items)
           [] OTHER -> EndsWith("error")

SelectFragmentSpread ==
  /\ HasItem("FragmentSpread")
  /\ LET ids == Found(query.fragments, Item[2].fragment_name) IN
       IF ids = {} THEN EndsWith("error") ELSE \E id \in ids : Select(<<"FragmentSpread", id>>)

\* The loop over the items of a call is over: what it was called for is put in
\* its parent's set, or the definition is resolved.
ReturnFromSelection ==
  /\ phase = "selections" /\ frames # <<>> /\ Top.met = Len(Top.items)
  /\ frames' = Front(frames)
  /\ IF Top.parent[1] \in {"Field", "InlineFragment"}
     THEN /\ query' = add_to_selection_set(query, query.parents[Top.parent[2]], Top.parent[2])
          /\ UNCHANGED at
     ELSE /\ at' = at + 1
          /\ UNCHANGED query
  /\ UNCHANGED <<document, phase, item_of, made_for>>

SelectionsResolved ==
  /\ phase = "selections" /\ frames = <<>> /\ at \notin DOMAIN document
  /\ phase' = "typenames"
  /\ UNCHANGED <<document, at, frames, query, item_of, made_for>>

------------------------------------------------------------------------------
(* Validation.                                                               *)

IsAbstract(type) == KindOf[type] \in {"Interface", "Union"}

\* Mutation: a spread is followed whatever its fragment is on.
BugContainsTypeName(type, set, inside) ==
  LET answer[c \in Seq(Nat) \X SUBSET Nat] ==
        IF c[1] = <<>> THEN "no"
        ELSE LET s == Node(Head(c[1]))
                 others == answer[<<Tail(c[1]), c[2]>>]
             IN  CASE s[1] = "Typename" -> "yes"
                   [] s[1] = "FragmentSpread" ->
                        IF s[2] \in c[2] THEN "overflow"
                        ELSE LET within == answer[<<SetOf(<<"Fragment", s[2]>>), c[2] \cup {s[2]}>>]
                             IN  IF within = "no" THEN others ELSE within
                   [] OTHER -> others
  IN  answer[<<set, inside>>]

\* selection_set_contains_type_name for a selection set on a type: "yes", "no",
\* or "overflow" when it follows a spread into a fragment it is in.
contains_type_name(type, set, inside) ==
  LET answer[c \in Seq(Nat) \X SUBSET Nat] ==
        IF c[1] = <<>> THEN "no"
        ELSE LET s == Node(Head(c[1]))
                 others == answer[<<Tail(c[1]), c[2]>>]
             IN  CASE s[1] = "Typename" -> "yes"
                   [] s[1] = "FragmentSpread" /\ query.fragments[s[2]].on = type ->
                        IF s[2] \in c[2] THEN "overflow"
                        ELSE LET within == answer[<<SetOf(<<"Fragment", s[2]>>), c[2] \cup {s[2]}>>]
                             IN  IF within = "no" THEN others ELSE within
                   [] OTHER -> others
  IN  answer[<<set, inside>>]

FieldType(id) == LET f == Node(id)[2].field_id IN FieldsOf[f[1]][f[2]].type

\* Mutation: nothing is asked of the fragments.
BugVerdicts ==
  LET fields == SelectSeq([i \in DOMAIN query.selections |-> i],
                          LAMBDA i : query.selections[i][1] = "Field" /\ IsAbstract(FieldType(i)))
  IN  [i \in DOMAIN fields |->
         contains_type_name(FieldType(fields[i]), subselection(fields[i]), {})]

\* What is asked of the fragments, then of the fields, in order.
Verdicts ==
  LET fragments == SelectSeq([i \in DOMAIN query.fragments |-> i],
                             LAMBDA i : IsAbstract(query.fragments[i].on))
      fields == SelectSeq([i \in DOMAIN query.selections |-> i],
                          LAMBDA i : query.selections[i][1] = "Field" /\ IsAbstract(FieldType(i)))
  IN  [i \in DOMAIN fragments |->
         contains_type_name(query.fragments[fragments[i]].on,
                            SetOf(<<"Fragment", fragments[i]>>), {fragments[i]})]
        \o [i \in DOMAIN fields |->
              contains_type_name(FieldType(fields[i]), subselection(fields[i]), {})]

validate_typename_presence ==
  /\ phase = "typenames"
  /\ LET refusals == SelectSeq(Verdicts, LAMBDA v : v # "yes") IN
       EndsWith(IF refusals = <<>> THEN "conditions"
                ELSE IF refusals[1] = "no" THEN "error" ELSE "overflow")

schema_type_id(parent) ==
  CASE parent[1] = "Fragment" -> query.fragments[parent[2]].on
    [] parent[1] = "Operation" -> query.operations[parent[2]].object_id
    [] parent[1] = "Field" -> FieldType(parent[2])
    [] parent[1] = "InlineFragment" -> query.selections[parent[2]][2].type_id

\* The elements of a sequence that are in a set, in their order.
Among(s, S) ==
  LET among[i \in 0..Len(s)] ==
        IF i = 0 THEN <<>>
        ELSE IF s[i] \in S THEN Append(among[i - 1], s[i]) ELSE among[i - 1]
  IN  among[Len(s)]

\* The objects an interface or a union may be.
ObjectsOf(type) ==
  CASE KindOf[type] = "Interface" ->
         Among(Objects, {o \in DOMAIN Implements : type \in Implements[o]})
    [] KindOf[type] = "Union" -> VariantsOf[type]
    [] OTHER -> <<>>

\* Of a spread on an object nothing is asked.
ConditionHolds(id) ==
  LET s == query.selections[id] IN
  s[1] \in {"FragmentSpread", "InlineFragment"} =>
    LET on == IF s[1] = "FragmentSpread" THEN query.fragments[s[2]].on ELSE s[2].type_id
        parent == schema_type_id(query.parents[id])
    IN  parent # on /\ IsAbstract(parent) => on \in ToSet(ObjectsOf(parent))

validate_type_conditions ==
  /\ phase = "conditions"
  /\ EndsWith(IF \A id \in DOMAIN query.selections : ConditionHolds(id)
              THEN "resolved" ELSE "error")
==============================================================================
