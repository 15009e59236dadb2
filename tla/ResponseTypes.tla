---------------------------- MODULE ResponseTypes ----------------------------
(***************************************************************************)
(* The types generated for the answer to an operation                      *)
(* (src/crates/codegen/src/codegen/selection.rs, the walk over the types   *)
(* used of query.rs and query/selection.rs).  Every fragment the operation *)
(* uses is rendered once, then the operation itself: calculate_selection   *)
(* makes a struct of every selection set, an enum of its variants on an    *)
(* interface or a union, and leaves to the fragments' own types what they  *)
(* select.                                                                 *)
(*                                                                         *)
(* The name of a Rust type is the sequence of what it is put together of,  *)
(* words in camel case and names as they are written; a type made while an *)
(* operation or a fragment is rendered is its number there.                *)
(***************************************************************************)
EXTENDS QueryResolution

CONSTANTS
  CamelCase,  \* of every name: the words to_camel_case makes of it
  SnakeCase,  \* of every name: what to_snake_case and keyword_replace make of it
  Words       \* of every name: its words as they are written, a capital beginning each

VARIABLES
  operation,  \* the operation code is generated for, <<>> before it is selected
  walk,       \* the selections collect_used_types has still to visit
  used,       \* UsedTypes
  rendering,  \* what is being rendered, <<>> between two
  context,    \* its ExpandedSelection
  calls,      \* the calls of calculate_selection still to be made for it
  rendered    \* the ExpandedSelections of what has been rendered

gvars == <<operation, walk, used, rendering, context, calls, rendered>>
vars == <<rvars, gvars>>

NewContext == [types |-> <<>>, fields |-> <<>>, variants |-> {}, aliases |-> {}]

Init ==
  /\ ResolutionInit
  /\ operation = <<>>
  /\ walk = <<>>
  /\ used = [types |-> {}, fragments |-> {}]
  /\ rendering = <<>>
  /\ context = NewContext
  /\ calls = <<>>
  /\ rendered = [root \in {} |-> NewContext]

------------------------------------------------------------------------------
\* Every operation is given a module, and the module looks its operation up by
\* name: select_operation, the first of the name.
SelectOperation ==
  /\ phase = "resolved" /\ operation = <<>>
  /\ \E asked \in DOMAIN query.operations :
     \E id \in Found(query.operations, query.operations[asked].name) :
       /\ operation' = <<id>>
       /\ walk' = SetOf(<<"Operation", id>>)
  /\ UNCHANGED <<rvars, used, rendering, context, calls, rendered>>

Uses(types, fragments) ==
  used' = [types |-> used.types \cup types, fragments |-> used.fragments \cup fragments]

\* collect_used_types, one selection of the walk after the other, what is inside
\* one before what follows it.
Visits(kind) == walk # <<>> /\ Node(Head(walk))[1] = kind
Walked == UNCHANGED <<rvars, operation, rendering, context, calls, rendered>>

VisitField ==
  /\ Visits("Field")
  /\ Uses({FieldType(Head(walk))}, {})
  /\ walk' = subselection(Head(walk)) \o Tail(walk)
  /\ Walked

\* Mutation: what is inside is not visited.
BugVisitInlineFragment ==
  /\ Visits("InlineFragment")
  /\ Uses({Node(Head(walk))[2].type_id}, {})
  /\ walk' = Tail(walk)
  /\ Walked

VisitInlineFragment ==
  /\ Visits("InlineFragment")
  /\ Uses({Node(Head(walk))[2].type_id}, {})
  /\ walk' = subselection(Head(walk)) \o Tail(walk)
  /\ Walked

\* Mutation: the fragment is noted and not walked.
BugVisitFragmentSpread ==
  /\ Visits("FragmentSpread")
  /\ Uses({}, {Node(Head(walk))[2]})
  /\ walk' = Tail(walk)
  /\ Walked

VisitFragmentSpread ==
  /\ Visits("FragmentSpread")
  /\ LET f == Node(Head(walk))[2] IN
       IF f \in used.fragments
       THEN /\ walk' = Tail(walk)
            /\ UNCHANGED used
       ELSE /\ Uses({}, {f})
            /\ walk' = SetOf(<<"Fragment", f>>) \o Tail(walk)
  /\ Walked

VisitTypename ==
  /\ Visits("Typename")
  /\ walk' = Tail(walk)
  /\ UNCHANGED used
  /\ Walked

------------------------------------------------------------------------------
(* The names of what is rendered.                                            *)

Segment(id) ==
  CASE Node(id)[1] = "Field" ->
         LET f == Node(id)[2]
         IN  CamelCase[IF f.alias # <<>> THEN f.alias[1] ELSE f.field_id[2]]
    [] Node(id)[1] = "InlineFragment" -> <<"On">> \o CamelCase[Node(id)[2].type_id]

\* Mutation: the nearest segment alone.
BugAbove(id) ==
  LET parent == query.parents[id] IN
  CASE parent[1] = "Operation" -> CamelCase[query.operations[parent[2]].name]
    [] parent[1] = "Fragment" -> CamelCase[query.fragments[parent[2]].name]
    [] OTHER -> Segment(parent[2])

\* The segments of the selections around a selection, from the root on.
Above(id) ==
  LET above[i \in Nat] ==
        LET parent == query.parents[i] IN
        CASE parent[1] = "Operation" -> CamelCase[query.operations[parent[2]].name]
          [] parent[1] = "Fragment" -> CamelCase[query.fragments[parent[2]].name]
          [] OTHER -> above[parent[2]] \o Segment(parent[2])
  IN  above[id]

full_path_prefix(id) == Above(id) \o (IF Node(id)[1] = "Field" THEN Segment(id) ELSE <<>>)

\* Mutation: what a field has inside is not looked into.
BugContainsFragment(id, f) == Node(id)[1] = "FragmentSpread" /\ Node(id)[2] = f

contains_fragment(id, f) ==
  LET contains[i \in Nat] ==
        IF Node(i)[1] = "FragmentSpread" THEN Node(i)[2] = f
        ELSE \E j \in DOMAIN subselection(i) : contains[subselection(i)[j]]
  IN  contains[id]

fragment_is_recursive(f) ==
  \E i \in DOMAIN SetOf(<<"Fragment", f>>) : contains_fragment(SetOf(<<"Fragment", f>>)[i], f)

Key(id) ==
  LET f == Node(id)[2] IN IF f.alias # <<>> THEN f.alias[1] ELSE f.field_id[2]

------------------------------------------------------------------------------
(* calculate_selection.  What it adds is a context and the calls it makes.   *)

\* The struct of a selection set on a type is noted with them, for the properties.
Type(name, set, on) == [name |-> name, set |-> set, on |-> on]
Call(struct, set, on) == [struct |-> struct, set |-> set, on |-> on]

AliasOf(struct, f) ==
  [struct |-> struct, name |-> <<query.fragments[f].name>>, boxed |-> fragment_is_recursive(f)]

\* The field of a fragment that is part of a struct.
Flattened(struct, id) ==
  LET f == Node(id)[2] IN
  [struct |-> struct, id |-> id, graphql_name |-> <<>>,
   rust_name |-> SnakeCase[query.fragments[f].name], type |-> <<query.fragments[f].name>>,
   list |-> FALSE, flatten |-> TRUE, boxed |-> fragment_is_recursive(f)]

FieldOf(struct, id, type) ==
  LET f == Node(id)[2].field_id IN
  [struct |-> struct, id |-> id, graphql_name |-> <<Key(id)>>, rust_name |-> SnakeCase[Key(id)],
   type |-> type, list |-> FieldsOf[f[1]][f[2]].list, flatten |-> FALSE, boxed |-> FALSE]

IsLoneSpread(set) == Len(set) = 1 /\ Node(set[1])[1] = "FragmentSpread"
SpreadOn(id) == query.fragments[Node(id)[2]].on

\* Mutation: the spreads on a variant are left out.
BugOnVariant(set, on, variant) ==
  Among(set, {id \in ToSet(set) :
    Node(id)[1] = "InlineFragment" /\ Node(id)[2].type_id = variant})

\* The inline fragments and spreads on a variant.
OnVariant(set, on, variant) ==
  Among(set, {id \in ToSet(set) :
    \/ Node(id)[1] = "InlineFragment" /\ Node(id)[2].type_id = variant
    \/ Node(id)[1] = "FragmentSpread" /\ SpreadOn(id) # on /\ SpreadOn(id) = variant})

\* A variant of an enum with the type that holds what is selected on it.
AddVariant(done, call, variant) ==
  LET selections == OnVariant(call.set, call.on, variant)
      name == full_path_prefix(selections[1]) \o <<"On", variant>>
      struct == Len(done.types) + 1
      spreads == Among(selections, {id \in ToSet(selections) : Node(id)[1] = "FragmentSpread"})
      inlines == Among(selections, {id \in ToSet(selections) : Node(id)[1] = "InlineFragment"})
      with == [done EXCEPT !.types = Append(@, Type(name, <<>>, variant)),
                           !.variants = @ \cup {[on |-> call.struct, name |-> variant,
                                                 variant_type |-> <<struct>>]}]
  IN  CASE selections = <<>> ->
             [done EXCEPT !.variants = @ \cup {[on |-> call.struct, name |-> variant,
                                                variant_type |-> <<>>]}]
        [] IsLoneSpread(selections) ->
             [with EXCEPT !.aliases = @ \cup {AliasOf(struct, Node(selections[1])[2])}]
        [] OTHER ->
             \* Of every inline fragment, the selection set of the first selection.
             [with EXCEPT !.fields = @ \o [i \in DOMAIN spreads |-> Flattened(struct, spreads[i])],
                          !.calls = @ \o [i \in DOMAIN inlines |->
                                            Call(struct, subselection(selections[1]), variant)]]

\* Mutation: every fragment spread is part of the struct, whatever it is on.
BugAddSelection(done, call, id) ==
  CASE Node(id)[1] = "Field" /\ ~IsComposite(FieldType(id)) ->
         [done EXCEPT !.fields = Append(@, FieldOf(call.struct, id, <<FieldType(id)>>))]
    [] Node(id)[1] = "Field" /\ IsComposite(FieldType(id)) ->
         LET name == full_path_prefix(id)
             set == subselection(id)
         IN  [done EXCEPT !.fields = Append(@, FieldOf(call.struct, id, name)),
                          !.types = Append(@, Type(name, set, FieldType(id))),
                          !.calls = Append(@, Call(Len(done.types) + 1, set, FieldType(id)))]
    [] Node(id)[1] = "FragmentSpread" ->
         [done EXCEPT !.fields = Append(@, Flattened(call.struct, id))]
    [] OTHER -> done

AddSelection(done, call, id) ==
  CASE Node(id)[1] = "Field" /\ ~IsComposite(FieldType(id)) ->
         [done EXCEPT !.fields = Append(@, FieldOf(call.struct, id, <<FieldType(id)>>))]
    [] Node(id)[1] = "Field" /\ IsComposite(FieldType(id)) ->
         LET name == full_path_prefix(id)
             set == subselection(id)
         IN  [done EXCEPT !.fields = Append(@, FieldOf(call.struct, id, name)),
                          !.types = Append(@, Type(name, set, FieldType(id))),
                          !.calls = Append(@, Call(Len(done.types) + 1, set, FieldType(id)))]
    [] Node(id)[1] = "FragmentSpread" /\ SpreadOn(id) = call.on ->
         [done EXCEPT !.fields = Append(@, Flattened(call.struct, id))]
    [] OTHER -> done

\* The variants of the type of a call, one after the other, then its selections.
WithVariants(start, call, objects) ==
  LET with[i \in 0..Len(objects)] ==
        IF i = 0 THEN start ELSE AddVariant(with[i - 1], call, objects[i])
  IN  with[Len(objects)]
WithSelections(start, call) ==
  LET with[i \in 0..Len(call.set)] ==
        IF i = 0 THEN start ELSE AddSelection(with[i - 1], call, call.set[i])
  IN  with[Len(call.set)]

calculate_selection(call) ==
  LET start == [calls |-> <<>>, types |-> context.types, fields |-> context.fields,
                variants |-> context.variants, aliases |-> context.aliases]
  IN  IF IsLoneSpread(call.set)
      THEN [start EXCEPT !.aliases = @ \cup {AliasOf(call.struct, Node(call.set[1])[2])}]
      ELSE WithSelections(WithVariants(start, call, ObjectsOf(call.on)), call)

------------------------------------------------------------------------------
Resolved == operation # <<>> /\ walk = <<>>

\* render_fragment for every fragment used, render_response_data_fields last.
RenderNext ==
  /\ Resolved /\ rendering = <<>>
  /\ LET waiting == {f \in used.fragments : <<"Fragment", f>> \notin DOMAIN rendered}
         root == IF waiting # {} THEN <<"Fragment", CHOOSE f \in waiting : TRUE>>
                 ELSE <<"Operation", operation[1]>>
         named == IF waiting # {} THEN query.fragments[root[2]] ELSE query.operations[root[2]]
         on == schema_type_id(root)
     IN  /\ root \notin DOMAIN rendered
         /\ rendering' = root
         /\ context' = [NewContext EXCEPT !.types = <<Type(<<named.name>>, SetOf(root), on)>>]
         /\ calls' = <<Call(1, SetOf(root), on)>>
  /\ UNCHANGED <<rvars, operation, walk, used, rendered>>

CalculateSelection ==
  /\ calls # <<>>
  /\ LET done == calculate_selection(Head(calls)) IN
       /\ context' = [part \in DOMAIN context |-> done[part]]
       /\ calls' = done.calls \o Tail(calls)
  /\ UNCHANGED <<rvars, operation, walk, used, rendering, rendered>>

Rendered ==
  /\ rendering # <<>> /\ calls = <<>>
  /\ rendered' = [root \in DOMAIN rendered \cup {rendering} |->
                    IF root = rendering THEN context ELSE rendered[root]]
  /\ rendering' = <<>>
  /\ context' = NewContext
  /\ UNCHANGED <<rvars, operation, walk, used, calls>>

Next ==
  \/ CreateFragment /\ UNCHANGED gvars
  \/ CreateOperation /\ UNCHANGED gvars
  \/ RootsCreated /\ UNCHANGED gvars
  \/ BeginDefinition /\ UNCHANGED gvars
  \/ SelectTypename /\ UNCHANGED gvars
  \/ SelectField /\ UNCHANGED gvars
  \/ SelectInlineFragment /\ UNCHANGED gvars
  \/ SelectFragmentSpread /\ UNCHANGED gvars
  \/ ReturnFromSelection /\ UNCHANGED gvars
  \/ SelectionsResolved /\ UNCHANGED gvars
  \/ validate_typename_presence /\ UNCHANGED gvars
  \/ validate_type_conditions /\ UNCHANGED gvars
  \/ SelectOperation
  \/ VisitField \/ VisitInlineFragment \/ VisitFragmentSpread \/ VisitTypename
  \/ RenderNext \/ CalculateSelection \/ Rendered

Spec == Init /\ [][Next]_vars

------------------------------------------------------------------------------
(* Resolution.                                                               *)

\* The items of the definitions of a name, one after the other, up to one of them.
ItemsFor(d, kind, n) == IF d[1] = kind /\ NameOf(d) = n THEN Body(d).selection_set ELSE <<>>
ItemsUnder(kind, n) ==
  LET under[i \in 0..Len(document)] ==
        IF i = 0 THEN <<>> ELSE under[i - 1] \o ItemsFor(document[i], kind, n)
  IN  under

\* What is written in the text for a fragment, an operation or a selection: of the
\* definitions of one name the first has the items of all, the others have none.
FirstOfItsName(named, i) == \A j \in 1..i-1 : named[j].name # named[i].name
WrittenIn(kind, named, i) ==
  IF FirstOfItsName(named, i) THEN ItemsUnder(kind, named[i].name)[Len(document)] ELSE <<>>
ItemsOf(parent) ==
  CASE parent[1] = "Fragment" -> WrittenIn("Fragment", query.fragments, parent[2])
    [] parent[1] = "Operation" -> WrittenIn("Operation", query.operations, parent[2])
    [] parent[1] \in {"Field", "InlineFragment"} -> item_of[parent[2]][2].selection_set
    [] OTHER -> <<>>

\* The type a selection gives those inside it.
TypeInside(parent) ==
  IF parent[1] = "Field" THEN FieldType(parent[2]) ELSE Node(parent[2])[2].type_id

\* What is kept of an item: not the alias of a __typename.
MadeOf(id, item) ==
  CASE Node(id)[1] = "Typename" -> item[1] = "Field" /\ item[2].name = TYPENAME_FIELD
    [] Node(id)[1] = "Field" ->
         LET f == Node(id)[2]
             parent == query.parents[id]
         IN  /\ item[1] = "Field" /\ item[2].name = f.field_id[2] /\ item[2].name # TYPENAME_FIELD
             /\ f.alias = item[2].alias
             /\ parent[1] \in {"Field", "InlineFragment"} => f.field_id[1] = TypeInside(parent)
    [] Node(id)[1] = "InlineFragment" ->
         item[1] = "InlineFragment" /\ item[2].type_condition[1][2] = Node(id)[2].type_id
    [] Node(id)[1] = "FragmentSpread" ->
         /\ item[1] = "FragmentSpread"
         /\ item[2].fragment_name = query.fragments[Node(id)[2]].name
         /\ FirstOfItsName(query.fragments, Node(id)[2])

\* What has been resolved is the document: every selection set has the items written
\* there and no other, in their order, and every selection is in the set of the one
\* parent the index has for it, once (query.rs:483, query.rs:523, query.rs:531).
ResolvedAsWritten ==
  phase \in {"typenames", "conditions", "overflow", "resolved"} =>
    /\ \A p \in DOMAIN query.sets :
         /\ Len(SetOf(p)) = Len(ItemsOf(p))
         /\ \A i \in DOMAIN SetOf(p) :
              LET id == SetOf(p)[i] IN
              /\ query.parents[id] = p
              /\ item_of[id] = ItemsOf(p)[i]
              /\ MadeOf(id, ItemsOf(p)[i])
    /\ \A id \in DOMAIN query.selections :
         LET set == SetOf(query.parents[id]) IN
         \E i \in DOMAIN set : set[i] = id /\ \A j \in DOMAIN set : set[j] = id => j = i

\* The fragments spread in what is selected in a definition, but not inside the
\* fragments spread.
SpreadsIn(root) ==
  {Node(id)[2] : id \in {i \in DOMAIN query.selections :
                           made_for[i] = root /\ Node(i)[1] = "FragmentSpread"}}
Spreads == [f \in DOMAIN query.fragments |-> SpreadsIn(<<"Fragment", f>>)]
\* Those that stand in the selection set of a fragment itself and are on its type.
SpreadsOnSameType ==
  [f \in DOMAIN query.fragments |->
     {Node(id)[2] : id \in {i \in ToSet(SetOf(<<"Fragment", f>>)) :
                              Node(i)[1] = "FragmentSpread" /\ SpreadOn(i) = query.fragments[f].on}}]

\* What successors lead to from a set of nodes, the set included.
Closure(successors, nodes) ==
  LET closure[ns \in SUBSET DOMAIN successors] ==
        LET more == ns \cup UNION {successors[n] : n \in ns}
        IN  IF more = ns THEN ns ELSE closure[more]
  IN  closure[nodes]
OnCycle(successors, n) == n \in Closure(successors, successors[n])

\* The search for __typename overflows the stack only on a document that has a
\* fragment which spreads itself, by way of fragments on its own type
\* (validation.rs:62).
OverflowsOnlyOnCycles ==
  phase = "overflow" =>
    \E f \in DOMAIN query.fragments :
      IsAbstract(query.fragments[f].on) /\ OnCycle(SpreadsOnSameType, f)

\* collect_used_types reaches the fragments an operation leads to, one by one, and
\* ends when it has them all, whatever cycles they form: it implements the search
\* of a graph.
R == INSTANCE Reachable WITH
       root <- IF operation = <<>> THEN {} ELSE SpreadsIn(<<"Operation", operation[1]>>),
       refs <- Spreads,
       reached <- used.fragments,
       done <- Resolved
CollectsWhatIsSpread == R!Spec

------------------------------------------------------------------------------
(* What the server answers, and what the types generated read of it.         *)

Done == operation # <<>> /\ <<"Operation", operation[1]>> \in DOMAIN rendered
Possible(type) == IF KindOf[type] = "Object" THEN {type} ELSE ToSet(ObjectsOf(type))
Structs == UNION {{<<root, i>> : i \in DOMAIN rendered[root].types} : root \in DOMAIN rendered}
TypeAt(s) == rendered[s[1]].types[s[2]]
FieldsAt(s) == SelectSeq(rendered[s[1]].fields, LAMBDA f : f.struct = s[2])
VariantsAt(s) == {v \in rendered[s[1]].variants : v.on = s[2]}
AliasesAt(s) == {a \in rendered[s[1]].aliases : a.struct = s[2]}
\* The type of the fragment of a name.
OfFragment(n) == <<"Fragment", CHOOSE f \in Found(query.fragments, n[1]) : TRUE>>
FragmentType(n) == <<OfFragment(n), 1>>

\* The structs whose selection set the query has, with the set and its type.
Selecting == {s \in Structs : TypeAt(s).set # <<>>}

\* The selections the server answers for an object of a type, those of the
\* fragments that apply among them, each as often as it is come upon; a fragment is
\* not gone into inside itself.
Collected(set, object, inside) ==
  LET collected[c \in Seq(Nat) \X SUBSET Nat] ==
        IF c[1] = <<>> THEN <<>>
        ELSE LET id == Head(c[1])
                 others == collected[<<Tail(c[1]), c[2]>>]
             IN  CASE Node(id)[1] = "InlineFragment" /\ object \in Possible(Node(id)[2].type_id) ->
                        collected[<<subselection(id), c[2]>>] \o others
                   [] Node(id)[1] = "FragmentSpread" /\ object \in Possible(SpreadOn(id))
                        /\ Node(id)[2] \notin c[2] ->
                        collected[<<SetOf(<<"Fragment", Node(id)[2]>>), c[2] \cup {Node(id)[2]}>>]
                          \o others
                   [] Node(id)[1] \in {"Field", "Typename"} -> <<id>> \o others
                   [] OTHER -> others
  IN  collected[<<set, inside>>]

AnsweredAs(id) ==
  LET i == item_of[id][2] IN IF i.alias # <<>> THEN i.alias[1] ELSE i.name
FieldsSelected(set, object, inside) ==
  SelectSeq(Collected(set, object, inside), LAMBDA id : Node(id)[1] = "Field")
Selected(set, object) == {AnsweredAs(id) : id \in ToSet(FieldsSelected(set, object, {}))}
Answer(set, object) == {AnsweredAs(id) : id \in ToSet(Collected(set, object, {}))}

\* The names of the fragments inside which a type is looked at.
FragmentNames == {<<query.fragments[f].name>> : f \in DOMAIN query.fragments}

\* The keys that the fields of a type are named for, those of the types that are part
\* of it among them.
Asks(struct, object) ==
  LET asks[c \in Structs \X SUBSET FragmentNames] ==
        LET s == c[1]
            of(n) == IF n \in c[2] THEN {} ELSE asks[<<FragmentType(n), c[2] \cup {n}>>]
            fields == ToSet(FieldsAt(s))
            variant == {v \in VariantsAt(s) : v.name = object /\ v.variant_type # <<>>}
        IN  IF AliasesAt(s) # {} THEN UNION {of(a.name) : a \in AliasesAt(s)}
            ELSE {f.graphql_name[1] : f \in {g \in fields : ~g.flatten}}
                   \cup UNION {of(f.type) : f \in {g \in fields : g.flatten}}
                   \cup UNION {asks[<< <<s[1], v.variant_type[1]>>, c[2]>>] : v \in variant}
  IN  asks[<<struct, {}>>]

\* What a type's Deserialize makes of the keys it is given of the answer for an object:
\* whether it finds all it must have, what it reads, and what it takes from the type
\* it is flattened into.  A struct without fields is an enum with the tag
\* __typename; it reads what is left without the tag.  A struct whose fields are its own
\* takes their keys; one that has others flattened into it reads its own keys first,
\* leaves the others' to them one after the other, and takes nothing, no more than an
\* enum does.  A field whose key is missing is an error, or None if it is nullable.  A
\* fragment met again inside itself never ends.
Read(ok, read, taken) == [ok |-> ok, read |-> read, taken |-> taken]
Deserialize(struct, object, answer) ==
  LET reading[c \in Structs \X (SUBSET answer) \X SUBSET FragmentNames] ==
        LET s == c[1]
            keys == c[2]
            of(n, given) ==
              IF n \in c[3] THEN Read(FALSE, {}, {})
              ELSE reading[<<FragmentType(n), given, c[3] \cup {n}>>]
            enum(given) ==
              LET variant == {v \in VariantsAt(s) : v.name = object /\ TYPENAME_FIELD \in given}
                  inner == {reading[<< <<s[1], v.variant_type[1]>>, given \ {TYPENAME_FIELD}, c[3]>>] :
                              v \in {w \in variant : w.variant_type # <<>>}}
              IN  Read(variant # {} /\ \A i \in inner : i.ok, UNION {i.read : i \in inner}, {})
            own == {f.graphql_name[1] : f \in {g \in ToSet(FieldsAt(s)) : ~g.flatten}}
            parts == SelectSeq(FieldsAt(s), LAMBDA f : f.flatten)
            with[i \in 0..Len(parts)] ==
              IF i = 0 THEN Read(own \subseteq keys, own \cap keys, own)
              ELSE LET before == with[i - 1]
                       part == of(parts[i].type, keys \ before.taken)
                   IN  Read(before.ok /\ part.ok, before.read \cup part.read,
                            before.taken \cup part.taken)
            fields == with[Len(parts)]
            rest == enum(keys \ fields.taken)
        IN  CASE AliasesAt(s) # {} -> of((CHOOSE a \in AliasesAt(s) : TRUE).name, keys)
              [] AliasesAt(s) = {} /\ FieldsAt(s) = <<>> -> enum(keys)
              [] AliasesAt(s) = {} /\ FieldsAt(s) # <<>> /\ VariantsAt(s) # {} ->
                   Read(fields.ok /\ rest.ok, fields.read \cup rest.read, {})
              [] OTHER -> Read(fields.ok, fields.read, IF parts = <<>> THEN own ELSE {})
  IN  reading[<<struct, answer, {}>>]

\* Whether what a query selects on a type is what the generated types can read of an
\* object.  A lone spread is its fragment.  Otherwise: something stands on the type
\* itself, or the type is abstract and the answer says which object it is, outside of
\* any variant; every fragment spread on the type itself fits; on the object's
\* variant either an inline fragment comes first, and the spreads are put beside what
\* it selects, or there are spreads alone; and what is passed over selects nothing: an
\* inline fragment or spread on any other type, a later inline fragment on the variant,
\* and the spreads beside an inline fragment that is a lone spread.
Fits(selected, type, object) ==
  LET tagged == TYPENAME_FIELD \in Answer(selected, object)
      fits[c \in Seq(Nat) \X (DOMAIN KindOf) \X BOOLEAN \X SUBSET Nat] ==
        LET set == c[1]
            on == c[2]
            kind(k) == {id \in ToSet(set) : Node(id)[1] = k}
            follows(id) ==
              LET f == Node(id)[2] IN
              /\ f \notin c[4] /\ object \in Possible(SpreadOn(id))
              /\ fits[<<SetOf(<<"Fragment", f>>), SpreadOn(id), c[3], c[4] \cup {f}>>]
            direct == {id \in kind("FragmentSpread") : SpreadOn(id) = on}
            variant == IF ~IsAbstract(on) THEN <<>>
                       ELSE Among(set, {id \in kind("InlineFragment") : Node(id)[2].type_id = object}
                                         \cup {id \in kind("FragmentSpread") : SpreadOn(id) = object})
            spreads == Among(variant, kind("FragmentSpread"))
            first == variant[1]
            inner == CASE Node(first)[1] = "FragmentSpread" -> spreads
                       [] IsLoneSpread(subselection(first)) -> subselection(first)
                       [] OTHER -> subselection(first) \o spreads
            kept == IF variant = <<>> THEN {} ELSE {first} \cup (ToSet(inner) \cap ToSet(set))
        IN  IF IsLoneSpread(set) THEN follows(set[1])
            ELSE /\ IsAbstract(on) \/ kind("Field") \cup direct # {}
                 /\ IsAbstract(on) => c[3]
                 /\ \A id \in direct : follows(id)
                 /\ variant # <<>> => fits[<<inner, object, FALSE, c[4]>>]
                 /\ \A id \in (kind("InlineFragment") \cup kind("FragmentSpread")) \ (direct \cup kept) :
                      FieldsSelected(<<id>>, object, c[4]) = <<>>
  IN  fits[<<selected, type, tagged, {}>>]

\* No key is come upon twice in what is answered for an object.
OncePerKey(set, object) ==
  LET fields == FieldsSelected(set, object, {}) IN
  \A i, j \in DOMAIN fields : AnsweredAs(fields[i]) = AnsweredAs(fields[j]) => i = j

\* A key of a selection set is one of a fragment spread beside it, too.
TakenFirst(set, on) ==
  \E id, spread \in ToSet(set) :
    /\ Node(id)[1] = "Field" /\ Node(spread)[1] = "FragmentSpread" /\ SpreadOn(spread) = on
    /\ \E inside \in ToSet(SetOf(<<"Fragment", Node(spread)[2]>>)) :
         Node(inside)[1] = "Field" /\ AnsweredAs(inside) = AnsweredAs(id)

\* What the generated types read of an answer is all of it, without an error, exactly
\* when the selection set fits: where the query is read otherwise than it is written,
\* the server's answer is lost or refused.  That is so when no key is come upon
\* twice; a key that a struct and a fragment flattened into it both have is
\* taken by the struct, and the fragment fails for want of it.
AnswersAreRead ==
  Done => \A s \in Selecting : \A o \in Possible(TypeAt(s).on) :
    LET t == TypeAt(s)
        reading == Deserialize(s, o, Answer(t.set, o))
        whole == reading.ok /\ Selected(t.set, o) \subseteq reading.read
    IN  /\ OncePerKey(t.set, o) => (whole <=> Fits(t.set, t.on, o))
        /\ TakenFirst(t.set, t.on) => ~reading.ok

\* No type has a field for a key the query does not ask for there, so none fails for
\* want of it, whatever is passed over, on a document the server accepts: one that
\* spreads nothing where it cannot apply.
SpreadsApply ==
  \A id \in DOMAIN query.selections :
    Node(id)[1] \in {"InlineFragment", "FragmentSpread"} =>
      Possible(schema_type_id(query.parents[id]))
        \cap Possible(IF Node(id)[1] = "FragmentSpread" THEN SpreadOn(id) ELSE Node(id)[2].type_id) # {}
NothingElseIsRead ==
  Done /\ SpreadsApply => \A s \in Selecting : \A o \in Possible(TypeAt(s).on) :
    Asks(s, o) \subseteq Selected(TypeAt(s).set, o)

\* Where an enum is generated that is told from the answer's __typename, the answer
\* has one, although it may be asked for in a fragment alone; unless the document
\* asks for it under another name (query.rs:281 looks at the name only).  Whether the
\* enum is given it, AnswersAreRead says.
AliasedTypename ==
  \E id \in DOMAIN query.selections : Node(id)[1] = "Typename" /\ item_of[id][2].alias # <<>>
TypenameIsAnswered ==
  Done /\ ~AliasedTypename =>
    \A s \in {x \in Structs : VariantsAt(x) # {}} : \A o \in Possible(TypeAt(s).on) :
      \E id \in ToSet(Collected(TypeAt(s).set, o, {})) : Node(id)[1] = "Typename"

------------------------------------------------------------------------------
(* The module generated as Rust.                                             *)

\* Every type that is named is defined: what collect_used_types has found is what
\* calculate_selection names, although they walk the query each its own way.
NothingDangles ==
  Done => \A root \in DOMAIN rendered :
    LET defined == {TypeAt(s).name : s \in Structs} IN
    /\ \A f \in ToSet(rendered[root].fields) :
         IF f.flatten \/ IsComposite(FieldType(f.id)) THEN f.type \in defined
         ELSE f.type[1] \in used.types
    /\ \A a \in rendered[root].aliases : a.name \in defined

\* The types a type holds by value.
ByValue ==
  [s \in Structs |->
     {FragmentType(a.name) : a \in {b \in AliasesAt(s) : ~b.boxed}}
       \cup {x \in Structs : x[1] = s[1] /\ \E v \in VariantsAt(s) : v.variant_type = <<x[2]>>}
       \cup UNION {IF f.flatten THEN {FragmentType(f.type)}
                   ELSE {x \in Structs : x[1] = s[1] /\ TypeAt(x).name = f.type} :
                     f \in {g \in ToSet(FieldsAt(s)) : ~g.boxed /\ ~g.list}}]

\* No type holds itself by value, unless two fragments spread each other: only
\* the fragment that spreads itself is boxed (query/selection.rs:207).
FiniteUnlessMutual ==
  Done => \/ \A s \in Structs : ~OnCycle(ByValue, s)
          \/ \E f, g \in used.fragments :
               f # g /\ g \in Closure(Spreads, Spreads[f]) /\ f \in Closure(Spreads, Spreads[g])

\* The text of a type's name; every word has itself in it.
Text(name) == FlattenSeq([i \in DOMAIN name |-> Words[name[i]]])

\* What a selection adds to the names of types, and the field it is in Rust.
NameWords(id) ==
  CASE Node(id)[1] = "Field" -> CamelCase[Key(id)]
    [] Node(id)[1] = "InlineFragment" -> <<"On">> \o CamelCase[Node(id)[2].type_id]
    [] Node(id)[1] = "FragmentSpread" -> <<"On">> \o CamelCase[SpreadOn(id)]
RustField(id) == SnakeCase[IF Node(id)[1] = "Field" THEN Key(id) ELSE query.fragments[Node(id)[2]].name]

\* What may be in one struct: what is in one set, or in the inline fragments of one.
Level(id) ==
  LET parent == query.parents[id] IN
  IF parent[1] = "InlineFragment" THEN {parent, query.parents[parent[2]]} ELSE {parent}

\* The names a document gives keep apart once they are converted: in one selection set
\* no selection's words begin another's, but for spreads beside an inline fragment on
\* their type; no two fields of a struct, its field on among them, are one in snake
\* case; the words of no operation or fragment begin another's; and operations, fragments
\* and types are named in camel case.
Apart ==
  LET of(kinds) == {id \in DOMAIN query.selections : Node(id)[1] \in kinds}
      roots == [i \in 1..Len(query.fragments) + 1 |->
                  IF i > Len(query.fragments) THEN query.operations[operation[1]].name
                  ELSE query.fragments[i].name]
  IN  /\ \A a \in of({"Field", "InlineFragment"}), b \in of({"Field", "InlineFragment", "FragmentSpread"}) :
           a # b /\ query.parents[a] = query.parents[b] =>
             \/ ~IsPrefix(NameWords(a), NameWords(b)) /\ ~IsPrefix(NameWords(b), NameWords(a))
             \/ NameWords(a) = NameWords(b) /\ Node(b)[1] = "FragmentSpread"
      /\ \A a, b \in of({"Field", "FragmentSpread"}) :
           a # b /\ Level(a) \cap Level(b) # {} => RustField(a) # RustField(b)
      /\ \A id \in of({"Field", "FragmentSpread"}) : RustField(id) # "on"
      /\ \A i, j \in DOMAIN roots : i # j => ~IsPrefix(CamelCase[roots[i]], CamelCase[roots[j]])
      /\ \A n \in ToSet(roots) \cup {Node(id)[2].type_id : id \in of({"InlineFragment"})}
                 \cup {SpreadOn(id) : id \in of({"FragmentSpread"})} : Words[n] = CamelCase[n]

\* A struct that has both fields and variants has a field on and an enum beside it.
HasOn(s) == AliasesAt(s) = {} /\ FieldsAt(s) # <<>> /\ VariantsAt(s) # {}
NamesMade(s) ==
  {Text(TypeAt(s).name)} \cup (IF HasOn(s) THEN {Text(TypeAt(s).name \o <<"On">>)} ELSE {})

\* No two types generated for an answer have one name, and no two fields of a struct,
\* although both are put together of words with nothing between them and case is
\* folded, when the names of the document keep apart (selection.rs:342, selection.rs:489).
NamesAreDistinct ==
  Done /\ Apart =>
    /\ \A s, x \in Structs : s # x => NamesMade(s) \cap NamesMade(x) = {}
    /\ \A s \in Structs : LET fields == FieldsAt(s) IN
         /\ \A i, j \in DOMAIN fields : fields[i].rust_name = fields[j].rust_name => i = j
         /\ HasOn(s) => \A i \in DOMAIN fields : fields[i].rust_name # "on"

\* The text the generated module sends defines every fragment that the operation
\* leads to, so that a server has what the types were generated for (README.md:12
\* says fragments are supported, generated_module.rs:131 has the text sent).
FragmentsAreSent ==
  Resolved => \A f \in used.fragments :
    \E d \in ToSet(query.operations[operation[1]].query_string) :
      d[1] = "Fragment" /\ d[2].name = query.fragments[f].name
==============================================================================
