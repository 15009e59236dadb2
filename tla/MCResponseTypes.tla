--------------------------- MODULE MCResponseTypes ---------------------------
(***************************************************************************)
(* A schema with an interface, a union and two objects that are in both,   *)
(* and documents with a query and two fragments, which may spread each     *)
(* other and themselves.                                                   *)
(***************************************************************************)
EXTENDS ResponseTypes, TLC

One(type) == [type |-> type, list |-> FALSE]
Many(type) == [type |-> type, list |-> TRUE]

MCKindOf ==
  [Query |-> "Object", Dog |-> "Object", Cat |-> "Object", Pet |-> "Interface", Any |-> "Union",
   Kind |-> "Enum", String |-> "Scalar"]
MCFieldsOf ==
  [Query |-> [pet |-> One("Pet"), pets |-> Many("Pet"), dog |-> One("Dog"), any |-> One("Any")],
   Dog |-> [name |-> One("String"), friend |-> One("Pet"), kind |-> One("Kind")],
   Cat |-> [name |-> One("String"), friend |-> One("Pet"), lives |-> One("String")],
   Pet |-> [name |-> One("String"), friend |-> One("Pet"), friends |-> Many("Pet")]]
MCImplements == [Query |-> {}, Dog |-> {"Pet"}, Cat |-> {"Pet"}]
MCVariantsOf == [Any |-> <<"Cat", "Dog">>]
MCObjects == <<"Query", "Dog", "Cat">>
MCRootType == [Query |-> <<"Query">>, Mutation |-> <<>>, Subscription |-> <<"Query">>]

\* The names the documents have, in camel and in snake case.
Names == {"Q", "R", "F", "G", "A", "B", "AB", "Ab", "QPet", "Dog", "Cat", "Pet", "Any", "String",
          "Kind", "Name", "Friend", "Friends", "Lives", "Pets", "Other", "On", "name", "friend",
          "friends", "kind", "lives", "pet", "pets", "dog", "any", "other", "on", "b", "petFriend"}
Capitals ==
  [name |-> "Name", friend |-> "Friend", friends |-> "Friends", kind |-> "Kind", lives |-> "Lives",
   pet |-> "Pet", pets |-> "Pets", dog |-> "Dog", any |-> "Any", other |-> "Other", on |-> "On",
   b |-> "B", AB |-> "Ab"]
MCCamelCase ==
  "petFriend" :> <<"Pet", "Friend">> @@ "QPet" :> <<"Q", "Pet">>
    @@ [n \in Names |-> IF n \in DOMAIN Capitals THEN <<Capitals[n]>> ELSE <<n>>]
MCSnakeCase ==
  "petFriend" :> "pet_friend" @@ "QPet" :> "q_pet" @@ "AB" :> "ab" @@ "Ab" :> "ab"
    @@ [n \in Names |-> IF \E k \in DOMAIN Capitals : Capitals[k] = n
                          THEN CHOOSE k \in DOMAIN Capitals : Capitals[k] = n ELSE n]
MCWords ==
  "petFriend" :> <<"pet", "Friend">> @@ "QPet" :> <<"Q", "Pet">> @@ "AB" :> <<"A", "B">>
    @@ [n \in Names |-> <<n>>]

------------------------------------------------------------------------------
Field(n, items) == <<"Field", [name |-> n, alias |-> <<>>, selection_set |-> items]>>
Aliased(a, n, items) == <<"Field", [name |-> n, alias |-> <<a>>, selection_set |-> items]>>
On(type, items) ==
  <<"InlineFragment", [type_condition |-> << <<"On", type>> >>, selection_set |-> items]>>
Spread(f) == <<"FragmentSpread", [fragment_name |-> f]>>
T == Field("__typename", <<>>)
Name == Field("name", <<>>)
Kind == Field("kind", <<>>)
Friend(items) == Field("friend", items)

Fragment(n, type, items) ==
  <<"Fragment", [name |-> n, type_condition |-> <<"On", type>>, selection_set |-> items]>>
Operation(kind, n, items) == <<"Operation", <<kind, [name |-> n, selection_set |-> items]>> >>
Query(items) == Operation("Query", <<"Q">>, items)

\* The fragments the queries spread.
Fs == {Fragment("F", "Pet", items) : items \in {
         <<T, Name>>, <<Name>>, <<T, Friend(<<Spread("F")>>)>>, <<Spread("F")>>, <<Name, Spread("G"), T>>,
         <<T, On("Dog", <<Kind, Friend(<<Spread("G"), T>>)>>)>>}}
       \cup {Fragment("F", "Dog", items) : items \in {<<Kind>>, <<T>>, <<Spread("G"), Name>>}}
Gs == {Fragment("G", "Pet", items) : items \in {
         <<T, Name>>, <<Spread("F"), T>>, <<T, Field("friends", <<T, Spread("F")>>)>>}}
       \cup {Fragment("G", "Dog", items) : items \in {<<Kind, Name>>, <<Kind, Spread("F")>>, <<Friend(<<T, Spread("F")>>)>>}}
       \cup {Fragment("G", "Cat", <<Field("lives", <<>>)>>)}

AnyItems ==
  {On("Dog", <<Name>>), On("Dog", <<Kind, Friend(<<T>>)>>), On("Dog", <<T>>),
   On("Cat", <<Name>>), Spread("F"), Spread("G"), On("Dog", <<Spread("G")>>)}
PetItems ==
  AnyItems \cup {Name, Friend(<<T>>), Friend(<<Spread("F")>>), On("Pet", <<Name>>)}
DogItems ==
  {T, Name, Kind, Friend(<<T, Name>>), On("Dog", <<Kind>>), On("Pet", <<Name>>),
   Spread("F"), Spread("G")}
UpToTwo(set) == {<<>>} \cup {<<x>> : x \in set} \cup {<<x, y>> : x, y \in set}
With(first, set) == {<<first>> \o items : items \in UpToTwo(set)}

Sets ==
  {Field("pet", items) : items \in With(T, PetItems)}
    \cup {Field("any", items) : items \in With(T, AnyItems)}
    \cup {Field("dog", items) : items \in UpToTwo(DogItems) \ {<<>>}}
    \cup {Field("pet", <<Spread("F")>>), Field("pet", <<Spread("G"), Spread("F")>>)}

Spreading(fragment) ==
  \E i \in DOMAIN fragment[2].selection_set : fragment[2].selection_set[i][1] = "FragmentSpread"
Mentions(field, f) ==
  \E i \in DOMAIN field[2].selection_set :
    LET s == field[2].selection_set[i] IN
    \/ s = Spread(f)
    \/ /\ s[1] \in {"Field", "InlineFragment"}
       /\ \E j \in DOMAIN s[2].selection_set : s[2].selection_set[j] = Spread(f)

\* Without a spread of either the fragments do not matter.
Documents ==
  {<<f, Query(<<field>>), g>> :
     field \in {x \in Sets : Mentions(x, "F")}, f \in Fs, g \in Gs}
    \cup {<<CHOOSE f \in Fs : TRUE, Query(<<field>>), g>> :
            field \in {x \in Sets : ~Mentions(x, "F") /\ Mentions(x, "G")}, g \in Gs}
    \cup {<<Query(<<field>>)>> : field \in {x \in Sets : ~Mentions(x, "F") /\ ~Mentions(x, "G")}}

\* What is refused, and what is out of the ordinary.
F1 == Fragment("F", "Pet", <<T, Name>>)
F2 == Fragment("F", "Dog", <<Kind>>)
Pet(items) == Field("pet", items)
Odd == {
  <<Operation("SelectionSet", <<>>, <<Pet(<<T>>)>>)>>,
  <<Operation("Query", <<>>, <<Pet(<<T>>)>>)>>,
  <<Operation("Mutation", <<"Q">>, <<Pet(<<T>>)>>)>>,
  <<Operation("Subscription", <<>>, <<Pet(<<T>>)>>)>>,
  <<Operation("Subscription", <<"Q">>, <<Pet(<<T>>)>>)>>,
  <<Operation("Subscription", <<"Q">>, <<Pet(<<T>>), Field("dog", <<Name>>)>>)>>,
  <<Query(<<Field("no", <<>>)>>)>>, <<Query(<<Pet(<<Name>>)>>)>>,
  <<Query(<<Pet(<<T, Field("name", <<T>>)>>)>>)>>, <<Query(<<Field("any", <<T, Name>>)>>)>>,
  <<Query(<<Pet(<<T, Spread("F")>>)>>)>>, <<Query(<<Pet(<<T, On("No", <<T>>)>>)>>)>>,
  <<Query(<<Pet(<<T, On("Kind", <<T>>)>>)>>)>>,
  <<Query(<<Pet(<<T, <<"InlineFragment", [type_condition |-> <<>>, selection_set |-> <<T>>]>> >>)>>)>>,
  <<Fragment("F", "No", <<T>>), Query(<<Pet(<<T>>)>>)>>,
  <<Fragment("F", "Kind", <<T>>), Query(<<Pet(<<T>>)>>)>>,
  <<F1, F2, Query(<<Pet(<<T, Spread("F")>>), Field("dog", <<Spread("F")>>)>>)>>,
  <<Query(<<Pet(<<T>>)>>), Operation("Query", <<"R">>, <<Field("dog", <<Name>>)>>)>>,
  <<Query(<<Pet(<<T>>)>>), Query(<<Field("dog", <<Name>>)>>)>>,
  <<F1, Operation("Query", <<"F">>, <<Pet(<<T, Spread("F")>>)>>)>>,
  <<Query(<<Pet(<<Aliased("other", "__typename", <<>>), Name>>)>>)>>,
  <<Query(<<Pet(<<T, Aliased("other", "name", <<>>), Name>>)>>)>>,
  <<Query(<<Pet(<<T, Friend(<<T>>)>>), Aliased("petFriend", "pet", <<T, Name>>)>>)>>,
  <<Query(<<Pet(<<T, Name, Aliased("on", "friend", <<T>>)>>)>>)>>,
  <<Query(<<Pet(<<T, Aliased("petFriend", "friend", <<T, Name>>), Friend(<<T>>)>>)>>)>>,
  <<Query(<<Pet(<<T, Aliased("Name", "name", <<>>), Name>>)>>)>>,
  <<Query(<<Pet(<<T, Aliased("Friend", "friend", <<T, Name>>), Friend(<<T>>)>>)>>)>>,
  <<Fragment("Friend", "Pet", <<T, Name>>), Query(<<Pet(<<T, Spread("Friend"), Friend(<<T>>)>>)>>)>>,
  <<Fragment("Kind", "Dog", <<Name>>), Query(<<Pet(<<T, Spread("Kind"), On("Dog", <<Kind>>)>>)>>)>>,
  <<Fragment("QPet", "Pet", <<T, Name>>), Query(<<Pet(<<T, Spread("QPet"), Name>>)>>)>>,
  <<Fragment("AB", "Pet", <<T, Name>>),
    Operation("Query", <<"A">>, <<Aliased("b", "pet", <<T, Spread("AB"), Name>>)>>)>>,
  <<Fragment("On", "Pet", <<T, Name>>), Query(<<Pet(<<T, Spread("On"), Friend(<<T>>)>>)>>)>>,
  <<Query(<<Pet(<<T, On("Dog", <<Name>>), On("Dog", <<Kind>>)>>)>>)>>,
  <<Query(<<Field("pets", <<T, Field("friends", <<T, Name>>)>>)>>)>>}
MCWritten == Documents \cup Odd

\* Items, and what stands inside them; none stands deeper than the fourth.
WithInner(items) ==
  items \cup UNION {ToSet(item[2].selection_set) : item \in {x \in items : x[1] # "FragmentSpread"}}
Outermost ==
  Sets \cup UNION {ToSet(d[2].selection_set) : d \in Fs \cup Gs}
       \cup UNION {UNION {ToSet(Body(d[i]).selection_set) : i \in DOMAIN d} : d \in Odd}
MCItems == WithInner(WithInner(WithInner(Outermost)))
==============================================================================
