--------------------------- MODULE IngestionProofs ---------------------------
(***************************************************************************)
(* Proofs about SchemaIngestion, for every schema, whatever the types of   *)
(* its fields: the numbers the conversions note are those of the types     *)
(* they store, and every name they look up is there.                       *)
(***************************************************************************)
EXTENDS SchemaIngestion, NumberFacts, FiniteSetTheorems, SequenceTheorems, TLAPS

-----------------------------------------------------------------------------
(* Lists, and the last of a set of positions.                              *)

\* One element more at the end of a list.
LEMMA ListAppend ==
    ASSUME NEW s, IsList(s), NEW e
    PROVE  /\ IsList(Append(s, e)) /\ Len(Append(s, e)) = Len(s) + 1
           /\ \A i \in 1 .. Len(s) : Append(s, e)[i] = s[i]
           /\ Append(s, e)[Len(s) + 1] = e
  <1> DEFINE S == {s[i] : i \in 1 .. Len(s)} \cup {e}
             r == Append(s, e)
  <1>1. s \in Seq(S) /\ e \in S
    <2>1. [i \in 1 .. Len(s) |-> s[i]] \in [1 .. Len(s) -> S]
      OBVIOUS
    <2> QED
      BY <2>1, SeqDef DEF IsList
  <1> HIDE DEF S
  <1>2. /\ r \in Seq(S) /\ Len(r) = Len(s) + 1
        /\ \A i \in 1 .. Len(s) : r[i] = s[i]
        /\ r[Len(s) + 1] = e
    BY <1>1, AppendProperties
  <1>3. r = [i \in 1 .. Len(r) |-> r[i]]
    BY <1>2, LenProperties
  <1> QED
    BY <1>1, <1>2, <1>3, LenProperties DEF IsList

\* Positions whose kinds have a turn have a last one, in the order of the turns.
IsOrder(order) == DOMAIN order \subseteq Kinds /\ \A k \in DOMAIN order : order[k] \in 1 .. 6

LEMMA LastExists ==
    ASSUME NEW ts, IsSchema(ts), NEW order, IsOrder(order),
           NEW S, S \subseteq Noted(order, ts), S # {}
    PROVE  \E i \in S : \A j \in S : Before(order, ts, j, i)
  <1> DEFINE turn(i) == order[ts[i][1]]
  <1>1. S \subseteq 1 .. Len(ts) /\ Len(ts) \in Nat /\ \A i \in S : turn(i) \in 1 .. 6
    BY DEF IsSchema, Noted, IsOrder
  <1>2. PICK p \in {turn(i) : i \in S} : \A q \in {turn(i) : i \in S} : q <= p
    <2>1. {turn(i) : i \in S} \subseteq 0 .. 6 /\ {turn(i) : i \in S} # {}
      BY <1>1
    <2> HIDE DEF turn
    <2> QED
      BY <2>1, GreatestNumber
  <1>3. PICK i \in {j \in S : turn(j) = p} : \A j \in {k \in S : turn(k) = p} : j <= i
    <2>1. {j \in S : turn(j) = p} \subseteq 0 .. Len(ts) /\ {j \in S : turn(j) = p} # {}
      BY <1>1, <1>2
    <2> HIDE DEF turn
    <2> QED
      BY <1>1, <2>1, GreatestNumber
  <1>4. ASSUME NEW j \in S
        PROVE  Before(order, ts, j, i)
    <2>1. turn(j) <= turn(i) /\ (turn(j) = turn(i) => j <= i)
      BY <1>2, <1>3
    <2> QED
      BY <1>1, <1>3, <2>1 DEF Before
  <1> QED
    BY <1>3, <1>4

-----------------------------------------------------------------------------
(* The numbers of types, and the names noted.                              *)

LEMMA NumberType ==
    ASSUME NEW ts, IsSchema(ts), NEW i \in DOMAIN ts
    PROVE  /\ Number(ts, i)[1] = ts[i][1] /\ Number(ts, i)[2] \in Nat
           /\ Number(ts, i)[2] = Cardinality({j \in 1 .. i - 1 : ts[j][1] = ts[i][1]})
  <1>1. IsFiniteSet(1 .. i - 1)
    BY FS_Interval DEF IsSchema
  <1>2. IsFiniteSet({j \in 1 .. i - 1 : ts[j][1] = ts[i][1]})
    BY <1>1, FS_Subset
  <1> QED
    BY <1>2, FS_CardinalityType DEF Number, Id

LEMMA Orders ==
    /\ IsOrder(GraphqlNames) /\ IsOrder(JsonNames)
    /\ IsOrder(GraphqlPasses) /\ IsOrder(JsonPasses)
    /\ DOMAIN GraphqlNames = Kinds \ {"Scalar"} /\ DOMAIN JsonNames = Kinds \ {"Scalar", "Enum"}
    /\ DOMAIN GraphqlPasses = Kinds /\ DOMAIN JsonPasses = Kinds
  BY DEF IsOrder, GraphqlNames, JsonNames, GraphqlPasses, JsonPasses, Kinds

\* The names of the types noted are over those there were.
AreNoted(new, names, order, ts) ==
    /\ DOMAIN new = DOMAIN names \cup {ts[i][2].name : i \in Noted(order, ts)}
    /\ \A n \in DOMAIN new :
         \/ /\ n \in DOMAIN names \ {ts[i][2].name : i \in Noted(order, ts)}
            /\ new[n] = names[n]
         \/ \E i \in Noted(order, ts) : ts[i][2].name = n /\ new[n] = Number(ts, i)

LEMMA NamesNoted ==
    ASSUME NEW ts, IsSchema(ts), NEW order, IsOrder(order),
           NEW sch, DOMAIN sch = DOMAIN NewSchema
    PROVE  LET new == WithNames(sch, order, ts) IN
           /\ DOMAIN new = DOMAIN sch /\ new.stored = sch.stored
           /\ AreNoted(new.names, sch.names, order, ts)
  <1> DEFINE noted == Noted(order, ts)
             S(n) == {i \in noted : ts[i][2].name = n}
             last(n) == CHOOSE i \in noted :
               ts[i][2].name = n /\ \A j \in noted : ts[j][2].name = n => Before(order, ts, j, i)
             more == [n \in {ts[i][2].name : i \in noted} |-> Number(ts, last(n))]
             new == WithNames(sch, order, ts)
  <1>1. new = [sch EXCEPT !.names = Noting(sch.names, more)]
    BY DEF WithNames
  <1>2. ASSUME NEW n \in DOMAIN more
        PROVE  last(n) \in noted /\ ts[last(n)][2].name = n
    <2>1. S(n) # {} /\ S(n) \subseteq noted
      OBVIOUS
    <2>2. PICK i \in S(n) : \A j \in S(n) : Before(order, ts, j, i)
      BY <2>1, LastExists
    <2>3. /\ i \in noted /\ ts[i][2].name = n
          /\ \A j \in noted : ts[j][2].name = n => Before(order, ts, j, i)
      BY <2>2
    <2> QED
      BY <2>3
  <1>3. /\ DOMAIN new = DOMAIN sch /\ new.stored = sch.stored
        /\ new.names = Noting(sch.names, more)
    BY <1>1 DEF NewSchema
  <1>4. ASSUME NEW n \in DOMAIN more
        PROVE  \E i \in noted : ts[i][2].name = n /\ more[n] = Number(ts, i)
    <2>1. more[n] = Number(ts, last(n))
      OBVIOUS
    <2> HIDE DEF more
    <2> QED
      BY <1>2, <2>1
  <1>5. DOMAIN more = {ts[i][2].name : i \in noted}
    OBVIOUS
  <1>6. AreNoted(Noting(sch.names, more), sch.names, order, ts)
    <2> HIDE DEF more
    <2> QED
      BY <1>4, <1>5 DEF AreNoted, Noting
  <1> QED
    BY <1>3, <1>6

\* The default scalars are stored under the numbers noted for them.
LEMMA Defaults ==
    /\ SchemaTypeOK(NewSchema) /\ DOMAIN NewSchema.names = ToSet(DEFAULT_SCALARS)
    /\ \A n \in ToSet(DEFAULT_SCALARS) :
         /\ NewSchema.names[n][1] = "Scalar"
         /\ IsStored(NewSchema, NewSchema.names[n]) /\ TypeName(NewSchema, NewSchema.names[n]) = n
    /\ \A k \in Counted : Len(NewSchema.stored[k]) = 0
  <1>1. /\ DOMAIN DEFAULT_SCALARS = 1 .. 5
        /\ ToSet(DEFAULT_SCALARS) = {DEFAULT_SCALARS[i] : i \in 1 .. 5}
    BY DEF DEFAULT_SCALARS, ToSet
  <1>2. NewSchema.stored = [kind \in Kinds |->
          IF kind = "Scalar" THEN [i \in 1 .. 5 |-> [name |-> DEFAULT_SCALARS[i]]] ELSE <<>>]
    BY <1>1 DEF NewSchema
  <1>3. Len([i \in 1 .. 5 |-> [name |-> DEFAULT_SCALARS[i]]]) = 5
    OBVIOUS
  <1>4. \A k \in Kinds : IsList(NewSchema.stored[k])
    <2>1. IsList([i \in 1 .. 5 |-> [name |-> DEFAULT_SCALARS[i]]])
      BY <1>3 DEF IsList
    <2>2. IsList(<<>>)
      BY DEF IsList
    <2> QED
      BY <1>2, <2>1, <2>2
  <1>5. ASSUME NEW n \in ToSet(DEFAULT_SCALARS)
        PROVE  \E i \in 1 .. 5 : DEFAULT_SCALARS[i] = n /\ NewSchema.names[n] = <<"Scalar", i - 1>>
    <2> DEFINE i == CHOOSE i \in DOMAIN DEFAULT_SCALARS : DEFAULT_SCALARS[i] = n
    <2>1. i \in 1 .. 5 /\ DEFAULT_SCALARS[i] = n
      BY <1>1
    <2>2. NewSchema.names[n] = <<"Scalar", i - 1>>
      BY DEF NewSchema, Id
    <2> HIDE DEF i
    <2> QED
      BY <2>1, <2>2
  <1>6. DOMAIN NewSchema.names = ToSet(DEFAULT_SCALARS)
    BY DEF NewSchema
  <1>7. ASSUME NEW n \in ToSet(DEFAULT_SCALARS)
        PROVE  /\ NewSchema.names[n][1] = "Scalar" /\ NewSchema.names[n][2] \in Nat
               /\ IsStored(NewSchema, NewSchema.names[n]) /\ TypeName(NewSchema, NewSchema.names[n]) = n
    <2>1. PICK i \in 1 .. 5 : DEFAULT_SCALARS[i] = n /\ NewSchema.names[n] = <<"Scalar", i - 1>>
      BY <1>5
    <2>2. /\ NewSchema.stored["Scalar"] = [m \in 1 .. 5 |-> [name |-> DEFAULT_SCALARS[m]]]
          /\ i - 1 + 1 = i /\ i - 1 < 5 /\ i - 1 \in Nat
      BY <1>2 DEF Kinds
    <2>3. Len(NewSchema.stored["Scalar"]) = 5
      BY <1>3, <2>2
    <2>4. NewSchema.stored["Scalar"][i].name = n
      BY <2>1, <2>2
    <2>5. /\ NewSchema.names[n][1] = "Scalar" /\ NewSchema.names[n][2] = i - 1
      BY <2>1
    <2> QED
      BY <2>2, <2>3, <2>4, <2>5 DEF IsStored, TypeName
  <1>8. \A k \in Counted : Len(NewSchema.stored[k]) = 0
    BY <1>2 DEF Counted
  <1> QED
    BY <1>2, <1>4, <1>6, <1>7, <1>8 DEF SchemaTypeOK, Kinds

-----------------------------------------------------------------------------
(* The beginning: nothing is stored but the default scalars, and the names *)
(* are noted.                                                              *)

Fresh ==
    /\ IsSchema(types) /\ from \in {"nothing", "graphql", "json"}
    /\ from = "nothing" => types = <<>>
    /\ todo = {i \in DOMAIN types : from = "json" => NotDefaultScalar(types[i])}
    /\ DOMAIN schema = DOMAIN NewSchema /\ schema.stored = NewSchema.stored
    /\ AreNoted(schema.names, NewSchema.names, Names, types)

LEMMA NamesType ==
    /\ IsOrder(Names) /\ IsOrder(Passes) /\ DOMAIN Passes = Kinds
    /\ DOMAIN Names \subseteq Counted
    /\ DOMAIN Names = IF from = "graphql" THEN Counted ELSE Counted \ {"Enum"}
  BY Orders DEF Names, Passes, Counted

LEMMA FreshInv ==
    ASSUME Fresh
    PROVE  SchemaTypeOK(schema) /\ StoredInOrder /\ NamesAwait /\ NamesKnown /\ IngestedIsClosed
  <1> DEFINE noted == Noted(Names, types)
  <1>1. /\ IsSchema(types) /\ todo \subseteq DOMAIN types
        /\ \A i \in DOMAIN types : types[i][1] \in Counted => i \in todo
        /\ \A i \in DOMAIN types \ todo :
             types[i][1] = "Scalar" /\ types[i][2].name \in ToSet(DEFAULT_SCALARS)
    BY DEF Fresh, NotDefaultScalar, Counted
  <1>2. \A n \in DOMAIN schema.names :
          \/ /\ n \in ToSet(DEFAULT_SCALARS) /\ schema.names[n] = NewSchema.names[n]
             /\ \A i \in noted : types[i][2].name # n
          \/ \E i \in noted : types[i][2].name = n /\ schema.names[n] = Number(types, i)
    BY Defaults DEF Fresh, AreNoted
  <1>3. DOMAIN schema.names = ToSet(DEFAULT_SCALARS) \cup {types[i][2].name : i \in noted}
    BY Defaults DEF Fresh, AreNoted
  <1>4. \A i \in noted : /\ i \in DOMAIN types /\ types[i][1] \in DOMAIN Names
                         /\ types[i][1] \in Counted /\ i \in todo
                         /\ Number(types, i)[1] = types[i][1] /\ Number(types, i)[2] \in Nat
    BY <1>1, NamesType, NumberType DEF Noted
  <1>5. SchemaTypeOK(schema)
    BY <1>2, <1>4, Defaults DEF Fresh, SchemaTypeOK, Counted, Kinds
  <1>6. StoredInOrder
    <2> SUFFICES ASSUME NEW k \in Counted
                 PROVE  /\ OfKind(k) \subseteq todo
                        /\ Len(schema.stored[k]) = Cardinality(OfKind(k) \ todo)
      <3>1. \A k \in Counted : OfKind(k) \subseteq todo => OfKind(k) \ todo = {}
        OBVIOUS
      <3> QED
        BY <3>1 DEF StoredInOrder
    <2>1. OfKind(k) \subseteq todo
      BY <1>1 DEF OfKind
    <2>2. OfKind(k) \ todo = {}
      BY <2>1
    <2> QED
      BY <2>1, <2>2, Defaults, FS_EmptySet DEF Fresh
  <1>7. NamesAwait
    <2> SUFFICES ASSUME NEW n \in DOMAIN schema.names
                 PROVE  \/ IsStored(schema, schema.names[n]) /\ TypeName(schema, schema.names[n]) = n
                        \/ \E i \in todo : /\ types[i][1] \in Counted /\ types[i][2].name = n
                                           /\ schema.names[n] = Number(types, i)
      BY DEF NamesAwait
    <2>1. CASE \E i \in noted : types[i][2].name = n /\ schema.names[n] = Number(types, i)
      BY <2>1, <1>4
    <2>2. CASE n \in ToSet(DEFAULT_SCALARS) /\ schema.names[n] = NewSchema.names[n]
      BY <2>2, Defaults DEF Fresh, IsStored, TypeName
    <2> QED
      BY <1>2, <2>1, <2>2
  <1>8. NamesKnown
    <2>1. \A i \in DOMAIN types :
            i \notin todo \/ types[i][1] \in DOMAIN Names => types[i][2].name \in DOMAIN schema.names
      BY <1>1, <1>3 DEF Noted
    <2>2. \A n \in DOMAIN schema.names :
            \/ n \in ToSet(DEFAULT_SCALARS) /\ schema.names[n][1] = "Scalar"
            \/ \E i \in DOMAIN types : types[i][2].name = n /\ types[i][1] = schema.names[n][1]
      BY <1>2, <1>4, Defaults
    <2>3. ASSUME AllDistinct(types), NEW i \in DOMAIN types, types[i][1] \in DOMAIN Names
          PROVE  schema.names[types[i][2].name][1] = types[i][1]
      <3>1. i \in noted /\ types[i][2].name \in DOMAIN schema.names
        BY <2>1, <2>3 DEF Noted
      <3>2. PICK j \in noted : /\ types[j][2].name = types[i][2].name
                              /\ schema.names[types[i][2].name] = Number(types, j)
        BY <1>2, <3>1
      <3>3. j = i
        BY <1>4, <2>3, <3>2 DEF AllDistinct
      <3> QED
        BY <1>4, <3>2, <3>3
    <2> QED
      BY <1>3, <2>1, <2>2, <2>3 DEF NamesKnown
  <1>9. IngestedIsClosed
    BY <1>1 DEF IngestedIsClosed, Required, Implemented
  <1> QED
    BY <1>5, <1>6, <1>7, <1>8, <1>9

-----------------------------------------------------------------------------
(* One type is stored.                                                     *)

Stored(new, sch, kind, name) ==
    /\ DOMAIN new = DOMAIN sch
    /\ \E r : r.name = name /\ new.stored = [sch.stored EXCEPT ![kind] = Append(@, r)]
    /\ new.names = IF kind \in DOMAIN Names THEN sch.names
                   ELSE Noting(sch.names, [n \in {name} |-> NextId(sch, kind)])

LEMMA PushStores ==
    ASSUME NEW sch, DOMAIN sch = DOMAIN NewSchema, NEW kind \in DOMAIN Names, NEW r,
           NEW pushed, DOMAIN pushed = DOMAIN sch, pushed.stored = sch.stored,
           pushed.names = sch.names
    PROVE  Stored(Push(pushed, kind, r), sch, kind, r.name)
  BY DEF Push, NewSchema, Stored

LEMMA NamedPushStores ==
    ASSUME NEW sch, DOMAIN sch = DOMAIN NewSchema, NEW kind, kind \notin DOMAIN Names, NEW r
    PROVE  Stored(Named(Push(sch, kind, r), r.name, NextId(sch, kind)), sch, kind, r.name)
  <1>1. /\ DOMAIN Push(sch, kind, r) = DOMAIN sch
        /\ Push(sch, kind, r).stored = [sch.stored EXCEPT ![kind] = Append(@, r)]
        /\ Push(sch, kind, r).names = sch.names
    BY DEF Push, NewSchema
  <1> QED
    BY <1>1 DEF Named, NewSchema, Stored

LEMMA FieldsKeep ==
    ASSUME NEW sch, DOMAIN sch = DOMAIN NewSchema, NEW fields, NEW parent
    PROVE  LET new == PushFields(sch, fields, parent) IN
           DOMAIN new = DOMAIN sch /\ new.stored = sch.stored /\ new.names = sch.names
  BY DEF PushFields, NewSchema

\* Every ingest_ function stores one type, and notes its number unless that was done before.
LEMMA IngestStores ==
    ASSUME DOMAIN schema = DOMAIN NewSchema, NEW t
    PROVE  /\ Stored(ingest_scalar(schema, t), schema, "Scalar", t.name)
           /\ Stored(ingest_enum(schema, t), schema, "Enum", t.name)
           /\ Stored(ingest_union(schema, t), schema, "Union", t.name)
           /\ Stored(ingest_interface(schema, t), schema, "Interface", t.name)
           /\ Stored(ingest_object(schema, t), schema, "Object", t.name)
           /\ Stored(ingest_input(schema, t), schema, "InputObject", t.name)
  <1>1. /\ "Scalar" \notin DOMAIN Names
        /\ "Enum" \in DOMAIN Names <=> from = "graphql"
        /\ {"Union", "Interface", "Object", "InputObject"} \subseteq DOMAIN Names
    BY Orders DEF Names, Kinds
  <1>2. Stored(ingest_scalar(schema, t), schema, "Scalar", t.name)
    <2> DEFINE r == [name |-> t.name]
    <2>1. r.name = t.name /\ ingest_scalar(schema, t)
            = Named(Push(schema, "Scalar", r), r.name, NextId(schema, "Scalar"))
      BY DEF ingest_scalar
    <2> HIDE DEF r
    <2> QED
      BY <1>1, <2>1, NamedPushStores
  <1>3. Stored(ingest_enum(schema, t), schema, "Enum", t.name)
    <2> DEFINE r == [name |-> t.name, variants |-> [i \in DOMAIN t.values |-> t.values[i].name]]
    <2>1. r.name = t.name /\ ingest_enum(schema, t)
            = IF from = "graphql" THEN Push(schema, "Enum", r)
              ELSE Named(Push(schema, "Enum", r), r.name, NextId(schema, "Enum"))
      BY DEF ingest_enum
    <2> HIDE DEF r
    <2> QED
      BY <1>1, <2>1, PushStores, NamedPushStores
  <1>4. Stored(ingest_union(schema, t), schema, "Union", t.name)
    <2> DEFINE r == [name |-> t.name,
                     variants |-> [i \in DOMAIN t.types |-> schema.names[t.types[i]]]]
    <2>1. r.name = t.name /\ ingest_union(schema, t) = Push(schema, "Union", r)
      BY DEF ingest_union
    <2> HIDE DEF r
    <2> QED
      BY <1>1, <2>1, PushStores
  <1>5. Stored(ingest_interface(schema, t), schema, "Interface", t.name)
    <2> DEFINE r == [name |-> t.name, fields |-> FieldIds(schema, t.fields)]
               pushed == PushFields(schema, t.fields, schema.names[t.name])
    <2>1. r.name = t.name /\ ingest_interface(schema, t) = Push(pushed, "Interface", r)
      BY DEF ingest_interface
    <2>2. /\ DOMAIN pushed = DOMAIN schema /\ pushed.stored = schema.stored
          /\ pushed.names = schema.names
      BY FieldsKeep
    <2> HIDE DEF r, pushed
    <2> QED
      BY <1>1, <2>1, <2>2, PushStores
  <1>6. Stored(ingest_object(schema, t), schema, "Object", t.name)
    <2> DEFINE r == [name |-> t.name, fields |-> FieldIds(schema, t.fields),
                     implements_interfaces |->
                       [i \in DOMAIN t.implements_interfaces |->
                          schema.names[t.implements_interfaces[i]]]]
               pushed == PushFields(schema, t.fields, schema.names[t.name])
    <2>1. r.name = t.name /\ ingest_object(schema, t) = Push(pushed, "Object", r)
      BY DEF ingest_object
    <2>2. /\ DOMAIN pushed = DOMAIN schema /\ pushed.stored = schema.stored
          /\ pushed.names = schema.names
      BY FieldsKeep
    <2> HIDE DEF r, pushed
    <2> QED
      BY <1>1, <2>1, <2>2, PushStores
  <1>7. Stored(ingest_input(schema, t), schema, "InputObject", t.name)
    <2> DEFINE r == [name |-> t.name,
                     fields |-> [i \in DOMAIN t.fields |->
                       <<t.fields[i].name, resolve_field_type(schema, t.fields[i].value_type)>>]]
    <2>1. r.name = t.name /\ ingest_input(schema, t) = Push(schema, "InputObject", r)
      BY DEF ingest_input
    <2> HIDE DEF r
    <2> QED
      BY <1>1, <2>1, PushStores
  <1> QED
    BY <1>2, <1>3, <1>4, <1>5, <1>6, <1>7

\* What was stored stays where it was, under its name.
LEMMA StoredKeeps ==
    ASSUME NEW sch, SchemaTypeOK(sch), NEW kind \in Kinds, NEW name, NEW new,
           Stored(new, sch, kind, name)
    PROVE  /\ SchemaTypeOK(new)
           /\ Len(new.stored[kind]) = Len(sch.stored[kind]) + 1
           /\ \A k \in Kinds \ {kind} : new.stored[k] = sch.stored[k]
           /\ \A id : id[1] \in Kinds /\ id[2] \in Nat /\ IsStored(sch, id) =>
                IsStored(new, id) /\ TypeName(new, id) = TypeName(sch, id)
           /\ IsStored(new, NextId(sch, kind)) /\ TypeName(new, NextId(sch, kind)) = name
           /\ NextId(sch, kind)[1] = kind /\ NextId(sch, kind)[2] = Len(sch.stored[kind])
           /\ DOMAIN new.names =
                DOMAIN sch.names \cup (IF kind \in DOMAIN Names THEN {} ELSE {name})
           /\ \A n \in DOMAIN new.names :
                new.names[n] = IF kind \notin DOMAIN Names /\ n = name THEN NextId(sch, kind)
                               ELSE sch.names[n]
  <1>1. PICK r : r.name = name /\ new.stored = [sch.stored EXCEPT ![kind] = Append(@, r)]
    BY DEF Stored
  <1> DEFINE list == sch.stored[kind]
  <1>2. /\ IsList(Append(list, r)) /\ Len(Append(list, r)) = Len(list) + 1
        /\ \A i \in 1 .. Len(list) : Append(list, r)[i] = list[i]
        /\ Append(list, r)[Len(list) + 1] = r
        /\ Len(list) \in Nat
    BY ListAppend DEF SchemaTypeOK, IsList
  <1>3. /\ DOMAIN new.stored = Kinds /\ new.stored[kind] = Append(list, r)
        /\ \A k \in Kinds \ {kind} : new.stored[k] = sch.stored[k]
    BY <1>1 DEF SchemaTypeOK
  <1>4. NextId(sch, kind)[1] = kind /\ NextId(sch, kind)[2] = Len(list)
    BY DEF NextId, Id
  <1>5. IsStored(new, NextId(sch, kind)) /\ TypeName(new, NextId(sch, kind)) = name
    BY <1>1, <1>2, <1>3, <1>4 DEF IsStored, TypeName
  <1>6. ASSUME NEW id, id[1] \in Kinds, id[2] \in Nat, IsStored(sch, id)
        PROVE  IsStored(new, id) /\ TypeName(new, id) = TypeName(sch, id)
    <2>1. CASE id[1] = kind
      <3>1. id[2] < Len(list) /\ id[2] + 1 \in 1 .. Len(list)
        BY <1>2, <1>6, <2>1 DEF IsStored
      <3> QED
        <4>1. new.stored[id[1]] = Append(list, r) /\ sch.stored[id[1]] = list
          BY <1>3, <2>1
        <4>2. id[2] < Len(Append(list, r))
          BY <1>2, <1>6, <3>1
        <4>3. Append(list, r)[id[2] + 1] = list[id[2] + 1]
          BY <1>2, <3>1
        <4> HIDE DEF list
        <4> QED
          BY <4>1, <4>2, <4>3 DEF IsStored, TypeName
    <2>2. CASE id[1] # kind
      BY <1>3, <1>6, <2>2 DEF IsStored, TypeName
    <2> QED
      BY <2>1, <2>2
  <1>7. /\ DOMAIN new.names =
             DOMAIN sch.names \cup (IF kind \in DOMAIN Names THEN {} ELSE {name})
        /\ \A n \in DOMAIN new.names :
             new.names[n] = IF kind \notin DOMAIN Names /\ n = name THEN NextId(sch, kind)
                            ELSE sch.names[n]
    BY DEF Stored, Noting
  <1>8. SchemaTypeOK(new)
    <2>1. \A k \in Kinds : IsList(new.stored[k])
      BY <1>2, <1>3 DEF SchemaTypeOK
    <2>2. \A n \in DOMAIN new.names : new.names[n][1] \in Kinds /\ new.names[n][2] \in Nat
      BY <1>2, <1>4, <1>7 DEF SchemaTypeOK
    <2> QED
      BY <1>3, <2>1, <2>2 DEF SchemaTypeOK, Stored
  <1> QED
    BY <1>2, <1>3, <1>4, <1>5, <1>6, <1>7, <1>8

-----------------------------------------------------------------------------
(* A step of a pass.                                                       *)

IsFirst(i) == i \in todo /\ \A j \in todo : Before(Passes, types, i, j)

LEMMA FirstOfKind ==
    ASSUME TypeOK, NEW i, IsFirst(i), NEW j \in todo
    PROVE  /\ Passes[types[i][1]] <= Passes[types[j][1]]
           /\ types[i][1] = types[j][1] => i <= j
           /\ types[i][1] \in Kinds /\ types[j][1] \in Kinds
  <1>1. /\ types[i][1] \in Kinds /\ types[j][1] \in Kinds
        /\ Passes[types[i][1]] \in 1 .. 6 /\ Passes[types[j][1]] \in 1 .. 6
    BY NamesType DEF TypeOK, IsSchema, IsFirst, IsOrder
  <1>2. Before(Passes, types, i, j)
    BY DEF IsFirst
  <1> HIDE DEF Passes
  <1> QED
    BY <1>1, <1>2 DEF Before

\* The first of the positions to come has the next number of its kind.
LEMMA FirstIsNext ==
    ASSUME TypeOK, StoredInOrder, NEW i, IsFirst(i), types[i][1] \in Counted
    PROVE  NextId(schema, types[i][1]) = Number(types, i)
  <1> DEFINE kind == types[i][1]
             A == {j \in 1 .. i - 1 : types[j][1] = kind}
             B == OfKind(kind) \ todo
  <1>1. /\ i \in DOMAIN types /\ Len(types) \in Nat /\ DOMAIN types = 1 .. Len(types)
        /\ i \in OfKind(kind) \cap todo
    BY DEF TypeOK, IsSchema, IsFirst, OfKind
  <1>2. ASSUME NEW j \in A
        PROVE  j \in B
    <2>1. j \in DOMAIN types /\ j \in Int /\ i \in Int /\ j < i /\ types[j][1] = kind
      BY <1>1
    <2>2. j \notin todo
      BY <2>1, FirstOfKind
    <2> QED
      BY <2>1, <2>2 DEF OfKind
  <1>3. ASSUME NEW j \in B
        PROVE  j \in A
    <2>1. j \in DOMAIN types /\ j \notin todo /\ types[j][1] = kind
      BY DEF OfKind
    <2>2. ~(i <= j)
      BY <1>1, <2>1 DEF StoredInOrder, OfKind
    <2> QED
      BY <1>1, <2>1, <2>2
  <1>4. A = B
    BY <1>2, <1>3
  <1>5. Len(schema.stored[kind]) = Cardinality(B)
    BY DEF StoredInOrder
  <1> QED
    BY <1>4, <1>5 DEF NextId, Number, Id

Storing(i) ==
    /\ IsFirst(i)
    /\ Stored(schema', schema, types[i][1], types[i][2].name)
    /\ todo' = todo \ {i} /\ UNCHANGED <<types, from>>

LEMMA OrderNext ==
    ASSUME TypeOK, StoredInOrder, NEW i, Storing(i)
    PROVE  StoredInOrder'
  <1> DEFINE kind == types[i][1]
  <1>1. /\ i \in todo /\ i \in DOMAIN types /\ kind \in Kinds /\ Names' = Names
        /\ \A k : OfKind(k)' = OfKind(k)
        /\ IsSchema(types) /\ SchemaTypeOK(schema)
    BY DEF TypeOK, IsSchema, Storing, IsFirst, OfKind, Names
  <1>2. /\ Len(schema'.stored[kind]) = Len(schema.stored[kind]) + 1
        /\ \A k \in Kinds \ {kind} : schema'.stored[k] = schema.stored[k]
        /\ \A id : id[1] \in Kinds /\ id[2] \in Nat /\ IsStored(schema, id) =>
             IsStored(schema', id) /\ TypeName(schema', id) = TypeName(schema, id)
        /\ IsStored(schema', NextId(schema, kind))
        /\ TypeName(schema', NextId(schema, kind)) = types[i][2].name
    BY <1>1, StoredKeeps DEF Storing
  <1> SUFFICES ASSUME NEW k \in Counted
               PROVE  /\ \A m \in OfKind(k) \cap todo' : \A j \in OfKind(k) : m <= j => j \in todo'
                      /\ Len(schema'.stored[k]) = Cardinality(OfKind(k) \ todo')
                      /\ \A m \in OfKind(k) \ todo' :
                           /\ IsStored(schema', Number(types, m))
                           /\ TypeName(schema', Number(types, m)) = types[m][2].name
    BY <1>1 DEF StoredInOrder, Storing
  <1>3. \A m \in OfKind(k) : m \in DOMAIN types /\ Number(types, m)[1] = k /\ Number(types, m)[2] \in Nat
    BY <1>1, NumberType DEF OfKind
  <1>4. \A m \in OfKind(k) \ todo :
          /\ IsStored(schema', Number(types, m))
          /\ TypeName(schema', Number(types, m)) = types[m][2].name
    BY <1>2, <1>3 DEF StoredInOrder, Counted
  <1>5. CASE k # kind
    <2>1. i \notin OfKind(k)
      BY <1>5 DEF OfKind
    <2>2. OfKind(k) \ todo' = OfKind(k) \ todo /\ OfKind(k) \cap todo' = OfKind(k) \cap todo
      BY <2>1 DEF Storing
    <2>3. schema'.stored[k] = schema.stored[k]
      BY <1>2, <1>5 DEF Counted
    <2>4. \A m \in OfKind(k) \cap todo' : \A j \in OfKind(k) : m <= j => j \in todo'
      BY <2>2 DEF StoredInOrder
    <2> QED
      BY <1>4, <2>2, <2>3, <2>4 DEF StoredInOrder
  <1>6. CASE k = kind
    <2>1. i \in OfKind(k)
      BY <1>1, <1>6 DEF OfKind
    <2>2. \A m \in OfKind(k) \cap todo' : \A j \in OfKind(k) : m <= j => j \in todo'
      <3> SUFFICES ASSUME NEW m \in OfKind(k) \cap todo', NEW j \in OfKind(k), m <= j
                   PROVE  j \in todo'
        OBVIOUS
      <3>1. m \in todo /\ m # i /\ j \in todo
        BY DEF Storing, StoredInOrder
      <3>2. i <= m
        BY <3>1, FirstOfKind, <1>6 DEF Storing, OfKind
      <3>3. m \in Int /\ i \in Int /\ j \in Int
        BY <1>1, <1>3, <2>1 DEF IsSchema
      <3> QED
        BY <3>1, <3>2, <3>3 DEF Storing
    <2>3. OfKind(k) \ todo' = (OfKind(k) \ todo) \cup {i} /\ i \notin OfKind(k) \ todo
      BY <1>1, <2>1 DEF Storing
    <2>4. IsFiniteSet(OfKind(k) \ todo)
      <3>1. IsFiniteSet(DOMAIN types)
        BY <1>1, FS_Interval DEF IsSchema
      <3>2. OfKind(k) \ todo \in SUBSET DOMAIN types
        BY DEF OfKind
      <3> QED
        BY <3>1, <3>2, FS_Subset
    <2>5. Len(schema'.stored[k]) = Cardinality(OfKind(k) \ todo')
      <3>1. Cardinality((OfKind(k) \ todo) \cup {i}) = Cardinality(OfKind(k) \ todo) + 1
        BY <2>3, <2>4, FS_AddElement
      <3>2. Len(schema.stored[k]) = Cardinality(OfKind(k) \ todo)
        BY DEF StoredInOrder
      <3> QED
        BY <1>2, <1>6, <2>3, <3>1, <3>2
    <2>6. NextId(schema, kind) = Number(types, i)
      BY <1>6, FirstIsNext DEF Storing
    <2> QED
      BY <1>2, <1>4, <2>2, <2>3, <2>5, <2>6
  <1> QED
    BY <1>5, <1>6

LEMMA AwaitNext ==
    ASSUME TypeOK, StoredInOrder, NamesAwait, NEW i, Storing(i)
    PROVE  NamesAwait'
  <1> DEFINE kind == types[i][1]
             name == types[i][2].name
  <1>1. i \in todo /\ kind \in Kinds /\ SchemaTypeOK(schema)
    BY DEF TypeOK, IsSchema, Storing, IsFirst
  <1>2. /\ \A id : id[1] \in Kinds /\ id[2] \in Nat /\ IsStored(schema, id) =>
             IsStored(schema', id) /\ TypeName(schema', id) = TypeName(schema, id)
        /\ IsStored(schema', NextId(schema, kind))
        /\ TypeName(schema', NextId(schema, kind)) = name
        /\ DOMAIN schema'.names =
             DOMAIN schema.names \cup (IF kind \in DOMAIN Names THEN {} ELSE {name})
        /\ \A n \in DOMAIN schema'.names :
             schema'.names[n] = IF kind \notin DOMAIN Names /\ n = name THEN NextId(schema, kind)
                                ELSE schema.names[n]
    BY <1>1, StoredKeeps DEF Storing
  <1> SUFFICES ASSUME NEW n \in DOMAIN schema'.names
               PROVE  \/ IsStored(schema', schema'.names[n]) /\ TypeName(schema', schema'.names[n]) = n
                      \/ \E j \in todo' : /\ types[j][1] \in Counted /\ types[j][2].name = n
                                          /\ schema'.names[n] = Number(types, j)
    BY DEF NamesAwait, Storing
  <1>3. CASE kind \notin DOMAIN Names /\ n = name
    BY <1>2, <1>3
  <1>4. CASE ~(kind \notin DOMAIN Names /\ n = name)
    <2>1. n \in DOMAIN schema.names /\ schema'.names[n] = schema.names[n]
      BY <1>2, <1>4
    <2>2. schema.names[n][1] \in Kinds /\ schema.names[n][2] \in Nat
      BY <1>1, <2>1 DEF SchemaTypeOK
    <2>3. CASE IsStored(schema, schema.names[n]) /\ TypeName(schema, schema.names[n]) = n
      BY <1>2, <2>1, <2>2, <2>3
    <2>4. CASE \E j \in todo : /\ types[j][1] \in Counted /\ types[j][2].name = n
                               /\ schema.names[n] = Number(types, j)
      <3>1. PICK j \in todo : /\ types[j][1] \in Counted /\ types[j][2].name = n
                              /\ schema.names[n] = Number(types, j)
        BY <2>4
      <3>2. CASE j = i
        BY <1>2, <2>1, <3>1, <3>2, FirstIsNext DEF Storing
      <3>3. CASE j # i
        BY <2>1, <3>1, <3>3 DEF Storing
      <3> QED
        BY <3>2, <3>3
    <2> QED
      BY <2>1, <2>3, <2>4 DEF NamesAwait
  <1> QED
    BY <1>3, <1>4

LEMMA KnownNext ==
    ASSUME TypeOK, NamesKnown, NEW i, Storing(i)
    PROVE  NamesKnown'
  <1> DEFINE kind == types[i][1]
             name == types[i][2].name
  <1>1. i \in todo /\ i \in DOMAIN types /\ kind \in Kinds /\ SchemaTypeOK(schema) /\ Names' = Names
    BY DEF TypeOK, IsSchema, Storing, IsFirst, Names
  <1>2. /\ NextId(schema, kind)[1] = kind
        /\ DOMAIN schema'.names =
             DOMAIN schema.names \cup (IF kind \in DOMAIN Names THEN {} ELSE {name})
        /\ \A n \in DOMAIN schema'.names :
             schema'.names[n] = IF kind \notin DOMAIN Names /\ n = name THEN NextId(schema, kind)
                                ELSE schema.names[n]
    BY <1>1, StoredKeeps DEF Storing
  <1>3. ToSet(DEFAULT_SCALARS) \subseteq DOMAIN schema'.names
    BY <1>2 DEF NamesKnown
  <1>4. \A j \in DOMAIN types :
          j \notin todo' \/ types[j][1] \in DOMAIN Names => types[j][2].name \in DOMAIN schema'.names
    BY <1>2 DEF NamesKnown, Storing
  <1>5. \A n \in DOMAIN schema'.names :
          \/ n \in ToSet(DEFAULT_SCALARS) /\ schema'.names[n][1] = "Scalar"
          \/ \E j \in DOMAIN types : types[j][2].name = n /\ types[j][1] = schema'.names[n][1]
    BY <1>1, <1>2 DEF NamesKnown
  <1>6. ASSUME AllDistinct(types), NEW j \in DOMAIN types, types[j][1] \in DOMAIN Names
        PROVE  schema'.names[types[j][2].name][1] = types[j][1]
    <2>1. /\ types[j][2].name \in DOMAIN schema'.names
          /\ schema.names[types[j][2].name][1] = types[j][1]
      BY <1>4, <1>6 DEF NamesKnown
    <2>2. types[j][2].name = name => j = i
      BY <1>1, <1>6 DEF AllDistinct
    <2> QED
      BY <1>2, <1>6, <2>1, <2>2
  <1> QED
    BY <1>1, <1>3, <1>4, <1>5, <1>6 DEF NamesKnown, Storing

LEMMA ClosedNext ==
    ASSUME TypeOK, NamesKnown, IngestedIsClosed, NEW i, Storing(i), Resolves(schema, types[i])
    PROVE  IngestedIsClosed'
  <1>1. \A n \in DOMAIN schema.names :
          \/ n \in ToSet(DEFAULT_SCALARS) /\ schema.names[n][1] = "Scalar"
          \/ \E j \in DOMAIN types : types[j][2].name = n /\ types[j][1] = schema.names[n][1]
    BY DEF NamesKnown
  <1>2. Required(types[i]) \subseteq NamesOf(types) \cup ToSet(DEFAULT_SCALARS)
    BY <1>1 DEF Resolves, NamesOf
  <1>3. \A n \in Implemented(types[i]) :
          \E j \in DOMAIN types : types[j][2].name = n /\ types[j][1] = "Interface"
    BY <1>1 DEF Resolves, IsNamed
  <1> QED
    BY <1>2, <1>3 DEF IngestedIsClosed, Storing

\* In a closed schema that names no type twice, every name is there when its turn comes: a
\* type names scalars and enumerations, which come before it, and types noted beforehand.
LEMMA ClosedResolves ==
    ASSUME TypeOK, NamesKnown, Closed(types), AllDistinct(types), NEW i, IsFirst(i)
    PROVE  Resolves(schema, types[i])
  <1> DEFINE kind == types[i][1]
  <1>1. i \in todo /\ i \in DOMAIN types /\ kind \in Kinds
    BY DEF TypeOK, IsSchema, IsFirst
  <1>2. \A j \in DOMAIN types :
          j \notin todo \/ types[j][1] \in DOMAIN Names => types[j][2].name \in DOMAIN schema.names
    BY DEF NamesKnown
  <1>3. \A j \in DOMAIN types :
          types[j][1] \in DOMAIN Names => schema.names[types[j][2].name][1] = types[j][1]
    BY DEF NamesKnown
  <1>4. {"Object", "Interface"} \subseteq DOMAIN Names
    BY NamesType DEF Counted, Kinds
  <1>5. Required(types[i]) \subseteq DOMAIN schema.names
    <2> SUFFICES ASSUME NEW n \in Required(types[i]), n \notin ToSet(DEFAULT_SCALARS)
                 PROVE  n \in DOMAIN schema.names
      BY DEF NamesKnown
    <2>1. kind \in {"Object", "Interface", "Union", "InputObject"}
      BY DEF Required
    <2>2. PICK j \in DOMAIN types : types[j][2].name = n
      BY <1>1 DEF Closed, NamesOf
    <2>3. CASE j \notin todo
      BY <1>2, <2>2, <2>3
    <2>4. CASE j \in todo
      <3>1. Passes[kind] <= Passes[types[j][1]] /\ types[j][1] \in Kinds
        BY <2>4, FirstOfKind
      <3>2. types[j][1] \notin {"Scalar", "Enum"}
        BY <2>1, <3>1 DEF Passes, GraphqlPasses, JsonPasses
      <3>3. types[j][1] \in DOMAIN Names
        BY <3>1, <3>2, NamesType DEF Counted
      <3> QED
        BY <1>2, <2>2, <3>3
    <2> QED
      BY <2>3, <2>4
  <1>6. \A n \in Implemented(types[i]) : IsNamed(schema, n, "Interface")
    <2> SUFFICES ASSUME NEW n \in Implemented(types[i])
                 PROVE  IsNamed(schema, n, "Interface")
      OBVIOUS
    <2>1. PICK j \in DOMAIN types : types[j][2].name = n /\ types[j][1] = "Interface"
      BY <1>1 DEF Closed
    <2> QED
      BY <1>2, <1>3, <1>4, <2>1 DEF IsNamed
  <1>7. kind \in {"Object", "Interface"} => IsNamed(schema, types[i][2].name, kind)
    BY <1>1, <1>2, <1>3, <1>4 DEF IsNamed
  <1> QED
    BY <1>5, <1>6, <1>7 DEF Resolves

-----------------------------------------------------------------------------
(* The invariant.                                                          *)

\* What a step of a pass does: a type is stored, or a name of it is not found.
LEMMA IngestStep ==
    ASSUME TypeOK,
           IngestScalar \/ IngestEnum \/ IngestUnion \/ IngestInterface \/ IngestObject \/ IngestInput
    PROVE  /\ ~panicked /\ UNCHANGED <<source, from, types, finished>>
           /\ \E i \in todo :
                /\ IsFirst(i)
                /\ IF Resolves(schema, types[i])
                   THEN Storing(i) /\ UNCHANGED panicked
                   ELSE panicked' = TRUE /\ UNCHANGED <<schema, todo>>
  <1>1. DOMAIN schema = DOMAIN NewSchema
    BY DEF TypeOK, SchemaTypeOK
  <1>2. CASE IngestScalar
    BY <1>1, <1>2, IngestStores DEF IngestScalar, Ingest, IsFirst, Storing
  <1>3. CASE IngestEnum
    BY <1>1, <1>3, IngestStores DEF IngestEnum, Ingest, IsFirst, Storing
  <1>4. CASE IngestUnion
    BY <1>1, <1>4, IngestStores DEF IngestUnion, Ingest, IsFirst, Storing
  <1>5. CASE IngestInterface
    BY <1>1, <1>5, IngestStores DEF IngestInterface, Ingest, IsFirst, Storing
  <1>6. CASE IngestObject
    BY <1>1, <1>6, IngestStores DEF IngestObject, Ingest, IsFirst, Storing
  <1>7. CASE IngestInput
    BY <1>1, <1>7, IngestStores DEF IngestInput, Ingest, IsFirst, Storing
  <1> QED
    BY <1>2, <1>3, <1>4, <1>5, <1>6, <1>7

LEMMA IngestNext ==
    ASSUME IngestionInv,
           IngestScalar \/ IngestEnum \/ IngestUnion \/ IngestInterface \/ IngestObject \/ IngestInput
    PROVE  IngestionInv'
  <1>1. TypeOK /\ StoredInOrder /\ NamesAwait /\ NamesKnown /\ IngestedIsClosed /\ Conversions
    BY DEF IngestionInv
  <1>2. PICK i \in todo :
          /\ IsFirst(i)
          /\ IF Resolves(schema, types[i])
             THEN Storing(i) /\ UNCHANGED panicked
             ELSE panicked' = TRUE /\ UNCHANGED <<schema, todo>>
    BY <1>1, IngestStep
  <1>3. ~panicked /\ UNCHANGED <<source, from, types, finished>>
    BY <1>1, IngestStep
  <1>4. IdsMatchNames'
    BY <1>3 DEF IngestionInv, IdsMatchNames
  <1>5. CASE Resolves(schema, types[i])
    <2>1. Storing(i) /\ UNCHANGED panicked
      BY <1>2, <1>5
    <2>2. SchemaTypeOK(schema')
      BY <1>1, <2>1, StoredKeeps DEF TypeOK, Storing, IsSchema
    <2>3. TypeOK'
      BY <1>1, <1>3, <2>1, <2>2 DEF TypeOK, Storing
    <2>4. StoredInOrder' /\ NamesAwait' /\ NamesKnown' /\ IngestedIsClosed'
      BY <1>1, <1>5, <2>1, OrderNext, AwaitNext, KnownNext, ClosedNext
    <2>5. Conversions' /\ PanicsOnlyUnresolved'
      BY <1>1, <1>3, <2>1 DEF IngestionInv, Conversions, PanicsOnlyUnresolved
    <2> QED
      BY <1>4, <2>3, <2>4, <2>5 DEF IngestionInv
  <1>6. CASE ~Resolves(schema, types[i])
    <2>1. panicked' = TRUE /\ UNCHANGED <<schema, todo>>
      BY <1>2, <1>6
    <2>2. ~(Closed(types) /\ AllDistinct(types))
      BY <1>1, <1>2, <1>6, ClosedResolves
    <2>3. from = "graphql" /\ types = Types(source)
      <3>1. types # <<>>
        BY <1>1, <1>2 DEF TypeOK, IsSchema
      <3> QED
        BY <1>1, <2>2, <3>1 DEF TypeOK, Conversions
    <2>4. PanicsOnlyUnresolved'
      BY <1>3, <2>2, <2>3 DEF IngestionInv, PanicsOnlyUnresolved
    <2>5. TypeOK'
      BY <1>1, <1>3, <2>1 DEF TypeOK
    <2>6. StoredInOrder' /\ NamesAwait' /\ NamesKnown' /\ IngestedIsClosed'
      <3>1. /\ Names' = Names
            /\ \A k : OfKind(k)' = OfKind(k)
        BY <1>3 DEF Names, OfKind
      <3> QED
        BY <1>1, <1>3, <2>1, <3>1 DEF StoredInOrder, NamesAwait, NamesKnown, IngestedIsClosed
    <2>7. Conversions'
      BY <1>3, <2>3 DEF Conversions
    <2> QED
      BY <1>4, <2>4, <2>5, <2>6, <2>7 DEF IngestionInv
  <1> QED
    BY <1>5, <1>6

LEMMA FreshHolds ==
    Fresh => SchemaTypeOK(schema) /\ StoredInOrder /\ NamesAwait /\ NamesKnown /\ IngestedIsClosed
  BY FreshInv

LEMMA FreshNext ==
    Fresh' => SchemaTypeOK(schema)' /\ StoredInOrder' /\ NamesAwait' /\ NamesKnown' /\ IngestedIsClosed'
  BY FreshHolds, PTL

LEMMA DocumentNext ==
    ASSUME IngestionInv, AnyDocument
    PROVE  IngestionInv'
  <1>1. /\ from = "nothing" /\ from' = "graphql" /\ types' = Types(source')
        /\ todo' = DOMAIN types' /\ schema' = WithNames(NewSchema, GraphqlNames, types')
        /\ UNCHANGED <<finished, panicked>> /\ IsSchema(types')
    BY DEF AnyDocument, BuildFromGraphql
  <1>2. finished = <<>> /\ ~panicked /\ TypeOK
    BY <1>1 DEF IngestionInv, Conversions
  <1>3. /\ DOMAIN schema' = DOMAIN NewSchema /\ schema'.stored = NewSchema.stored
        /\ AreNoted(schema'.names, NewSchema.names, GraphqlNames, types')
    BY <1>1, NamesNoted, Orders
  <1>4. Fresh'
    BY <1>1, <1>3 DEF Fresh, Names
  <1>5. TypeOK'
    BY <1>1, <1>2, <1>4, FreshNext DEF TypeOK
  <1>6. Conversions' /\ PanicsOnlyUnresolved' /\ IdsMatchNames'
    BY <1>1, <1>2 DEF Conversions, PanicsOnlyUnresolved, IdsMatchNames
  <1> QED
    BY <1>4, <1>5, <1>6, FreshNext DEF IngestionInv

LEMMA AnswerNext ==
    ASSUME IngestionInv, AnyAnswer
    PROVE  IngestionInv'
  <1>1. /\ from = "graphql" /\ Len(finished) = 1 /\ from' = "json"
        /\ Closed(types') /\ AllDistinct(types')
        /\ todo' = {i \in DOMAIN types' : NotDefaultScalar(types'[i])}
        /\ schema' = WithNames(NewSchema, JsonNames, types')
        /\ UNCHANGED <<source, finished, panicked>> /\ IsSchema(types')
        /\ NamesOf(Types(source)) \subseteq NamesOf(types')
    BY DEF AnyAnswer, BuildFromJson
  <1>2. TypeOK /\ finished # <<>>
    BY <1>1 DEF IngestionInv
  <1>3. /\ DOMAIN schema' = DOMAIN NewSchema /\ schema'.stored = NewSchema.stored
        /\ AreNoted(schema'.names, NewSchema.names, JsonNames, types')
    BY <1>1, NamesNoted, Orders
  <1>4. Fresh'
    BY <1>1, <1>3 DEF Fresh, Names
  <1>5. TypeOK'
    BY <1>1, <1>2, <1>4, FreshNext DEF TypeOK
  <1>6. Conversions'
    BY <1>1, <1>2 DEF Conversions
  <1>7. PanicsOnlyUnresolved' /\ IdsMatchNames'
    BY <1>1 DEF IngestionInv, PanicsOnlyUnresolved, IdsMatchNames
  <1> QED
    BY <1>4, <1>5, <1>6, <1>7, FreshNext DEF IngestionInv

LEMMA RootsNext ==
    ASSUME IngestionInv, DefineRoots
    PROVE  IngestionInv'
  <1> DEFINE new == WithRoots(schema, Roots(source))
  <1>1. /\ from # "nothing" /\ todo = {} /\ ~panicked
        /\ finished' = Append(finished, new)
        /\ UNCHANGED <<source, from, types, todo, schema, panicked>>
        /\ from = "json" => Len(finished) = 1
    BY DEF DefineRoots
  <1>2. TypeOK /\ NamesAwait /\ NamesKnown /\ IngestedIsClosed /\ Conversions
    BY DEF IngestionInv
  <1>3. DOMAIN new = DOMAIN schema /\ new.stored = schema.stored /\ new.names = schema.names
    BY <1>2 DEF WithRoots, TypeOK, SchemaTypeOK, NewSchema
  <1> HIDE DEF new
  <1>4. SchemaTypeOK(new)
    BY <1>2, <1>3 DEF TypeOK, SchemaTypeOK
  <1>5. /\ IsList(finished') /\ Len(finished') = Len(finished) + 1
        /\ \A i \in 1 .. Len(finished) : finished'[i] = finished[i]
        /\ finished'[Len(finished) + 1] = new
        /\ DOMAIN finished = 1 .. Len(finished) /\ DOMAIN finished' = 1 .. Len(finished) + 1
        /\ Len(finished) \in Nat
    BY <1>1, <1>2, ListAppend DEF TypeOK, IsList
  <1>6. \A i \in DOMAIN finished' : i \in DOMAIN finished \/ i = Len(finished) + 1
    BY <1>5
  <1>7. TypeOK'
    BY <1>1, <1>2, <1>4, <1>5, <1>6 DEF TypeOK
  <1>8. StoredInOrder' /\ NamesAwait' /\ NamesKnown' /\ IngestedIsClosed'
    <2>1. Names' = Names /\ \A k : OfKind(k)' = OfKind(k)
      BY <1>1 DEF Names, OfKind
    <2> QED
      BY <1>1, <1>2, <2>1 DEF IngestionInv, StoredInOrder, NamesAwait, NamesKnown, IngestedIsClosed
  <1>9. Conversions'
    <2>1. finished' # <<>>
      BY <1>5
    <2> QED
      BY <1>1, <1>2, <2>1 DEF Conversions
  <1>10. IdsMatchNames'
    <2>1. NamesOf(Types(source)) \subseteq DOMAIN new.names
      <3>1. NamesOf(types) \subseteq DOMAIN schema.names
        BY <1>1, <1>2 DEF NamesKnown, NamesOf
      <3>2. NamesOf(Types(source)) \subseteq NamesOf(types)
        BY <1>1, <1>2 DEF TypeOK, Conversions
      <3> QED
        BY <1>3, <3>1, <3>2
    <2>2. \A n \in DOMAIN new.names :
            IsStored(new, new.names[n]) /\ TypeName(new, new.names[n]) = n
      BY <1>1, <1>2, <1>3 DEF NamesAwait, IsStored, TypeName
    <2> QED
      BY <1>1, <1>5, <1>6, <2>1, <2>2 DEF IngestionInv, IdsMatchNames
  <1>11. PanicsOnlyUnresolved'
    <2>1. CASE from = "graphql"
      <3>1. Closed(types)
        BY <1>1, <1>2 DEF IngestedIsClosed, Closed
      <3> QED
        BY <1>1, <1>2, <2>1, <3>1 DEF Conversions, PanicsOnlyUnresolved
    <2>2. CASE from = "json"
      BY <1>1, <1>2, <2>2 DEF IngestionInv, Conversions, PanicsOnlyUnresolved
    <2> QED
      BY <1>1, <1>2, <2>1, <2>2 DEF TypeOK
  <1> QED
    BY <1>7, <1>8, <1>9, <1>10, <1>11 DEF IngestionInv

LEMMA InitInv ==
    ASSUME IngestionInit
    PROVE  IngestionInv
  <1>1. Fresh
    <2>1. Noted(Names, types) = {}
      BY DEF IngestionInit, Noted
    <2>2. AreNoted(NewSchema.names, NewSchema.names, Names, types)
      BY <2>1 DEF AreNoted
    <2>3. IsSchema(<<>>)
      BY DEF IsSchema
    <2> QED
      BY <2>2, <2>3 DEF IngestionInit, Fresh
  <1>2. IsList(<<>>)
    BY DEF IsList
  <1>3. TypeOK
    BY <1>1, <1>2, FreshInv DEF TypeOK, Fresh, IngestionInit
  <1>4. Conversions /\ IdsMatchNames /\ PanicsOnlyUnresolved
    BY DEF IngestionInit, Conversions, IdsMatchNames, PanicsOnlyUnresolved
  <1> QED
    BY <1>1, <1>3, <1>4, FreshInv DEF IngestionInv

LEMMA StutterInv ==
    ASSUME IngestionInv, UNCHANGED ivars
    PROVE  IngestionInv'
  <1>1. Names' = Names /\ \A k : OfKind(k)' = OfKind(k)
    BY DEF ivars, Names, OfKind
  <1>2. TypeOK' <=> TypeOK
    BY DEF ivars, TypeOK
  <1>3. StoredInOrder' <=> StoredInOrder
    BY <1>1 DEF ivars, StoredInOrder
  <1>4. (NamesAwait' <=> NamesAwait) /\ (NamesKnown' <=> NamesKnown)
    BY <1>1 DEF ivars, NamesAwait, NamesKnown
  <1>5. (IngestedIsClosed' <=> IngestedIsClosed) /\ (Conversions' <=> Conversions)
    BY DEF ivars, IngestedIsClosed, Conversions
  <1>6. (IdsMatchNames' <=> IdsMatchNames) /\ (PanicsOnlyUnresolved' <=> PanicsOnlyUnresolved)
    BY DEF ivars, IdsMatchNames, PanicsOnlyUnresolved
  <1> QED
    BY <1>2, <1>3, <1>4, <1>5, <1>6 DEF IngestionInv

\* The invariant of the conversions, whatever the document and the answer.
THEOREM IngestionIsInvariant == Ingestion => []IngestionInv
  <1>1. IngestionInit => IngestionInv
    BY InitInv
  <1>2. IngestionInv /\ [IngestionNext]_ivars => IngestionInv'
    BY IngestNext, DocumentNext, AnswerNext, RootsNext, StutterInv DEF IngestionNext
  <1> QED
    BY <1>1, <1>2, PTL DEF Ingestion

\* The number noted under a name is that of the type stored under it.
THEOREM NumbersAreRight == Ingestion => []IdsMatchNames
  <1>1. IngestionInv => IdsMatchNames
    BY DEF IngestionInv
  <1> QED
    BY <1>1, IngestionIsInvariant, PTL

\* A conversion finds every name of a closed schema, and finishes no other.
THEOREM NothingMissing == Ingestion => []PanicsOnlyUnresolved
  <1>1. IngestionInv => PanicsOnlyUnresolved
    BY DEF IngestionInv
  <1> QED
    BY <1>1, IngestionIsInvariant, PTL
==============================================================================
